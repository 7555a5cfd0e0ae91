----------------------------- MODULE LoginHandoff -----------------------------
(***************************************************************************)
(* How a player gets into the logic server, and out of it again.  Three    *)
(* threads of the logic server and the session server pass messages:       *)
(*   gate thread      CLogicGate: the users of one gate server             *)
(*   logic thread     CNetWorkMsgHandle and CActor: the actors             *)
(*   session client   CCustomSessionClient: a copy of the open sessions    *)
(*   session server   the one session of every account                     *)
(* A player connects (GM_OPEN), has the password checked, which opens a    *)
(* session, picks a character, and gets an actor whose data is then loaded *)
(* from the database.  Any of these steps may come too late: the player is *)
(* gone, or has logged in a second time over another connection.           *)
(*                                                                         *)
(* A connection is named by its key (lLogicKey, unique per connection) and *)
(* an actor by the number of its login, which stands for its handle.       *)
(***************************************************************************)
EXTENDS Integers, Sequences, FiniteSets, FiniteSetsExt, SequencesExt

CONSTANTS
  Account, NoAccount,  \* accounts; nGlobalSessionId 0
  Character, NoChar,   \* characters; nCharId 0
  Owner,               \* the account of a character, as the database has it
  Picks,               \* the <<account, character>> pairs players log in with
  Fd, NoFd,            \* sockets at the gate server
  MaxActors,           \* size of the pool of actors
  MaxConns,            \* bound: how many connections are made
  MaxLogins,           \* bound: how many logins are asked for
  GateMayFail          \* may the gate server be lost?

ASSUME LoginAssumption ==
  /\ NoAccount \notin Account /\ NoChar \notin Character /\ NoFd \notin Fd
  /\ Owner \in [Character -> Account]
  /\ Picks \subseteq Account \X Character
  /\ MaxActors \in Nat /\ MaxConns \in Nat /\ MaxLogins \in Nat
  /\ GateMayFail \in BOOLEAN

VARIABLES
  users,      \* m_UserList of the gate: a sequence, with gaps
  conns,      \* how many connections were opened so far
  logins,     \* how many logins were asked for so far
  gateMsgs,   \* internal messages to the gate thread
  logicMsgs,  \* internal messages to the logic thread
  actors,     \* the actors
  dbQueries,  \* characters whose data is being loaded
  local,      \* session client: <<account, key>> of the open sessions
  closeReqs,  \* internal messages to the session client: sessions to close
  checks,     \* session server: passwords to check, as <<account, key>>
  opened,     \* session server: the key of an account's session, 0 for none
  ssCloses,   \* session server: sessions to close
  fromSS,     \* messages of the session server to the session client
  again,      \* for the properties: the keys over which a client logged in more than once
  granted     \* for the properties: the sessions that were ever opened

gateVars == <<users, conns, logins, again>>
logicVars == <<actors, dbQueries>>
serverVars == <<checks, opened, granted, fromSS>>
vars == <<gateVars, logicVars, serverVars, gateMsgs, logicMsgs, local, closeReqs, ssCloses>>

-----------------------------------------------------------------------------
Key == 1 .. MaxConns
Nobody == [sock |-> NoFd, key |-> 0, account |-> NoAccount, char |-> NoChar, handle |-> 0,
           asked |-> FALSE]
NoActor == 0

Present == {p \in DOMAIN users : users[p] # Nobody}
HasKey(k) == {p \in Present : users[p].key = k}
HasSock(f) == {p \in Present : users[p].sock = f}

Kick(k) == [type |-> "kick", key |-> k]
CloseSock(f, k) == [type |-> "close", sock |-> f, key |-> k]  \* key for the properties
Checked(a, k) == [type |-> "checked", account |-> a, key |-> k]
SetHandle(p, h, a) == [type |-> "set", pos |-> p, handle |-> h, account |-> a]
Logout(a, k) == [type |-> "logout", account |-> a, key |-> k]

Init ==
  /\ users = << >>
  /\ conns = 0
  /\ logins = 0
  /\ gateMsgs = << >>
  /\ logicMsgs = << >>
  /\ actors = {}
  /\ dbQueries = {}
  /\ local = {}
  /\ closeReqs = {}
  /\ checks = {}
  /\ opened = [a \in Account |-> 0]
  /\ ssCloses = {}
  /\ fromSS = << >>
  /\ again = {}
  /\ granted = {}

-----------------------------------------------------------------------------
(* The gate thread *)

\* OpenNewUser: the last gap of the list is filled, or the list grows.
GateOpen(f) ==
  LET gaps == DOMAIN users \ Present
      user == [Nobody EXCEPT !.sock = f, !.key = conns + 1]
  IN  /\ conns < MaxConns
      /\ users' = IF gaps = {} THEN Append(users, user) ELSE [users EXCEPT ![Max(gaps)] = user]
      /\ conns' = conns + 1
      /\ UNCHANGED <<logins, again, logicVars, serverVars, gateMsgs, logicMsgs, local,
                     closeReqs, ssCloses>>

\* Mutant: only a user with an actor is logged out.
LogoutOfActor(p) ==
  IF users[p].handle = 0 THEN << >> ELSE <<Logout(users[p].account, users[p].key)>>

\* OnCloseUser: the logic thread hears of it when the user had an account.
LogoutOf(p) ==
  IF users[p].account = NoAccount THEN << >> ELSE <<Logout(users[p].account, users[p].key)>>

\* CloseUser and GateUserClosed, for the last of the positions S, and then the
\* messages more to the logic thread.
CloseUser(S, more) ==
  IF S = {} THEN UNCHANGED users /\ logicMsgs' = logicMsgs \o more
  ELSE /\ users' = [users EXCEPT ![Max(S)] = Nobody]
       /\ logicMsgs' = logicMsgs \o LogoutOf(Max(S)) \o more

\* GM_CLOSE from the gate server, or 15 minutes without data.
GateClose(p) ==
  /\ p \in Present
  /\ CloseUser({p}, << >>)
  /\ UNCHANGED <<conns, logins, again, logicVars, serverVars, gateMsgs, local, closeReqs, ssCloses>>

\* Disconnected: every user of the gate is closed, from the last to the first.
GateLost ==
  LET told == {p \in Present : users[p].account # NoAccount}
  IN  /\ GateMayFail
      /\ users # << >>
      /\ users' = << >>
      /\ \E order \in [1 .. Cardinality(told) -> told] :
           /\ \A p \in told : \E i \in DOMAIN order : order[i] = p
           /\ \A i, j \in DOMAIN order : i < j => order[i] > order[j]
           /\ logicMsgs' = logicMsgs \o [i \in DOMAIN order |->
                                         Logout(users[order[i]].account, users[order[i]].key)]
      /\ UNCHANGED <<conns, logins, again, logicVars, serverVars, gateMsgs, local, closeReqs, ssCloses>>

\* cCheckUserPasswd: the session server is asked; bound: once per connection.
GateCheck(p, a) ==
  /\ p \in Present
  /\ ~ users[p].asked
  /\ users' = [users EXCEPT ![p].asked = TRUE]
  /\ checks' = checks \cup {<<a, users[p].key>>}
  /\ UNCHANGED <<conns, logins, again, logicVars, opened, granted, fromSS, gateMsgs, logicMsgs,
                 local, closeReqs, ssCloses>>

\* cLogin: OnUserLogin believes the client, the logic thread will check.
GateLogin(p, a, c) ==
  /\ p \in Present
  /\ logins < MaxLogins
  /\ users[p].handle = 0
  /\ users' = [users EXCEPT ![p].account = a, ![p].char = c]
  /\ logins' = logins + 1
  /\ again' = IF users[p].char = NoChar THEN again ELSE again \cup {users[p].key}
  /\ logicMsgs' = Append(logicMsgs, [type |-> "create", handle |-> logins + 1, char |-> c,
                                     pos |-> p, account |-> a, key |-> users[p].key])
  /\ UNCHANGED <<conns, logicVars, serverVars, gateMsgs, local, closeReqs, ssCloses>>

\* DispatchInternalMessage, one message at a time.
IsNext(queue, type) == queue # << >> /\ Head(queue).type = type

GateChecked ==
  LET m == Head(gateMsgs)
  IN  /\ IsNext(gateMsgs, "checked")
      /\ users' = [p \in DOMAIN users |->
                     IF p \in HasKey(m.key) THEN [users[p] EXCEPT !.account = m.account] ELSE users[p]]
      /\ gateMsgs' = Tail(gateMsgs)
      /\ UNCHANGED <<conns, logins, again, logicVars, serverVars, logicMsgs, local, closeReqs, ssCloses>>

\* Mutant: only a user with an actor is kicked.
GateKickActor ==
  LET found == {p \in HasKey(Head(gateMsgs).key) : users[p].handle # 0}
  IN  /\ IsNext(gateMsgs, "kick")
      /\ gateMsgs' = Tail(gateMsgs) \o SetToSeq({CloseSock(users[p].sock, users[p].key) : p \in found})
      /\ UNCHANGED <<gateVars, logicVars, serverVars, logicMsgs, local, closeReqs, ssCloses>>

\* The user is looked up by key, and closed by socket with a further message.
GateKick ==
  LET found == HasKey(Head(gateMsgs).key)
  IN  /\ IsNext(gateMsgs, "kick")
      /\ gateMsgs' = Tail(gateMsgs) \o SetToSeq({CloseSock(users[p].sock, users[p].key) : p \in found})
      /\ UNCHANGED <<gateVars, logicVars, serverVars, logicMsgs, local, closeReqs, ssCloses>>

GateCloseSock ==
  /\ IsNext(gateMsgs, "close")
  /\ CloseUser(HasSock(Head(gateMsgs).sock), << >>)
  /\ gateMsgs' = Tail(gateMsgs)
  /\ UNCHANGED <<conns, logins, again, logicVars, serverVars, local, closeReqs, ssCloses>>

\* SSM_GATE_CREATE_ACTOR: the handle of the new actor, 0 when there is none.  The
\* handle is set whoever is at the position by now, and when that is not the user
\* asked for, the actor is logged out again, without its key.
GateSetHandle ==
  LET m == Head(gateMsgs)
      there == {m.pos} \cap Present
      valid == /\ there # {}
               /\ users[m.pos].account = m.account
               /\ users[m.pos].handle = 0
               /\ m.handle # NoActor
      last == IF valid THEN << >> ELSE <<Logout(m.account, 0)>>
  IN  /\ IsNext(gateMsgs, "set")
      /\ IF m.handle = NoActor
         THEN CloseUser(there, last)
         ELSE /\ users' = [p \in DOMAIN users |->
                             IF p \in there THEN [users[p] EXCEPT !.handle = m.handle] ELSE users[p]]
              /\ logicMsgs' = logicMsgs \o last
      /\ gateMsgs' = Tail(gateMsgs)
      /\ UNCHANGED <<conns, logins, again, logicVars, serverVars, local, closeReqs, ssCloses>>

GateMessage == GateChecked \/ GateKick \/ GateCloseSock \/ GateSetHandle

-----------------------------------------------------------------------------
(* The logic thread *)

\* CloseActor, for the actors S: an actor that is initialised closes its session;
\* its user is kicked, unless it was the gate that logged it out.
SessionsOf(S) == {<<x.account, x.key>> : x \in {y \in S : y.inited}}
KicksOf(S) == SetToSeq({Kick(x.key) : x \in S})

\* Mutants: a rival is one that plays the same character; only a loaded character
\* is found in the game.
RivalsInPlay(m) ==
  {x \in actors : x.account = m.account /\ x.key # m.key /\ x.char = m.char}
PlayingLoaded(c) == {x \in actors : x.char = c /\ x.inited}

\* The actors of the account over other connections, and those of a character.
Rivals(m) == {x \in actors : x.account = m.account /\ x.key # m.key}

Playing(c) == {x \in actors : x.char = c}

\* GetEntityPtrByAccountID finds the first actor of the account, in the order of the
\* actors.  The code asks for it four times, one time after the other, and the
\* actor goes when it is of another connection; one of the same connection stays, and
\* hides those after it.
Lookups == 4
Found(a) == {x \in actors : x.account = a}
MakeWay(m) ==
  {S \in SUBSET Rivals(m) :
     /\ Cardinality(S) <= Lookups
     /\ Cardinality(S) < Lookups => S = Rivals(m) \/ Rivals(m) # Found(m.account)}

\* SSM_GATE_CREATE_ACTOR: the actors of the account over other connections make
\* way, but the login goes on when there is one over the same connection.
LogicCreate ==
  LET m == Head(logicMsgs)
  IN  /\ IsNext(logicMsgs, "create")
      /\ logicMsgs' = Tail(logicMsgs)
      /\ \E gone \in MakeWay(m) :
           LET online == Playing(m.char) \ gone
               foreign == \E x \in online : x.account # m.account
               closed == IF foreign THEN gone ELSE gone \cup online
               refused == foreign \/ <<m.account, m.key>> \notin local
               full == Cardinality(actors \ closed) >= MaxActors
               new == [handle |-> m.handle, char |-> m.char, account |-> m.account,
                       key |-> m.key, inited |-> FALSE]
           IN  /\ closeReqs' = closeReqs \cup SessionsOf(closed)
               /\ gateMsgs' = gateMsgs \o KicksOf(closed) \o
                    IF refused THEN <<Kick(m.key)>>
                    ELSE <<SetHandle(m.pos, IF full THEN NoActor ELSE m.handle, m.account)>>
               /\ actors' = (actors \ closed) \cup (IF refused \/ full THEN {} ELSE {new})
               /\ dbQueries' = dbQueries \cup (IF refused \/ full THEN {} ELSE {m.char})
      /\ UNCHANGED <<gateVars, serverVars, local, ssCloses>>

\* SSM_GATE_USER_LOGOUT: only the actor of that very connection goes.
LogicLogout ==
  LET m == Head(logicMsgs)
      same == Found(m.account)
  IN  /\ IsNext(logicMsgs, "logout")
      /\ logicMsgs' = Tail(logicMsgs)
      /\ \/ /\ same = {}
            /\ closeReqs' = closeReqs \cup {<<m.account, m.key>>}
            /\ UNCHANGED actors
         \/ \E x \in same :
              LET closed == {y \in {x} : y.key = m.key}
              IN  /\ actors' = actors \ closed
                  /\ closeReqs' = closeReqs \cup SessionsOf(closed)
      /\ UNCHANGED <<gateVars, dbQueries, serverVars, gateMsgs, local, ssCloses>>

\* Mutant: the account is not compared.
WrongCharacter(x) == \E p \in HasKey(x.key) : users[p].char # x.char

\* CActor::Init compares what was loaded with what the user of the actor asked for,
\* as long as there is that user.
WrongData(x) ==
  \E p \in HasKey(x.key) : users[p].char # x.char \/ users[p].account # Owner[x.char]

\* OnDbReturnData: an actor that may not have the data is closed.
LogicLoaded(c) ==
  LET waiting == {x \in actors : x.char = c /\ ~ x.inited}
      wrong == {x \in waiting : WrongData(x)}
  IN  /\ c \in dbQueries
      /\ dbQueries' = dbQueries \ {c}
      /\ actors' = (actors \ waiting) \cup {[x EXCEPT !.inited = TRUE] : x \in waiting \ wrong}
      /\ gateMsgs' = gateMsgs \o KicksOf(wrong)
      /\ UNCHANGED <<gateVars, serverVars, logicMsgs, local, closeReqs, ssCloses>>

\* The logic thread closes an actor by itself (game master, idle, cheating).
LogicClose(x) ==
  /\ actors' = actors \ {x}
  /\ closeReqs' = closeReqs \cup SessionsOf({x})
  /\ gateMsgs' = gateMsgs \o KicksOf({x})
  /\ UNCHANGED <<gateVars, dbQueries, serverVars, logicMsgs, local, ssCloses>>

LogicMessage == LogicCreate \/ LogicLogout

-----------------------------------------------------------------------------
(* The session client and the session server *)

\* Mutant: the session is not looked up.
ClientCloseUnchecked(s) ==
  /\ s \in closeReqs
  /\ closeReqs' = closeReqs \ {s}
  /\ ssCloses' = ssCloses \cup {s}
  /\ UNCHANGED <<gateVars, logicVars, serverVars, gateMsgs, logicMsgs, local>>

\* SSIM_CLOSE_SESSION: the server is asked to close it; the local copy stays until
\* the server says so.
ClientClose(s) ==
  /\ s \in closeReqs
  /\ closeReqs' = closeReqs \ {s}
  /\ ssCloses' = IF s \in local THEN ssCloses \cup {s} ELSE ssCloses
  /\ UNCHANGED <<gateVars, logicVars, serverVars, gateMsgs, logicMsgs, local>>

\* CatchOpenSession and CatchCloseSession.
ClientReceive ==
  LET m == Head(fromSS)
      s == <<m.account, m.key>>
  IN  /\ fromSS # << >>
      /\ fromSS' = Tail(fromSS)
      /\ local' = IF m.open THEN local \cup {s} ELSE local \ {s}
      /\ gateMsgs' = IF m.open THEN Append(gateMsgs, Checked(m.account, m.key)) ELSE gateMsgs
      /\ UNCHANGED <<gateVars, logicVars, checks, opened, granted, logicMsgs, closeReqs, ssCloses>>

\* The password is right: the session the account has is to be closed, by a message
\* of its own, and PostOpenSession puts the new key into the very same entry.
ServerOpen(a, k) ==
  /\ <<a, k>> \in checks
  /\ checks' = checks \ {<<a, k>>}
  /\ ssCloses' = IF opened[a] = 0 THEN ssCloses ELSE ssCloses \cup {<<a, opened[a]>>}
  /\ opened' = [opened EXCEPT ![a] = k]
  /\ granted' = granted \cup {<<a, k>>}
  /\ fromSS' = Append(fromSS, [open |-> TRUE, account |-> a, key |-> k])
  /\ UNCHANGED <<gateVars, logicVars, gateMsgs, logicMsgs, local, closeReqs>>

\* Mutant: the session of the account is closed, whatever its key.
ServerCloseAny(s) ==
  /\ s \in ssCloses
  /\ ssCloses' = ssCloses \ {s}
  /\ opened' = [opened EXCEPT ![s[1]] = 0]
  /\ fromSS' = Append(fromSS, [open |-> FALSE, account |-> s[1], key |-> opened[s[1]]])
  /\ UNCHANGED <<gateVars, logicVars, checks, granted, gateMsgs, logicMsgs, local, closeReqs>>

\* CloseSessionAtListIndex, when the session is still the one meant.
ServerClose(s) ==
  LET found == opened[s[1]] = s[2]
  IN  /\ s \in ssCloses
      /\ ssCloses' = ssCloses \ {s}
      /\ opened' = IF found THEN [opened EXCEPT ![s[1]] = 0] ELSE opened
      /\ fromSS' = IF found THEN Append(fromSS, [open |-> FALSE, account |-> s[1], key |-> s[2]])
                   ELSE fromSS
      /\ UNCHANGED <<gateVars, logicVars, checks, granted, gateMsgs, logicMsgs, local, closeReqs>>

Next ==
  \/ \E f \in Fd : GateOpen(f)
  \/ \E p \in DOMAIN users :
       \/ GateClose(p)
       \/ \E a \in Account : GateCheck(p, a)
       \/ \E pick \in Picks : GateLogin(p, pick[1], pick[2])
  \/ GateLost
  \/ GateMessage
  \/ LogicMessage
  \/ \E c \in Character : LogicLoaded(c)
  \/ \E x \in actors : LogicClose(x)
  \/ \E s \in closeReqs : ClientClose(s)
  \/ ClientReceive
  \/ \E s \in checks : ServerOpen(s[1], s[2])
  \/ \E s \in ssCloses : ServerClose(s)

Spec == Init /\ [][Next]_vars

\* Every thread goes on handling its messages; players do as they like.
FairSpec ==
  /\ Spec
  /\ WF_vars(GateMessage)
  /\ WF_vars(LogicMessage)
  /\ \A c \in Character : WF_vars(LogicLoaded(c))
  /\ \A s \in Account \X Key :
       WF_vars(ClientClose(s)) /\ WF_vars(ServerOpen(s[1], s[2])) /\ WF_vars(ServerClose(s))
  /\ WF_vars(ClientReceive)

-----------------------------------------------------------------------------
(* Correctness *)

TypeOK ==
  /\ users \in Seq([sock : Fd \cup {NoFd}, key : 0 .. MaxConns, account : Account \cup {NoAccount},
                    char : Character \cup {NoChar}, handle : 0 .. MaxLogins, asked : BOOLEAN])
  /\ conns \in 0 .. MaxConns
  /\ logins \in 0 .. MaxLogins
  /\ actors \subseteq [handle : 1 .. MaxLogins, char : Character, account : Account,
                       key : Key, inited : BOOLEAN]
  /\ dbQueries \subseteq Character
  /\ local \subseteq Account \X Key
  /\ closeReqs \subseteq Account \X (0 .. MaxConns)
  /\ checks \subseteq Account \X Key
  /\ opened \in [Account -> 0 .. MaxConns]
  /\ ssCloses \subseteq Account \X Key
  /\ again \subseteq Key
  /\ granted \subseteq Account \X Key

\* No message is left between the gate thread and the logic thread.
Settled == gateMsgs = << >> /\ logicMsgs = << >>

\* The players of the account logged in once over each of their connections.
Calm(a) == \A k \in again : <<a, k>> \notin granted

\* Then it has one actor at most, whatever the other clients do.
OneActorWhenCalm ==
  \A x, y \in actors : x.account = y.account /\ Calm(x.account) => x = y

\* A character is never in the game twice.
OneActorPerCharacter ==
  \A x, y \in actors : x.char = y.char => x = y

\* Once the messages are handled, every actor of such an account has the user it was made
\* for, and that user's data goes to this actor: no player is left in the game without a
\* connection, whichever of the messages came too late.
NoOrphanActor ==
  Settled => \A x \in actors : Calm(x.account) =>
               \E p \in Present : users[p].key = x.key /\ users[p].handle = x.handle

\* A character that was loaded belongs to the account its actor was logged in with
\* (Actor.cpp:1916-1917).
OwnCharacter ==
  Settled => \A x \in actors : Calm(x.account) /\ x.inited => Owner[x.char] = x.account

\* Every player in the game over a connection with one login has the session that was given
\* to it: it stays open at the session client for as long as the actor lives.
ActorInSession == \A x \in actors : x.key \notin again => <<x.account, x.key>> \in local

\* Another user of the gate has the socket of this one.
SharedSocket(k) == \E p \in HasKey(k) : HasSock(users[p].sock) # {p}

\* A login is answered: the user gets its actor, or is closed, unless it shares its socket
\* with another.
LoginAnswered ==
  \A k \in Key :
    (\E i \in DOMAIN logicMsgs : logicMsgs[i].type = "create" /\ logicMsgs[i].key = k)
      ~> ((\A p \in HasKey(k) : users[p].handle # 0) \/ SharedSocket(k))

-----------------------------------------------------------------------------
(* What one would expect, and this code does not keep *)

\* An account that has an actor logged in already may not get another
\* (NetWorkMsgHandle.cpp:291-292).
OneActorPerAccount ==
  \A x, y \in actors : x.account = y.account => x = y

\* A kick closes the connection of the player it is about (Actor.cpp:579-592), although the
\* gate thread closes it by the number of its socket.
KickHitsItsUser ==
  LET m == Head(gateMsgs)
  IN  IsNext(gateMsgs, "close") /\ HasSock(m.sock) # {} => users[Max(HasSock(m.sock))].key = m.key
=============================================================================
