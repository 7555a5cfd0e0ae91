-------------------------- MODULE LoginHandoffProofs --------------------------
(***************************************************************************)
(* Proofs about LoginHandoff for any number of accounts, characters,       *)
(* connections and logins, and any order of the messages.                  *)
(*                                                                         *)
(* LoginInv holds whatever the clients do.  What it says of an actor's     *)
(* user and session is for connections with one login, or for calm         *)
(* accounts: the sets again and granted tell which these are.  Most        *)
(* actions are told apart only by what they do to the users (UsersQuiet),  *)
(* to the messages to the gate thread (GateGoesOn) and to the actors       *)
(* (ActorsStay); UserLogin and LogicCreate are treated by themselves.      *)
(***************************************************************************)
EXTENDS LoginHandoff, FiniteSetTheorems, TLAPS

User == [sock : Fd \cup {NoFd}, key : 0 .. MaxConns, account : Account \cup {NoAccount},
         char : Character \cup {NoChar}, handle : 0 .. MaxLogins, asked : BOOLEAN]
KickMsg == [type : {"kick"}, key : Key]
CloseMsg == [type : {"close"}, sock : Fd \cup {NoFd}, key : 0 .. MaxConns]
CheckedMsg == [type : {"checked"}, account : Account, key : Key]
SetMsg == [type : {"set"}, pos : Nat, handle : 0 .. MaxLogins, account : Account]
GateMsg == KickMsg \cup CloseMsg \cup CheckedMsg \cup SetMsg
CreateMsg == [type : {"create"}, handle : 1 .. MaxLogins, char : Character, pos : Nat,
              account : Account, key : Key]
LogoutMsg == [type : {"logout"}, account : Account, key : 0 .. MaxConns]
LogicMsg == CreateMsg \cup LogoutMsg
ActorRec == [handle : 1 .. MaxLogins, char : Character, account : Account, key : Key,
             inited : BOOLEAN]
SessionMsg == [open : BOOLEAN, account : Account, key : Key]

Types ==
  /\ users \in Seq(User)
  /\ conns \in 0 .. MaxConns
  /\ logins \in 0 .. MaxLogins
  /\ gateMsgs \in Seq(GateMsg)
  /\ logicMsgs \in Seq(LogicMsg)
  /\ actors \in SUBSET ActorRec
  /\ IsFiniteSet(actors)
  /\ dbQueries \in SUBSET Character
  /\ local \in SUBSET (Account \X Key)
  /\ closeReqs \in SUBSET (Account \X (0 .. MaxConns))
  /\ checks \in SUBSET (Account \X Key)
  /\ opened \in [Account -> 0 .. MaxConns]
  /\ ssCloses \in SUBSET (Account \X Key)
  /\ fromSS \in Seq(SessionMsg)
  /\ again \in SUBSET Key
  /\ granted \in SUBSET (Account \X Key)

\* A user is known by the key of its connection.
KeysUnique ==
  /\ \A p \in Present : users[p].key \in 1 .. conns
  /\ \A p, q \in Present : users[p].key = users[q].key => p = q

Base == Types /\ KeysUnique

-----------------------------------------------------------------------------
(* What is known of a key *)

IsCreate(i) == i \in DOMAIN logicMsgs /\ logicMsgs[i].type = "create"
IsLogout(i) == i \in DOMAIN logicMsgs /\ logicMsgs[i].type = "logout"
IsChecked(i) == i \in DOMAIN gateMsgs /\ gateMsgs[i].type = "checked"
IsSet(i) == i \in DOMAIN gateMsgs /\ gateMsgs[i].type = "set"

\* The player of this connection logs in, or has done so.
LoggingIn(k) ==
  \/ \E i \in DOMAIN logicMsgs : IsCreate(i) /\ logicMsgs[i].key = k
  \/ \E x \in actors : x.key = k

\* The logout of a connection comes after its logins, and a connection has one login
\* at most, unless its key is noted.
LoginsOnce ==
  /\ \A k \in Key : LoggingIn(k) => k <= conns /\ \A p \in HasKey(k) : users[p].char # NoChar
  /\ \A i, j \in DOMAIN logicMsgs :
       IsCreate(i) /\ IsCreate(j) /\ logicMsgs[i].key = logicMsgs[j].key
         => i = j \/ logicMsgs[i].key \in again
  /\ \A i \in DOMAIN logicMsgs, x \in actors :
       IsCreate(i) => logicMsgs[i].key # x.key \/ x.key \in again
  /\ \A x, y \in actors : x.key = y.key => x = y \/ x.key \in again
  /\ \A i \in DOMAIN logicMsgs : IsLogout(i) =>
       /\ logicMsgs[i].key <= conns
       /\ HasKey(logicMsgs[i].key) = {}
       /\ \A j \in i + 1 .. Len(logicMsgs) : IsCreate(j) => logicMsgs[j].key # logicMsgs[i].key

-----------------------------------------------------------------------------
(* Sessions *)

\* The session is not closed, nor about to be.
NotClosing(a, k) ==
  /\ <<a, k>> \notin closeReqs
  /\ <<a, k>> \in ssCloses => opened[a] # k
  /\ \A i \in DOMAIN fromSS : fromSS[i].open \/ fromSS[i].account # a \/ fromSS[i].key # k

\* A player that logs in over this connection, or may still do so, needs the session.
Needed(a, k) ==
  \/ \E x \in actors : x.account = a /\ x.key = k
  \/ \E i \in DOMAIN logicMsgs :
       IsCreate(i) /\ logicMsgs[i].account = a /\ logicMsgs[i].key = k
  \/ \E p \in HasKey(k) : users[p].char = NoChar

\* A session is not closed before its player has logged in, and not after that as long
\* as its actor lives, unless its connection logs in more than once.
SessionsKept ==
  /\ \A a \in Account, k \in Key : k \notin again /\ Needed(a, k) => NotClosing(a, k)
  /\ ActorInSession

\* The password of a connection is checked once, and a session is given to it once.
GrantedOnce ==
  /\ checks \cap granted = {}
  /\ \A s, t \in checks \cup granted : s[2] = t[2] => s = t
  /\ \A s \in checks \cup granted \cup closeReqs : s[2] <= conns
  /\ \A p \in Present : users[p].asked \/ \A s \in checks \cup granted : s[2] # users[p].key

\* Every session anyone speaks of was given.
AllGranted ==
  /\ local \cup ssCloses \subseteq granted
  /\ \A a \in Account : opened[a] = 0 \/ <<a, opened[a]>> \in granted
  /\ \A i \in DOMAIN fromSS : <<fromSS[i].account, fromSS[i].key>> \in granted
  /\ \A i \in DOMAIN gateMsgs : IsChecked(i) => <<gateMsgs[i].account, gateMsgs[i].key>> \in granted
  /\ \A x \in actors : <<x.account, x.key>> \in granted

-----------------------------------------------------------------------------
(* Actors and their users *)

\* The player of this connection logs in once, and no other account is given to it.
Single(a, k) == k \notin again /\ \A b \in Account : <<b, k>> \in granted => b = a

\* The gate thread has, or will have, the logout of this connection sent.
LogoutAfter(i, a, k) == \E j \in i + 1 .. Len(logicMsgs) : logicMsgs[j] = Logout(a, k)

\* The user at p is the one that logged in with this account and character.
UserAt(p, a, k, c) ==
  p \in HasKey(k) /\ users[p].account = a /\ users[p].char = c

\* A login that is not handled yet is that of a user still there, and the last for its
\* position, or its logout follows.
LoginAttached(i, p, a, k, c) ==
  \/ LogoutAfter(i, a, k)
  \/ /\ UserAt(p, a, k, c)
     /\ \A j \in i + 1 .. Len(logicMsgs) : IsCreate(j) => logicMsgs[j].pos # p

IsLogin(i, p, a, k, c) ==
  /\ IsCreate(i)
  /\ logicMsgs[i].pos = p /\ logicMsgs[i].account = a /\ logicMsgs[i].key = k /\ logicMsgs[i].char = c

CreatesAttached ==
  \A i \in DOMAIN logicMsgs, p \in Nat, a \in Account, k \in Key, c \in Character :
    Single(a, k) /\ IsLogin(i, p, a, k, c) => LoginAttached(i, p, a, k, c)

\* The user has the handle, or the last message to its position will set it.
HandleComes(p, h, a) ==
  \/ /\ users[p].handle = h
     /\ \A i \in DOMAIN gateMsgs : IsSet(i) => gateMsgs[i].pos # p
  \/ \E i \in DOMAIN gateMsgs :
       /\ gateMsgs[i] = SetHandle(p, h, a)
       /\ \A j \in i + 1 .. Len(gateMsgs) : IsSet(j) => gateMsgs[j].pos # p

\* An actor of a calm account has its user, or its logout is on the way.
ActorAttached(a, k, c, h) ==
  \/ LogoutAfter(0, a, k)
  \/ \E p \in Present :
       /\ UserAt(p, a, k, c)
       /\ HandleComes(p, h, a)
       /\ \A j \in DOMAIN logicMsgs : IsCreate(j) => logicMsgs[j].pos # p

ActorsAttached ==
  \A x \in actors : Calm(x.account) => ActorAttached(x.account, x.key, x.char, x.handle)

\* A loaded character of such an account belongs to it, or the logout is on the way.
OwnInv ==
  \A x \in actors : Calm(x.account) /\ x.inited =>
    Owner[x.char] = x.account \/ LogoutAfter(0, x.account, x.key)

LoginInv ==
  /\ Base /\ LoginsOnce /\ OneActorWhenCalm /\ OneActorPerCharacter
  /\ SessionsKept /\ GrantedOnce /\ AllGranted
  /\ CreatesAttached /\ ActorsAttached /\ OwnInv

\* Of the actors there are after a step: those of calm accounts are known to be single.
CalmOn ==
  \A x \in actors' : Calm(x.account)' =>
    Calm(x.account) /\ Single(x.account, x.key) /\ x.key \notin again'

-----------------------------------------------------------------------------
(* Sequences, numbers and records *)

LEMMA AppendAt ==
  ASSUME NEW S, NEW q \in Seq(S), NEW m \in S
  PROVE  /\ Append(q, m) \in Seq(S) /\ Len(Append(q, m)) = Len(q) + 1 /\ Len(q) \in Nat
         /\ Append(q, m)[Len(q) + 1] = m
         /\ \A i \in 1 .. Len(q) : Append(q, m)[i] = q[i]
  OBVIOUS

LEMMA TailAt ==
  ASSUME NEW S, NEW q \in Seq(S), q # << >>
  PROVE  /\ Tail(q) \in Seq(S) /\ Len(Tail(q)) = Len(q) - 1 /\ Len(q) \in Nat /\ Len(q) > 0
         /\ Head(q) = q[1] /\ q[1] \in S
         /\ \A i \in 1 .. Len(q) - 1 : Tail(q)[i] = q[i + 1]
  OBVIOUS

LEMMA ConcatAt ==
  ASSUME NEW S, NEW q \in Seq(S), NEW r \in Seq(S)
  PROVE  /\ q \o r \in Seq(S) /\ Len(q \o r) = Len(q) + Len(r)
         /\ Len(q) \in Nat /\ Len(r) \in Nat
         /\ \A i \in 1 .. Len(q) : (q \o r)[i] = q[i]
         /\ \A i \in 1 .. Len(r) : (q \o r)[Len(q) + i] = r[i]
  OBVIOUS

\* A nonempty set of positions has a greatest element, and Max returns it.
LEMMA MaxIsGreatest ==
  ASSUME NEW n \in Nat, NEW S \in SUBSET (1 .. n), S # {}
  PROVE  Max(S) \in S
<1> DEFINE from(x) == {y \in S : y >= x}
           T == {from(x) : x \in S}
<1>1. IsFiniteSet(S)
  <2>1. IsFiniteSet(1 .. n)
    BY FS_Interval
  <2> QED  BY <2>1, FS_Subset
<1>2. IsWellFoundedOn(StrictSubsetOrdering(S), FiniteSubsetsOf(S))
  BY FS_StrictSubsetOrderingWellFounded
<1>3. T \subseteq FiniteSubsetsOf(S)
  <2> SUFFICES ASSUME NEW x \in S PROVE from(x) \in FiniteSubsetsOf(S)
    OBVIOUS
  <2> QED  BY <1>1, FS_Subset DEF FiniteSubsetsOf
<1>4. PICK U \in T : \A V \in T : ~ (<<V, U>> \in StrictSubsetOrdering(S))
  <2>1. T # {}
    OBVIOUS
  <2> HIDE DEF T
  <2>2. \E U \in T : \A V \in T : ~ (<<V, U>> \in StrictSubsetOrdering(S))
    BY <1>2, <1>3, <2>1, WFMin
  <2> QED  BY <2>2
<1>5. PICK x \in S : U = from(x)
  OBVIOUS
<1>6. \A y \in S : x >= y
  <2> SUFFICES ASSUME NEW y \in S, y > x PROVE FALSE
    OBVIOUS
  <2>1. from(y) \in T /\ from(y) \in SUBSET S /\ from(x) \in SUBSET S
    OBVIOUS
  <2>2. from(y) \subseteq from(x) /\ x \in from(x) /\ x \notin from(y)
    <3>1. x \in Int /\ y \in Int /\ ~ (x >= y) /\ x >= x
      OBVIOUS
    <3>2. \A z \in S : z >= y => z >= x
      OBVIOUS
    <3> QED  BY <3>1, <3>2
  <2>3. <<from(y), from(x)>> \in StrictSubsetOrdering(S)
    BY <2>1, <2>2 DEF StrictSubsetOrdering
  <2> QED  BY <1>4, <1>5, <2>1, <2>3
<1> QED  BY <1>6 DEF Max

\* The members of a finite set as a sequence.
LEMMA SetAsSequence ==
  ASSUME NEW S, IsFiniteSet(S)
  PROVE  SetToSeq(S) \in Seq(S)
<1>1. Cardinality(S) \in Nat /\ ExistsBijection(1 .. Cardinality(S), S)
  BY FS_CardinalityType
<1>2. PICK g \in Bijection(1 .. Cardinality(S), S) : TRUE
  BY <1>1 DEF ExistsBijection
<1>3. g \in [1 .. Cardinality(S) -> S] /\ IsInjective(g)
  BY <1>2 DEF Bijection, Injection, IsInjective
<1>4. SetToSeq(S) \in [1 .. Cardinality(S) -> S]
  BY <1>3 DEF SetToSeq
<1> QED  BY <1>1, <1>4

LEMMA FiniteImage ==
  ASSUME NEW S, IsFiniteSet(S), NEW f
  PROVE  IsFiniteSet({f[x] : x \in S})
<1> DEFINE T == {f[x] : x \in S}
           g == [x \in S |-> f[x]]
<1>1. g \in Surjection(S, T)
  BY DEF Surjection
<1>2. IsFiniteSet(T)
  <2> HIDE DEF T, g
  <2> QED  BY <1>1, FS_Surjection
<1> QED  BY <1>2

LEMMA GateMsgKinds ==
  ASSUME NEW m \in GateMsg
  PROVE  /\ m.type \in {"kick", "close", "checked", "set"}
         /\ m.type = "checked" => m.account \in Account /\ m.key \in Key
         /\ m.type = "set" => /\ m.pos \in Nat /\ m.handle \in 0 .. MaxLogins /\ m.account \in Account
                              /\ m = SetHandle(m.pos, m.handle, m.account)
         /\ m.type = "kick" => m.key \in Key
  BY DEF GateMsg, KickMsg, CloseMsg, CheckedMsg, SetMsg, SetHandle

LEMMA LogicMsgKinds ==
  ASSUME NEW m \in LogicMsg
  PROVE  /\ m.type \in {"create", "logout"}
         /\ m.account \in Account
         /\ m.type = "create" => /\ m.handle \in 1 .. MaxLogins /\ m.char \in Character
                                 /\ m.pos \in Nat /\ m.key \in Key
         /\ m.type = "logout" => m.key \in 0 .. MaxConns /\ m = Logout(m.account, m.key)
  BY DEF LogicMsg, CreateMsg, LogoutMsg, Logout

LEMMA NobodyType ==
  ASSUME LoginAssumption
  PROVE  Nobody \in User
  BY DEF LoginAssumption, Nobody, User

\* The kicks of some actors.
LEMMA KicksAreKicks ==
  ASSUME LoginAssumption, NEW S \in SUBSET ActorRec, IsFiniteSet(S)
  PROVE  KicksOf(S) \in Seq(KickMsg)
<1> DEFINE f == [x \in S |-> Kick(x.key)]
           T == {Kick(x.key) : x \in S}
<1>1. T = {f[x] : x \in S}
  OBVIOUS
<1>2. IsFiniteSet(T)
  <2>1. IsFiniteSet({f[x] : x \in S})
    <3> HIDE DEF f
    <3> QED  BY FiniteImage
  <2> QED  BY <1>1, <2>1
<1>3. SetToSeq(T) \in Seq(T)
  BY <1>2, SetAsSequence
<1>4. T \subseteq KickMsg
  <2> SUFFICES ASSUME NEW x \in S PROVE Kick(x.key) \in KickMsg
    OBVIOUS
  <2>1. x.key \in Key
    BY DEF ActorRec
  <2> QED  BY <2>1 DEF KickMsg, Kick
<1>5. SetToSeq(T) \in Seq(KickMsg)
  <2> HIDE DEF T
  <2> QED  BY <1>3, <1>4
<1> QED  BY <1>5 DEF KicksOf

\* The users that are not gone.
LEMMA PresentUsers ==
  ASSUME LoginAssumption, Base
  PROVE  /\ Present \in SUBSET (1 .. Len(users)) /\ Len(users) \in Nat /\ DOMAIN users = 1 .. Len(users)
         /\ \A p \in DOMAIN users : users[p] \in User
         /\ \A p \in Present : users[p] \in User /\ users[p].key \in Key
         /\ \A k, p : p \in HasKey(k) <=> p \in Present /\ users[p].key = k
         /\ \A k : \A p, q \in HasKey(k) : p = q
         /\ IsFiniteSet(Present)
<1>1. /\ Present \in SUBSET (1 .. Len(users)) /\ Len(users) \in Nat /\ DOMAIN users = 1 .. Len(users)
      /\ \A p \in DOMAIN users : users[p] \in User
  BY DEF Base, Types, Present
<1>2. \A p \in Present : users[p] \in User /\ users[p].key \in Key
  <2> SUFFICES ASSUME NEW p \in Present PROVE users[p] \in User /\ users[p].key \in Key
    OBVIOUS
  <2>1. users[p].key \in 1 .. conns /\ conns \in 0 .. MaxConns
    BY DEF Base, Types, KeysUnique
  <2> QED  BY <1>1, <2>1 DEF Key, LoginAssumption
<1>3. IsFiniteSet(Present)
  <2>1. IsFiniteSet(1 .. Len(users))
    BY <1>1, FS_Interval
  <2> QED  BY <1>1, <2>1, FS_Subset
<1> QED  BY <1>1, <1>2, <1>3 DEF HasKey, Base, KeysUnique

-----------------------------------------------------------------------------
(* What the actions do to the users *)

\* Some users are gone, and the logouts of those that had an account are sent.
Leaving ==
  /\ users' \in Seq(User)
  /\ \A p \in Present' : p \in Present /\ users'[p] = users[p]
  /\ \E more \in Seq(LogoutMsg) :
       /\ logicMsgs' = logicMsgs \o more
       /\ \A p \in Present \ Present' : users[p].account # NoAccount =>
            \E i \in DOMAIN more : more[i] = Logout(users[p].account, users[p].key)
       /\ \A i \in DOMAIN more :
            more[i].key = 0 \/ \E p \in Present \ Present' : more[i].key = users[p].key

\* The same users, each with its key.
Staying ==
  /\ users' \in Seq(User)
  /\ Present' = Present
  /\ \A p \in Present : users'[p].key = users[p].key

\* A user more, with a new key and nothing else.
Entering ==
  /\ users' \in Seq(User)
  /\ conns' = conns + 1
  /\ conns' \in 1 .. MaxConns
  /\ \E q \in DOMAIN users' :
       /\ q \notin Present /\ Present' = Present \cup {q}
       /\ users'[q].key = conns' /\ users'[q].char = NoChar /\ users'[q].account = NoAccount
       /\ \A p \in Present : users'[p] = users[p]

\* Of a logout of the user at p.
LEMMA LogoutOfType ==
  ASSUME LoginAssumption, Base, NEW p \in Present
  PROVE  /\ LogoutOf(p) \in Seq(LogoutMsg)
         /\ users[p].account # NoAccount => LogoutOf(p) = <<Logout(users[p].account, users[p].key)>>
         /\ \A i \in DOMAIN LogoutOf(p) : LogoutOf(p)[i].key = users[p].key
<1>1. users[p] \in User
  BY PresentUsers
<1>2. users[p].account \in Account \cup {NoAccount} /\ users[p].key \in 0 .. MaxConns
  BY <1>1 DEF User
<1>3. users[p].account # NoAccount => Logout(users[p].account, users[p].key) \in LogoutMsg
  BY <1>2 DEF Logout, LogoutMsg
<1>4. CASE users[p].account = NoAccount
  BY <1>4 DEF LogoutOf
<1>5. CASE users[p].account # NoAccount
  <2>1. LogoutOf(p) = <<Logout(users[p].account, users[p].key)>>
    BY <1>5 DEF LogoutOf
  <2>2. Logout(users[p].account, users[p].key).key = users[p].key
    BY DEF Logout
  <2> QED  BY <1>3, <1>5, <2>1, <2>2
<1> QED  BY <1>4, <1>5

LEMMA CloseUserLeaves ==
  ASSUME LoginAssumption, Base, NEW S \in SUBSET Present, NEW more \in Seq(LogoutMsg),
         CloseUser(S, more), \A i \in DOMAIN more : more[i].key = 0
  PROVE  /\ Leaving
         /\ S # {} => \E p \in S : Present' = Present \ {p}
         /\ S = {} => users' = users
<1>1. CASE S = {}
  <2>1. users' = users /\ logicMsgs' = logicMsgs \o more
    BY <1>1 DEF CloseUser
  <2>2. Present' = Present
    BY <2>1 DEF Present
  <2> QED  BY <1>1, <2>1, <2>2 DEF Leaving, Base, Types
<1>2. CASE S # {}
  <2> DEFINE p == Max(S)
             out == LogoutOf(p) \o more
  <2>1. p \in S /\ p \in Present
    <3>1. S \in SUBSET (1 .. Len(users)) /\ Len(users) \in Nat
      BY PresentUsers
    <3> QED  BY <1>2, <3>1, MaxIsGreatest
  <2>2. users' = [users EXCEPT ![p] = Nobody] /\ logicMsgs' = logicMsgs \o LogoutOf(p) \o more
    BY <1>2 DEF CloseUser
  <2> HIDE DEF p
  <2>3. /\ LogoutOf(p) \in Seq(LogoutMsg)
        /\ users[p].account # NoAccount => LogoutOf(p) = <<Logout(users[p].account, users[p].key)>>
        /\ \A i \in DOMAIN LogoutOf(p) : LogoutOf(p)[i].key = users[p].key
    BY <2>1, LogoutOfType
  <2>4. /\ out \in Seq(LogoutMsg) /\ Len(out) = Len(LogoutOf(p)) + Len(more)
        /\ \A i \in 1 .. Len(LogoutOf(p)) : out[i] = LogoutOf(p)[i]
        /\ \A i \in 1 .. Len(more) : out[Len(LogoutOf(p)) + i] = more[i]
        /\ Len(LogoutOf(p)) \in Nat /\ Len(more) \in Nat
    BY <2>3, ConcatAt
  <2>5. logicMsgs' = logicMsgs \o out
    BY <2>2, <2>3, SMTT(30) DEF Base, Types, LogicMsg
  <2>6. users' \in Seq(User)
    <3>1. p \in 1 .. Len(users) /\ users \in Seq(User) /\ Nobody \in User
      BY <2>1, PresentUsers, NobodyType DEF Base, Types
    <3> HIDE DEF User
    <3> QED  BY <2>2, <3>1
  <2>7. Present' = Present \ {p} /\ \A q \in Present : q # p => users'[q] = users[q]
    BY <2>1, <2>2, PresentUsers DEF Present
  <2>8. users[p].account # NoAccount =>
          \E i \in DOMAIN out : out[i] = Logout(users[p].account, users[p].key)
    <3> SUFFICES ASSUME users[p].account # NoAccount
                 PROVE  1 \in DOMAIN out /\ out[1] = Logout(users[p].account, users[p].key)
      OBVIOUS
    <3>1. Len(LogoutOf(p)) = 1 /\ LogoutOf(p)[1] = Logout(users[p].account, users[p].key)
      BY <2>3
    <3> HIDE DEF out
    <3> QED  BY <2>4, <3>1
  <2>9. \A i \in DOMAIN out : out[i].key = 0 \/ out[i].key = users[p].key
    <3> SUFFICES ASSUME NEW i \in DOMAIN out PROVE out[i].key = 0 \/ out[i].key = users[p].key
      OBVIOUS
    <3> HIDE DEF out
    <3>1. i \in 1 .. Len(out)
      BY <2>4
    <3>2. CASE i <= Len(LogoutOf(p))
      BY <2>3, <2>4, <3>1, <3>2
    <3>3. CASE i > Len(LogoutOf(p))
      <4>2. \A j \in 1 .. Len(more) : more[j].key = 0
        OBVIOUS
      <4>1. i - Len(LogoutOf(p)) \in 1 .. Len(more) /\ i = Len(LogoutOf(p)) + (i - Len(LogoutOf(p)))
        BY <2>4, <3>1, <3>3
      <4> QED  BY <2>4, <4>1, <4>2, ZenonT(60)
    <3> QED  BY <2>4, <3>1, <3>2, <3>3
  <2> HIDE DEF out
  <2>10. Present \ Present' = {p} /\ \A q \in Present' : q \in Present /\ users'[q] = users[q]
    BY <2>1, <2>7
  <2>11. Leaving
    <3>1. \A q \in Present \ Present' : users[q].account # NoAccount =>
            \E i \in DOMAIN out : out[i] = Logout(users[q].account, users[q].key)
      BY <2>8, <2>10
    <3>2. \A i \in DOMAIN out :
            out[i].key = 0 \/ \E q \in Present \ Present' : out[i].key = users[q].key
      BY <2>9, <2>10
    <3>3. out \in Seq(LogoutMsg)
      BY <2>4
    <3> QED  BY <2>5, <2>6, <2>10, <3>1, <3>2, <3>3 DEF Leaving
  <2> QED  BY <1>2, <2>1, <2>7, <2>11
<1> QED  BY <1>1, <1>2

LEMMA LostLeaves ==
  ASSUME LoginAssumption, Base, GateLost
  PROVE  Leaving
<1> DEFINE told == {p \in Present : users[p].account # NoAccount}
<1>1. PICK order \in [1 .. Cardinality(told) -> told] :
        /\ \A p \in told : \E i \in DOMAIN order : order[i] = p
        /\ logicMsgs' = logicMsgs \o [i \in DOMAIN order |->
                                        Logout(users[order[i]].account, users[order[i]].key)]
  BY DEF GateLost
<1> DEFINE more == [i \in DOMAIN order |-> Logout(users[order[i]].account, users[order[i]].key)]
<1>2. Cardinality(told) \in Nat
  BY PresentUsers, FS_Subset, FS_CardinalityType
<1>3. users' = << >> /\ Present' = {}
  BY DEF GateLost, Present
<1>4. \A i \in DOMAIN order : order[i] \in Present /\ users[order[i]].account # NoAccount
  OBVIOUS
<1>5. \A i \in DOMAIN order : users[order[i]].account \in Account /\ users[order[i]].key \in 0 .. MaxConns
  BY <1>4, PresentUsers DEF User
<1>6. more \in [1 .. Cardinality(told) -> LogoutMsg]
  BY <1>5 DEF Logout, LogoutMsg
<1>7. more \in Seq(LogoutMsg) /\ DOMAIN more = DOMAIN order
  BY <1>2, <1>6
<1>8. \A p \in Present : users[p].account # NoAccount =>
        \E i \in DOMAIN more : more[i] = Logout(users[p].account, users[p].key)
  BY <1>1, <1>7
<1>9. \A i \in DOMAIN more : \E p \in Present : more[i].key = users[p].key
  BY <1>4, <1>7 DEF Logout
<1>10. logicMsgs' = logicMsgs \o more
  BY <1>1
<1> HIDE DEF more, told
<1>11. << >> \in Seq(User)
  OBVIOUS
<1>12. Present \ Present' = Present /\ \A p \in Present' : p \in Present /\ users'[p] = users[p]
  BY <1>3
<1>13. users' \in Seq(User)
  BY <1>3, <1>11
<1>14. \A p \in Present \ Present' : users[p].account # NoAccount =>
         \E i \in DOMAIN more : more[i] = Logout(users[p].account, users[p].key)
  BY <1>8
<1>15. \A i \in DOMAIN more :
         more[i].key = 0 \/ \E p \in Present \ Present' : more[i].key = users[p].key
  BY <1>9, <1>12
<1>16. more \in Seq(LogoutMsg)
  BY <1>7
<1> QED  BY <1>10, <1>12, <1>13, <1>14, <1>15, <1>16 DEF Leaving

LEMMA NewUser ==
  ASSUME LoginAssumption, NEW f \in Fd, NEW k \in 1 .. MaxConns
  PROVE  LET u == [Nobody EXCEPT !.sock = f, !.key = k]
         IN  /\ u \in User /\ u # Nobody
             /\ u.key = k /\ u.char = NoChar /\ u.account = NoAccount
<1> DEFINE u == [Nobody EXCEPT !.sock = f, !.key = k]
<1>1. k \in 0 .. MaxConns /\ k # 0
  BY DEF LoginAssumption
<1>2. u \in User
  BY <1>1, NobodyType DEF User
<1>3. u.key = k /\ u.char = NoChar /\ u.account = NoAccount /\ Nobody.key = 0
  BY DEF Nobody
<1>4. u # Nobody
  <2> HIDE DEF u
  <2> QED  BY <1>1, <1>3
<1> QED  BY <1>2, <1>3, <1>4

LEMMA OpenEnters ==
  ASSUME LoginAssumption, Base, NEW f \in Fd, GateOpen(f)
  PROVE  Entering
<1> DEFINE gaps == DOMAIN users \ Present
           user == [Nobody EXCEPT !.sock = f, !.key = conns + 1]
<1>1. /\ users' = IF gaps = {} THEN Append(users, user) ELSE [users EXCEPT ![Max(gaps)] = user]
      /\ conns' = conns + 1 /\ conns < MaxConns
  BY DEF GateOpen
<1>2. conns' \in 1 .. MaxConns
  BY <1>1 DEF Base, Types, LoginAssumption
<1>3. user \in User /\ user # Nobody /\ user.key = conns' /\ user.char = NoChar
      /\ user.account = NoAccount
  <2>1. user = [Nobody EXCEPT !.sock = f, !.key = conns']
    BY <1>1
  <2> HIDE DEF user
  <2> QED  BY <1>2, <2>1, NewUser
<1> HIDE DEF user
<1>4. CASE gaps = {}
  <2>1. users' = Append(users, user)
    BY <1>1, <1>4
  <2>2. /\ users' \in Seq(User) /\ DOMAIN users' = 1 .. Len(users) + 1 /\ users'[Len(users) + 1] = user
        /\ \A p \in 1 .. Len(users) : users'[p] = users[p]
    BY <1>3, <2>1 DEF Base, Types
  <2>3. Present' = Present \cup {Len(users) + 1}
    BY <1>3, <2>2, PresentUsers DEF Present
  <2>4. Len(users) + 1 \notin Present /\ Len(users) + 1 \in DOMAIN users'
    BY <2>2, PresentUsers
  <2>5. \A p \in Present : users'[p] = users[p]
    BY <2>2, PresentUsers
  <2> QED  BY <1>1, <1>2, <1>3, <2>2, <2>3, <2>4, <2>5 DEF Entering
<1>5. CASE gaps # {}
  <2> DEFINE q == Max(gaps)
  <2>1. q \in gaps
    <3>1. gaps \in SUBSET (1 .. Len(users)) /\ Len(users) \in Nat
      BY PresentUsers
    <3> HIDE DEF gaps
    <3> QED  BY <1>5, <3>1, MaxIsGreatest
  <2>2. users' = [users EXCEPT ![q] = user]
    BY <1>1, <1>5
  <2> HIDE DEF q
  <2>3. /\ users' \in Seq(User) /\ DOMAIN users' = DOMAIN users /\ users'[q] = user
        /\ \A p \in DOMAIN users : p # q => users'[p] = users[p]
    BY <1>3, <2>1, <2>2 DEF Base, Types
  <2>4. Present' = Present \cup {q}
    BY <1>3, <2>1, <2>3 DEF Present
  <2>5. \A p \in Present : users'[p] = users[p]
    BY <2>1, <2>3 DEF Present
  <2> QED  BY <1>1, <1>2, <1>3, <2>1, <2>3, <2>4, <2>5 DEF Entering
<1> QED  BY <1>4, <1>5

\* Users of which some are written, but keep their keys.
LEMMA StayingMade ==
  ASSUME LoginAssumption, Base, users' \in Seq(User), DOMAIN users' = DOMAIN users,
         \A p \in Present : users'[p].key = users[p].key,
         \A p \in DOMAIN users : p \notin Present => users'[p] = users[p]
  PROVE  Staying
<1>1. \A p \in DOMAIN users : p \notin Present => users[p] = Nobody
  BY DEF Present
<1>2. \A p \in Present : users'[p] # Nobody
  <2> SUFFICES ASSUME NEW p \in Present PROVE users'[p] # Nobody
    OBVIOUS
  <2>1. users'[p].key \in Key
    BY PresentUsers
  <2> QED  BY <2>1 DEF Nobody, Key
<1>3. Present' = Present
  BY <1>1, <1>2 DEF Present
<1> QED  BY <1>3 DEF Staying

LEMMA WriteStays ==
  ASSUME LoginAssumption, Base, NEW p \in Present, NEW u \in User, u.key = users[p].key,
         users' = [users EXCEPT ![p] = u]
  PROVE  /\ Staying
         /\ users'[p] = u /\ \A q \in Present : q # p => users'[q] = users[q]
<1>1. p \in 1 .. Len(users) /\ users \in Seq(User) /\ DOMAIN users = 1 .. Len(users)
      /\ Present \subseteq DOMAIN users
  BY PresentUsers DEF Base, Types, Present
<1> HIDE DEF User
<1>2. /\ users' \in Seq(User) /\ DOMAIN users' = DOMAIN users
      /\ users'[p] = u /\ \A q \in DOMAIN users : q # p => users'[q] = users[q]
  BY <1>1
<1> QED  BY <1>1, <1>2, StayingMade

LEMMA CheckStays ==
  ASSUME LoginAssumption, Base, NEW p \in DOMAIN users, NEW a \in Account, GateCheck(p, a)
  PROVE  /\ Staying /\ p \in Present
         /\ users'[p].account = users[p].account /\ users'[p].char = users[p].char
         /\ users'[p].handle = users[p].handle /\ users'[p].asked
         /\ \A q \in Present : q # p => users'[q] = users[q]
<1> DEFINE u == [users[p] EXCEPT !.asked = TRUE]
<1>1. p \in Present /\ users' = [users EXCEPT ![p] = u]
  BY DEF GateCheck
<1>2. users[p] \in User
  BY PresentUsers
<1>3. u \in User /\ u.key = users[p].key /\ u.account = users[p].account
      /\ u.char = users[p].char /\ u.handle = users[p].handle /\ u.asked
  BY <1>2 DEF User
<1> HIDE DEF u
<1> QED  BY <1>1, <1>3, WriteStays

LEMMA LoginStays ==
  ASSUME LoginAssumption, Base, NEW p \in DOMAIN users, NEW a \in Account, NEW c \in Character,
         GateLogin(p, a, c)
  PROVE  /\ Staying /\ p \in Present
         /\ users'[p].account = a /\ users'[p].char = c
         /\ users'[p].handle = users[p].handle /\ users'[p].asked = users[p].asked
         /\ \A q \in Present : q # p => users'[q] = users[q]
<1> DEFINE u == [users[p] EXCEPT !.account = a, !.char = c]
<1>1. p \in Present /\ users' = [users EXCEPT ![p] = u]
  BY DEF GateLogin
<1>2. users[p] \in User
  BY PresentUsers
<1>3. u \in User /\ u.key = users[p].key /\ u.account = a
      /\ u.char = c /\ u.handle = users[p].handle /\ u.asked = users[p].asked
  BY <1>2 DEF User
<1> HIDE DEF u
<1> QED  BY <1>1, <1>3, WriteStays

\* The message the gate thread handles.
LEMMA GateHead ==
  ASSUME Base, gateMsgs # << >>
  PROVE  /\ Head(gateMsgs) \in GateMsg /\ Head(gateMsgs) = gateMsgs[1]
         /\ Tail(gateMsgs) \in Seq(GateMsg)
         /\ Len(gateMsgs) \in Nat /\ Len(gateMsgs) > 0 /\ Len(Tail(gateMsgs)) = Len(gateMsgs) - 1
         /\ \A i \in 1 .. Len(gateMsgs) - 1 : Tail(gateMsgs)[i] = gateMsgs[i + 1]
  BY TailAt DEF Base, Types

LEMMA CheckedStays ==
  ASSUME LoginAssumption, Base, GateChecked
  PROVE  /\ Staying
         /\ \A p \in Present : /\ users'[p].char = users[p].char
                               /\ users'[p].handle = users[p].handle
                               /\ users'[p].asked = users[p].asked
                               /\ users[p].key # Head(gateMsgs).key => users'[p] = users[p]
                               /\ users[p].key = Head(gateMsgs).key =>
                                    users'[p].account = Head(gateMsgs).account
<1> DEFINE m == Head(gateMsgs)
           u(p) == [users[p] EXCEPT !.account = m.account]
<1>1. m.account \in Account
  <2>1. m \in GateMsg /\ m.type = "checked"
    BY GateHead DEF GateChecked, IsNext
  <2> HIDE DEF m
  <2> QED  BY <2>1, GateMsgKinds
<1>2. users' = [p \in DOMAIN users |-> IF p \in HasKey(m.key) THEN u(p) ELSE users[p]]
  BY DEF GateChecked
<1>3. \A p \in DOMAIN users :
        /\ u(p) \in User /\ u(p).key = users[p].key /\ u(p).account = m.account
        /\ u(p).char = users[p].char /\ u(p).handle = users[p].handle /\ u(p).asked = users[p].asked
  <2> SUFFICES ASSUME NEW p \in DOMAIN users
               PROVE  /\ u(p) \in User /\ u(p).key = users[p].key /\ u(p).account = m.account
                      /\ u(p).char = users[p].char /\ u(p).handle = users[p].handle
                      /\ u(p).asked = users[p].asked
    OBVIOUS
  <2>1. users[p] \in User
    BY PresentUsers
  <2> HIDE DEF m
  <2> QED  BY <1>1, <2>1 DEF User
<1> HIDE DEF m, u
<1>4. /\ users' \in [1 .. Len(users) -> User] /\ Len(users) \in Nat
      /\ DOMAIN users = 1 .. Len(users)
  BY <1>2, <1>3, PresentUsers
<1>5. users' \in Seq(User) /\ DOMAIN users' = DOMAIN users
  BY <1>4
<1>6. \A p \in DOMAIN users :
        /\ p \in HasKey(m.key) => users'[p] = u(p)
        /\ p \notin HasKey(m.key) => users'[p] = users[p]
  BY <1>2
<1>7. \A p \in Present : p \in DOMAIN users /\ (p \in HasKey(m.key) <=> users[p].key = m.key)
  BY PresentUsers
<1>8. \A p \in DOMAIN users : p \notin Present => users'[p] = users[p]
  BY <1>6, PresentUsers
<1>9. Staying
  BY <1>3, <1>5, <1>6, <1>7, <1>8, StayingMade
<1> QED  BY <1>3, <1>6, <1>7, <1>9 DEF m

\* A message that sets a handle, when there is one to set.
LEMMA SetHandleStays ==
  ASSUME LoginAssumption, Base, GateSetHandle, Head(gateMsgs).handle # NoActor
  PROVE  /\ Staying
         /\ \A p \in Present : /\ users'[p].char = users[p].char
                               /\ users'[p].account = users[p].account
                               /\ users'[p].asked = users[p].asked
                               /\ p # Head(gateMsgs).pos => users'[p] = users[p]
                               /\ p = Head(gateMsgs).pos => users'[p].handle = Head(gateMsgs).handle
         /\ \/ logicMsgs' = logicMsgs \o << >>
            \/ logicMsgs' = logicMsgs \o <<Logout(Head(gateMsgs).account, 0)>>
<1> DEFINE m == Head(gateMsgs)
           there == {m.pos} \cap Present
           u(p) == [users[p] EXCEPT !.handle = m.handle]
<1>1. m.handle \in 0 .. MaxLogins
  <2>1. m \in GateMsg /\ m.type = "set"
    BY GateHead DEF GateSetHandle, IsNext
  <2> HIDE DEF m
  <2> QED  BY <2>1, GateMsgKinds
<1>2. /\ users' = [p \in DOMAIN users |-> IF p \in there THEN u(p) ELSE users[p]]
      /\ \/ logicMsgs' = logicMsgs \o << >>
         \/ logicMsgs' = logicMsgs \o <<Logout(m.account, 0)>>
  BY DEF GateSetHandle
<1>3. \A p \in DOMAIN users :
        /\ u(p) \in User /\ u(p).key = users[p].key /\ u(p).account = users[p].account
        /\ u(p).char = users[p].char /\ u(p).handle = m.handle /\ u(p).asked = users[p].asked
  <2> SUFFICES ASSUME NEW p \in DOMAIN users
               PROVE  /\ u(p) \in User /\ u(p).key = users[p].key
                      /\ u(p).account = users[p].account
                      /\ u(p).char = users[p].char /\ u(p).handle = m.handle
                      /\ u(p).asked = users[p].asked
    OBVIOUS
  <2>1. users[p] \in User
    BY PresentUsers
  <2> HIDE DEF m
  <2> QED  BY <1>1, <2>1 DEF User
<1>4. \A p \in DOMAIN users : p \in there <=> p = m.pos /\ p \in Present
  OBVIOUS
<1> HIDE DEF m, u, there
<1>5. /\ users' \in [1 .. Len(users) -> User] /\ Len(users) \in Nat
      /\ DOMAIN users = 1 .. Len(users) /\ Present \subseteq DOMAIN users
  BY <1>2, <1>3, PresentUsers
<1>6. users' \in Seq(User) /\ DOMAIN users' = DOMAIN users
  BY <1>5
<1>7. \A p \in DOMAIN users :
        /\ p \in there => users'[p] = u(p)
        /\ p \notin there => users'[p] = users[p]
  BY <1>2
<1>8. \A p \in DOMAIN users : p \notin Present => users'[p] = users[p]
  BY <1>4, <1>7
<1>9. \A p \in Present : users'[p].key = users[p].key
  BY <1>3, <1>5, <1>7
<1>10. Staying
  BY <1>6, <1>8, <1>9, StayingMade
<1> QED  BY <1>2, <1>3, <1>4, <1>5, <1>7, <1>10 DEF m

-----------------------------------------------------------------------------
(* What the logic thread does *)

LEMMA LogicHead ==
  ASSUME Base, logicMsgs # << >>
  PROVE  /\ Head(logicMsgs) \in LogicMsg /\ Head(logicMsgs) = logicMsgs[1]
         /\ Tail(logicMsgs) \in Seq(LogicMsg)
         /\ Len(logicMsgs) \in Nat /\ Len(logicMsgs) > 0
         /\ Len(Tail(logicMsgs)) = Len(logicMsgs) - 1
         /\ \A i \in 1 .. Len(logicMsgs) - 1 : Tail(logicMsgs)[i] = logicMsgs[i + 1]
  BY TailAt DEF Base, Types

LEMMA ActorFields ==
  ASSUME Base
  PROVE  \A x \in actors : /\ x \in ActorRec /\ x.handle \in 1 .. MaxLogins /\ x.char \in Character
                           /\ x.account \in Account /\ x.key \in Key /\ x.inited \in BOOLEAN
  BY DEF Base, Types, ActorRec

\* The actors closed go, and the session server hears of those that were loaded.
Closing(closed) ==
  /\ closed \in SUBSET actors
  /\ closeReqs \subseteq closeReqs'
  /\ \A s \in closeReqs' : s \in closeReqs \/ \E x \in closed : s = <<x.account, x.key>>

\* A login is handled: refused, without a free actor, or with a new one, in which case no
\* actor of its character is left, nor the one of its account over another connection.
Handled(m, closed) ==
  /\ Closing(closed)
  /\ logicMsgs' = Tail(logicMsgs)
  /\ \E last \in GateMsg :
       /\ gateMsgs' = gateMsgs \o KicksOf(closed) \o <<last>>
       /\ \/ /\ actors' = actors \ closed /\ dbQueries' = dbQueries
             /\ \/ last.type = "kick"
                \/ last = SetHandle(m.pos, NoActor, m.account)
          \/ /\ actors' = (actors \ closed) \cup
                            {[handle |-> m.handle, char |-> m.char, account |-> m.account,
                              key |-> m.key, inited |-> FALSE]}
             /\ dbQueries' = dbQueries \cup {m.char}
             /\ last = SetHandle(m.pos, m.handle, m.account)
             /\ <<m.account, m.key>> \in local
             /\ \A x \in actors \ closed : x.char # m.char
             /\ (\A x, y \in actors : x.account = m.account /\ y.account = m.account => x = y) =>
                  \A x \in actors \ closed : x.account = m.account => x.key = m.key

LEMMA CreateHandled ==
  ASSUME LoginAssumption, Base, LogicCreate
  PROVE  /\ Head(logicMsgs) \in CreateMsg /\ logicMsgs # << >>
         /\ \E closed \in SUBSET actors : Handled(Head(logicMsgs), closed)
<1> DEFINE m == Head(logicMsgs)
           new == [handle |-> m.handle, char |-> m.char, account |-> m.account,
                   key |-> m.key, inited |-> FALSE]
<1>1. logicMsgs # << >> /\ m.type = "create" /\ logicMsgs' = Tail(logicMsgs)
  BY DEF LogicCreate, IsNext
<1>2. m \in CreateMsg
  <2>1. m \in LogicMsg
    BY <1>1, LogicHead
  <2> HIDE DEF m
  <2> QED  BY <1>1, <2>1 DEF LogicMsg, CreateMsg, LogoutMsg
<1>3. PICK gone \in MakeWay(m) :
        LET online == Playing(m.char) \ gone
            foreign == \E x \in online : x.account # m.account
            closed == IF foreign THEN gone ELSE gone \cup online
            refused == foreign \/ <<m.account, m.key>> \notin local
            full == Cardinality(actors \ closed) >= MaxActors
        IN  /\ closeReqs' = closeReqs \cup SessionsOf(closed)
            /\ gateMsgs' = gateMsgs \o KicksOf(closed) \o
                 IF refused THEN <<Kick(m.key)>>
                 ELSE <<SetHandle(m.pos, IF full THEN NoActor ELSE m.handle, m.account)>>
            /\ actors' = (actors \ closed) \cup (IF refused \/ full THEN {} ELSE {new})
            /\ dbQueries' = dbQueries \cup (IF refused \/ full THEN {} ELSE {m.char})
  BY DEF LogicCreate
<1> DEFINE online == Playing(m.char) \ gone
           foreign == \E x \in online : x.account # m.account
           closed == IF foreign THEN gone ELSE gone \cup online
           refused == foreign \/ <<m.account, m.key>> \notin local
           full == Cardinality(actors \ closed) >= MaxActors
<1>4. closed \in SUBSET actors
  BY DEF MakeWay, Rivals, Playing
<1>5. Closing(closed)
  <2>1. closeReqs' = closeReqs \cup SessionsOf(closed)
    BY <1>3
  <2> HIDE DEF closed
  <2> QED  BY <1>4, <2>1 DEF Closing, SessionsOf
<1>6. /\ Kick(m.key) \in GateMsg /\ Kick(m.key).type = "kick"
      /\ SetHandle(m.pos, NoActor, m.account) \in GateMsg
      /\ SetHandle(m.pos, m.handle, m.account) \in GateMsg
  <2>1. /\ m.key \in Key /\ m.pos \in Nat /\ m.account \in Account
        /\ m.handle \in 0 .. MaxLogins /\ NoActor \in 0 .. MaxLogins
    <3>1. /\ m.key \in Key /\ m.pos \in Nat /\ m.account \in Account /\ m.handle \in 1 .. MaxLogins
      <4> HIDE DEF m
      <4> QED  BY <1>2 DEF CreateMsg
    <3> QED  BY <3>1 DEF NoActor, LoginAssumption
  <2> HIDE DEF m
  <2> QED  BY <2>1 DEF GateMsg, KickMsg, SetMsg, Kick, SetHandle
<1>7. CASE refused
  <2>1. actors' = actors \ closed /\ dbQueries' = dbQueries
    BY <1>3, <1>7
  <2>2. gateMsgs' = gateMsgs \o KicksOf(closed) \o <<Kick(m.key)>>
    BY <1>3, <1>7
  <2> HIDE DEF closed, refused, m
  <2>3. Handled(m, closed)
    BY <1>1, <1>5, <1>6, <2>1, <2>2 DEF Handled, m
  <2> QED  BY <1>1, <1>2, <1>4, <2>3 DEF m
<1>8. CASE ~ refused /\ full
  <2>1. actors' = actors \ closed /\ dbQueries' = dbQueries
    BY <1>3, <1>8
  <2>2. gateMsgs' = gateMsgs \o KicksOf(closed) \o <<SetHandle(m.pos, NoActor, m.account)>>
    BY <1>3, <1>8
  <2> HIDE DEF closed, refused, full, m
  <2>3. Handled(m, closed)
    BY <1>1, <1>5, <1>6, <2>1, <2>2 DEF Handled, m
  <2> QED  BY <1>1, <1>2, <1>4, <2>3 DEF m
<1>9. CASE ~ refused /\ ~ full
  <2>1. actors' = (actors \ closed) \cup {new} /\ dbQueries' = dbQueries \cup {m.char}
    BY <1>3, <1>9
  <2>2. gateMsgs' = gateMsgs \o KicksOf(closed) \o <<SetHandle(m.pos, m.handle, m.account)>>
    BY <1>3, <1>9
  <2>3. ~ foreign /\ <<m.account, m.key>> \in local
    BY <1>9
  <2>4. closed = gone \cup online
    BY <2>3
  <2>5. \A x \in actors \ closed : x.char # m.char
    BY <2>4 DEF Playing
  <2>6. (\A x, y \in actors : x.account = m.account /\ y.account = m.account => x = y) =>
          \A x \in actors \ closed : x.account = m.account => x.key = m.key
    <3> SUFFICES ASSUME \A x, y \in actors : x.account = m.account /\ y.account = m.account => x = y,
                        NEW x \in actors \ closed, x.account = m.account, x.key # m.key
                 PROVE  FALSE
      OBVIOUS
    <3>1. Rivals(m) = {x} /\ Found(m.account) = {x}
      BY DEF Rivals, Found
    <3>2. x \notin gone /\ gone \in SUBSET Rivals(m)
      BY <2>4 DEF MakeWay
    <3>3. gone = {}
      BY <3>1, <3>2
    <3>4. Cardinality(gone) < Lookups
      BY <3>3, FS_EmptySet DEF Lookups
    <3> HIDE DEF m
    <3> QED  BY <3>1, <3>3, <3>4 DEF MakeWay
  <2> HIDE DEF closed, refused, full, foreign, m
  <2>7. Handled(m, closed)
    BY <1>1, <1>5, <1>6, <2>1, <2>2, <2>3, <2>5, <2>6 DEF Handled, m
  <2> QED  BY <1>1, <1>2, <1>4, <2>7 DEF m
<1> QED  BY <1>7, <1>8, <1>9

\* A logout is handled.
LEMMA LogoutHandled ==
  ASSUME LoginAssumption, Base, LogicLogout
  PROVE  LET m == Head(logicMsgs)
         IN  /\ m \in LogoutMsg /\ m = Logout(m.account, m.key)
             /\ logicMsgs # << >> /\ logicMsgs' = Tail(logicMsgs)
             /\ \/ /\ \A x \in actors : x.account # m.account
                   /\ actors' = actors /\ closeReqs' = closeReqs \cup {<<m.account, m.key>>}
                \/ \E closed \in SUBSET actors :
                     /\ Closing(closed) /\ actors' = actors \ closed
                     /\ \A x \in closed : x.account = m.account /\ x.key = m.key
                     /\ \E x \in actors : /\ x.account = m.account
                                          /\ x.key = m.key => x \in closed
<1> DEFINE m == Head(logicMsgs)
           same == Found(m.account)
<1>1. logicMsgs # << >> /\ m.type = "logout" /\ logicMsgs' = Tail(logicMsgs)
  BY DEF LogicLogout, IsNext
<1>2. m \in LogoutMsg /\ m = Logout(m.account, m.key)
  <2>1. m \in LogicMsg
    BY <1>1, LogicHead
  <2> HIDE DEF m
  <2> QED  BY <1>1, <2>1, LogicMsgKinds DEF LogicMsg, CreateMsg, LogoutMsg
<1>3. \/ /\ same = {}
         /\ closeReqs' = closeReqs \cup {<<m.account, m.key>>}
         /\ UNCHANGED actors
      \/ \E x \in same :
           LET closed == {y \in {x} : y.key = m.key}
           IN  /\ actors' = actors \ closed
               /\ closeReqs' = closeReqs \cup SessionsOf(closed)
  BY DEF LogicLogout
<1> HIDE DEF m
<1>4. CASE /\ same = {}
           /\ closeReqs' = closeReqs \cup {<<m.account, m.key>>}
           /\ UNCHANGED actors
  BY <1>1, <1>2, <1>4 DEF m, Found
<1>5. CASE \E x \in same :
             LET closed == {y \in {x} : y.key = m.key}
             IN  /\ actors' = actors \ closed
                 /\ closeReqs' = closeReqs \cup SessionsOf(closed)
  <2>1. PICK x \in same :
             LET closed == {y \in {x} : y.key = m.key}
             IN  /\ actors' = actors \ closed
                 /\ closeReqs' = closeReqs \cup SessionsOf(closed)
    BY <1>5
  <2> DEFINE closed == {y \in {x} : y.key = m.key}
  <2>2. closed \in SUBSET actors /\ \A y \in closed : y.account = m.account /\ y.key = m.key
    BY DEF Found
  <2>3. x \in actors /\ x.account = m.account /\ (x.key = m.key => x \in closed)
    BY DEF Found
  <2>4. actors' = actors \ closed /\ closeReqs' = closeReqs \cup SessionsOf(closed)
    BY <2>1
  <2> HIDE DEF closed
  <2>5. Closing(closed)
    BY <2>2, <2>4 DEF Closing, SessionsOf
  <2> QED  BY <1>1, <1>2, <2>2, <2>3, <2>4, <2>5 DEF m
<1> QED  BY <1>3, <1>4, <1>5

-----------------------------------------------------------------------------
(* Types, and the keys of the users *)

LEMMA KeysKept ==
  ASSUME LoginAssumption, Base,
         \/ Entering
         \/ conns' = conns /\ (Leaving \/ Staying \/ users' = users)
  PROVE  users' \in Seq(User) /\ conns' \in 0 .. MaxConns /\ KeysUnique'
<1>1. conns \in 0 .. MaxConns /\ users \in Seq(User)
  BY DEF Base, Types
<1>2. CASE Entering
  <2>1. users' \in Seq(User) /\ conns' = conns + 1 /\ conns' \in 1 .. MaxConns
    BY <1>2 DEF Entering
  <2>2. PICK q \in DOMAIN users' :
          /\ q \notin Present /\ Present' = Present \cup {q}
          /\ users'[q].key = conns'
          /\ \A p \in Present : users'[p] = users[p]
    BY <1>2 DEF Entering
  <2>3. \A p \in Present : users'[p].key = users[p].key /\ users[p].key \in 1 .. conns
    BY <2>2 DEF Base, KeysUnique
  <2>4. \A p \in Present' : p = q \/ p \in Present
    BY <2>2
  <2>5. \A p \in Present' : users'[p].key \in 1 .. conns'
    BY <1>1, <2>1, <2>2, <2>3, <2>4
  <2>6. \A p, r \in Present' : users'[p].key = users'[r].key => p = r
    <3> SUFFICES ASSUME NEW p \in Present', NEW r \in Present', users'[p].key = users'[r].key
                 PROVE  p = r
      OBVIOUS
    <3>1. CASE p \in Present /\ r \in Present
      BY <2>3, <3>1 DEF Base, KeysUnique
    <3>2. \A s \in Present : users'[s].key # conns'
      BY <1>1, <2>1, <2>3
    <3> QED  BY <2>2, <2>4, <3>1, <3>2
  <2> QED  BY <1>1, <2>1, <2>5, <2>6 DEF KeysUnique, LoginAssumption
<1>3. CASE conns' = conns /\ Leaving
  <2>1. users' \in Seq(User) /\ \A p \in Present' : p \in Present /\ users'[p] = users[p]
    BY <1>3 DEF Leaving
  <2> QED  BY <1>1, <1>3, <2>1 DEF KeysUnique, Base
<1>4. CASE conns' = conns /\ Staying
  <2>1. users' \in Seq(User) /\ Present' = Present /\ \A p \in Present : users'[p].key = users[p].key
    BY <1>4 DEF Staying
  <2> QED  BY <1>1, <1>4, <2>1 DEF KeysUnique, Base
<1>5. CASE conns' = conns /\ users' = users
  <2>1. Present' = Present
    BY <1>5 DEF Present
  <2> QED  BY <1>1, <1>5, <2>1 DEF KeysUnique, Base
<1> QED  BY <1>2, <1>3, <1>4, <1>5

LEMMA LeavingTypes ==
  ASSUME Base, Leaving
  PROVE  logicMsgs' \in Seq(LogicMsg)
<1>1. PICK more \in Seq(LogoutMsg) : logicMsgs' = logicMsgs \o more
  BY DEF Leaving
<1>2. more \in Seq(LogicMsg) /\ logicMsgs \in Seq(LogicMsg)
  BY DEF LogicMsg, Base, Types
<1> QED  BY <1>1, <1>2, ConcatAt

LEMMA GateOpenBase ==
  ASSUME LoginAssumption, Base, NEW f \in Fd, GateOpen(f)
  PROVE  Base'
<1>1. KeysUnique' /\ users' \in Seq(User) /\ conns' \in 0 .. MaxConns
  BY OpenEnters, KeysKept
<1>2. UNCHANGED <<logins, again, logicVars, serverVars, gateMsgs, logicMsgs, local, closeReqs,
                  ssCloses>>
  BY DEF GateOpen
<1> QED  BY <1>1, <1>2 DEF Base, Types, logicVars, serverVars

\* The users the gate thread closes, whatever the reason.
LEMMA CloseLeaves ==
  ASSUME LoginAssumption, Base, NEW S \in SUBSET Present, CloseUser(S, << >>)
  PROVE  /\ Leaving
         /\ S # {} => \E p \in S : Present' = Present \ {p}
<1>1. << >> \in Seq(LogoutMsg) /\ \A i \in DOMAIN << >> : << >>[i].key = 0
  OBVIOUS
<1> QED  BY <1>1, CloseUserLeaves

LEMMA GateCloseLeaves ==
  ASSUME LoginAssumption, Base, NEW p, GateClose(p)
  PROVE  Leaving
BY CloseLeaves DEF GateClose

LEMMA GateCloseSockLeaves ==
  ASSUME LoginAssumption, Base, GateCloseSock
  PROVE  Leaving
BY CloseLeaves DEF GateCloseSock, HasSock

\* A message without a handle closes the user, if there is one.
LEMMA NoHandleLeaves ==
  ASSUME LoginAssumption, Base, GateSetHandle, Head(gateMsgs).handle = NoActor
  PROVE  /\ Leaving
         /\ Head(gateMsgs).pos \in Present => Present' = Present \ {Head(gateMsgs).pos}
         /\ Head(gateMsgs).pos \notin Present => users' = users
<1> DEFINE m == Head(gateMsgs)
           there == {m.pos} \cap Present
           last == <<Logout(m.account, 0)>>
<1>1. CloseUser(there, last)
  BY DEF GateSetHandle
<1>2. m.account \in Account
  <2>1. m \in GateMsg /\ m.type = "set"
    BY GateHead DEF GateSetHandle, IsNext
  <2> HIDE DEF m
  <2> QED  BY <2>1, GateMsgKinds
<1>3. last \in Seq(LogoutMsg) /\ \A i \in DOMAIN last : last[i].key = 0
  <2>1. Logout(m.account, 0) \in LogoutMsg /\ Logout(m.account, 0).key = 0
    BY <1>2 DEF Logout, LogoutMsg, LoginAssumption
  <2> HIDE DEF m
  <2> QED  BY <2>1
<1>4. there \in SUBSET Present
  OBVIOUS
<1> HIDE DEF last, there
<1>5. /\ Leaving
      /\ there # {} => \E p \in there : Present' = Present \ {p}
      /\ there = {} => users' = users
  BY <1>1, <1>3, <1>4, CloseUserLeaves
<1> QED  BY <1>5 DEF there

LEMMA GateLeavesBase ==
  ASSUME LoginAssumption, Base, Leaving,
         \/ gateMsgs' = gateMsgs
         \/ gateMsgs # << >> /\ gateMsgs' = Tail(gateMsgs),
         UNCHANGED <<conns, logins, again, logicVars, serverVars, local, closeReqs, ssCloses>>
  PROVE  Base'
<1>1. KeysUnique' /\ users' \in Seq(User) /\ conns' \in 0 .. MaxConns
  BY KeysKept
<1>2. logicMsgs' \in Seq(LogicMsg)
  BY LeavingTypes
<1>3. gateMsgs' \in Seq(GateMsg)
  BY GateHead DEF Base, Types
<1> QED  BY <1>1, <1>2, <1>3 DEF Base, Types, logicVars, serverVars

LEMMA GateCheckBase ==
  ASSUME LoginAssumption, Base, NEW p \in DOMAIN users, NEW a \in Account, GateCheck(p, a)
  PROVE  Base'
<1>1. Staying /\ p \in Present
  BY CheckStays
<1>2. KeysUnique' /\ users' \in Seq(User) /\ conns' \in 0 .. MaxConns
  BY <1>1, KeysKept DEF GateCheck
<1>3. checks' \in SUBSET (Account \X Key)
  <2>1. users[p].key \in Key /\ checks' = checks \cup {<<a, users[p].key>>}
    BY <1>1, PresentUsers DEF GateCheck
  <2> QED  BY <2>1 DEF Base, Types
<1> QED  BY <1>2, <1>3 DEF Base, Types, logicVars, serverVars, GateCheck

LEMMA GateLoginBase ==
  ASSUME LoginAssumption, Base, NEW p \in DOMAIN users, NEW a \in Account, NEW c \in Character,
         GateLogin(p, a, c)
  PROVE  Base'
<1> DEFINE m == [type |-> "create", handle |-> logins + 1, char |-> c,
                 pos |-> p, account |-> a, key |-> users[p].key]
<1>1. Staying /\ p \in Present
  BY LoginStays
<1>2. KeysUnique' /\ users' \in Seq(User) /\ conns' \in 0 .. MaxConns
  BY <1>1, KeysKept DEF GateLogin
<1>3. logins' \in 0 .. MaxLogins /\ logins + 1 \in 1 .. MaxLogins
  BY DEF GateLogin, Base, Types, LoginAssumption
<1>4. m \in LogicMsg
  <2>1. users[p].key \in Key /\ p \in Nat
    BY <1>1, PresentUsers
  <2> QED  BY <1>3, <2>1 DEF LogicMsg, CreateMsg
<1>5. logicMsgs' \in Seq(LogicMsg)
  <2>1. logicMsgs' = Append(logicMsgs, m)
    BY DEF GateLogin
  <2> HIDE DEF m
  <2> QED  BY <1>4, <2>1, AppendAt DEF Base, Types
<1>6. again' \in SUBSET Key
  <2>1. users[p].key \in Key /\ again \in SUBSET Key
    BY <1>1, PresentUsers DEF Base, Types
  <2>2. again' = again \/ again' = again \cup {users[p].key}
    BY DEF GateLogin
  <2> QED  BY <2>1, <2>2
<1> QED  BY <1>2, <1>3, <1>5, <1>6 DEF Base, Types, logicVars, serverVars, GateLogin

LEMMA GateCheckedBase ==
  ASSUME LoginAssumption, Base, GateChecked
  PROVE  Base'
<1>1. KeysUnique' /\ users' \in Seq(User) /\ conns' \in 0 .. MaxConns
  BY CheckedStays, KeysKept DEF GateChecked
<1>2. gateMsgs' \in Seq(GateMsg)
  BY GateHead DEF GateChecked, IsNext
<1> QED  BY <1>1, <1>2 DEF Base, Types, logicVars, serverVars, GateChecked

\* The user that is kicked is closed by a message of its own.
LEMMA KickCloses ==
  ASSUME LoginAssumption, Base, GateKick
  PROVE  \E more \in Seq(CloseMsg) : gateMsgs' = Tail(gateMsgs) \o more
<1> DEFINE found == HasKey(Head(gateMsgs).key)
           f == [p \in found |-> CloseSock(users[p].sock, users[p].key)]
           T == {CloseSock(users[p].sock, users[p].key) : p \in found}
<1>1. T = {f[p] : p \in found}
  OBVIOUS
<1>2. IsFiniteSet(T)
  <2>1. found \subseteq Present
    BY DEF HasKey
  <2>2. IsFiniteSet(found)
    <3> HIDE DEF found
    <3> QED  BY <2>1, PresentUsers, FS_Subset
  <2>3. IsFiniteSet({f[p] : p \in found})
    <3> HIDE DEF f, found
    <3> QED  BY <2>2, FiniteImage
  <2> QED  BY <1>1, <2>3
<1>3. SetToSeq(T) \in Seq(T)
  <2> HIDE DEF T
  <2> QED  BY <1>2, SetAsSequence
<1>4. T \subseteq CloseMsg
  <2> SUFFICES ASSUME NEW p \in found PROVE CloseSock(users[p].sock, users[p].key) \in CloseMsg
    OBVIOUS
  <2>1. users[p].sock \in Fd \cup {NoFd} /\ users[p].key \in 0 .. MaxConns
    <3>1. users[p] \in User
      BY PresentUsers
    <3> QED  BY <3>1 DEF User
  <2> QED  BY <2>1 DEF CloseMsg, CloseSock
<1>5. SetToSeq(T) \in Seq(CloseMsg)
  <2> HIDE DEF T
  <2> QED  BY <1>3, <1>4
<1> QED  BY <1>5 DEF GateKick

LEMMA GateKickBase ==
  ASSUME LoginAssumption, Base, GateKick
  PROVE  Base'
<1>1. PICK more \in Seq(CloseMsg) : gateMsgs' = Tail(gateMsgs) \o more
  BY KickCloses
<1>2. gateMsgs' \in Seq(GateMsg)
  <2>1. more \in Seq(GateMsg)
    BY DEF GateMsg
  <2>2. Tail(gateMsgs) \in Seq(GateMsg)
    BY GateHead DEF GateKick, IsNext
  <2> QED  BY <1>1, <2>1, <2>2, ConcatAt
<1>3. UNCHANGED <<gateVars, logicVars, serverVars, logicMsgs, local, closeReqs, ssCloses>>
  BY DEF GateKick
<1>4. KeysUnique'
  BY <1>3, KeysKept DEF gateVars
<1> QED  BY <1>2, <1>3, <1>4 DEF Base, Types, gateVars, logicVars, serverVars

LEMMA GateSetHandleBase ==
  ASSUME LoginAssumption, Base, GateSetHandle
  PROVE  Base'
<1>1. /\ UNCHANGED <<conns, logins, again, logicVars, serverVars, local, closeReqs, ssCloses>>
      /\ gateMsgs # << >> /\ gateMsgs' = Tail(gateMsgs)
  BY DEF GateSetHandle, IsNext
<1>2. CASE Head(gateMsgs).handle = NoActor
  BY <1>1, <1>2, NoHandleLeaves, GateLeavesBase
<1>3. CASE Head(gateMsgs).handle # NoActor
  <2>1. /\ Staying
        /\ \/ logicMsgs' = logicMsgs \o << >>
           \/ logicMsgs' = logicMsgs \o <<Logout(Head(gateMsgs).account, 0)>>
    BY <1>3, SetHandleStays
  <2>2. KeysUnique' /\ users' \in Seq(User) /\ conns' \in 0 .. MaxConns
    BY <1>1, <2>1, KeysKept
  <2>3. Logout(Head(gateMsgs).account, 0) \in LogicMsg
    <3>1. Head(gateMsgs) \in GateMsg /\ Head(gateMsgs).type = "set"
      BY GateHead DEF GateSetHandle, IsNext
    <3>2. Head(gateMsgs).account \in Account
      BY <3>1, GateMsgKinds
    <3> QED  BY <3>2 DEF Logout, LogicMsg, LogoutMsg, LoginAssumption
  <2>4. logicMsgs' \in Seq(LogicMsg)
    <3>1. <<Logout(Head(gateMsgs).account, 0)>> \in Seq(LogicMsg) /\ << >> \in Seq(LogicMsg)
      BY <2>3
    <3>2. logicMsgs \in Seq(LogicMsg)
      BY DEF Base, Types
    <3>3. \A q \in Seq(LogicMsg) : logicMsgs \o q \in Seq(LogicMsg)
      BY <3>2, ConcatAt
    <3> QED  BY <2>1, <3>1, <3>3
  <2>5. gateMsgs' \in Seq(GateMsg)
    BY <1>1, GateHead
  <2> QED  BY <1>1, <2>2, <2>4, <2>5 DEF Base, Types, logicVars, serverVars
<1> QED  BY <1>2, <1>3

LEMMA LogicCreateBase ==
  ASSUME LoginAssumption, Base, LogicCreate
  PROVE  Base'
<1> DEFINE m == Head(logicMsgs)
           new == [handle |-> m.handle, char |-> m.char, account |-> m.account,
                   key |-> m.key, inited |-> FALSE]
<1>1. m \in CreateMsg /\ logicMsgs # << >>
  BY CreateHandled
<1>2. PICK closed \in SUBSET actors : Handled(m, closed)
  BY CreateHandled
<1>3. PICK last \in GateMsg :
        /\ gateMsgs' = gateMsgs \o KicksOf(closed) \o <<last>>
        /\ \/ /\ actors' = actors \ closed /\ dbQueries' = dbQueries
           \/ /\ actors' = (actors \ closed) \cup {new}
              /\ dbQueries' = dbQueries \cup {m.char}
  BY <1>2 DEF Handled
<1>4. new \in ActorRec /\ m.char \in Character
  <2> HIDE DEF m
  <2> QED  BY <1>1 DEF CreateMsg, ActorRec
<1>5. logicMsgs' = Tail(logicMsgs) /\ Closing(closed)
  BY <1>2 DEF Handled
<1> HIDE DEF m, new
<1>6. actors' \in SUBSET ActorRec /\ IsFiniteSet(actors') /\ dbQueries' \in SUBSET Character
  <2>1. /\ actors \in SUBSET ActorRec /\ IsFiniteSet(actors) /\ dbQueries \in SUBSET Character
    BY DEF Base, Types
  <2>2. IsFiniteSet(actors \ closed)
    BY <2>1, FS_Subset
  <2>3. IsFiniteSet((actors \ closed) \cup {new})
    BY <2>2, FS_AddElement
  <2> QED  BY <1>3, <1>4, <2>1, <2>2, <2>3
<1>7. gateMsgs' \in Seq(GateMsg)
  <2>1. closed \in SUBSET ActorRec /\ IsFiniteSet(closed) /\ gateMsgs \in Seq(GateMsg)
    BY FS_Subset DEF Base, Types
  <2>2. KicksOf(closed) \in Seq(KickMsg)
    BY <2>1, KicksAreKicks
  <2>3. KicksOf(closed) \in Seq(GateMsg) /\ <<last>> \in Seq(GateMsg)
    BY <2>2 DEF GateMsg
  <2>4. gateMsgs \o KicksOf(closed) \in Seq(GateMsg)
    BY <2>1, <2>3, ConcatAt
  <2> QED  BY <1>3, <2>3, <2>4, ConcatAt
<1>8. closeReqs' \in SUBSET (Account \X (0 .. MaxConns))
  <2> SUFFICES ASSUME NEW x \in closed PROVE <<x.account, x.key>> \in Account \X (0 .. MaxConns)
    BY <1>5 DEF Closing, Base, Types
  <2>1. x.account \in Account /\ x.key \in Key
    BY ActorFields
  <2> QED  BY <2>1 DEF Key
<1>9. logicMsgs' \in Seq(LogicMsg)
  BY <1>1, <1>5, LogicHead
<1>10. UNCHANGED <<gateVars, serverVars, local, ssCloses>>
  BY DEF LogicCreate
<1>11. KeysUnique'
  BY <1>10, KeysKept DEF gateVars
<1> QED  BY <1>6, <1>7, <1>8, <1>9, <1>10, <1>11 DEF Base, Types, gateVars, serverVars

LEMMA LogicLogoutBase ==
  ASSUME LoginAssumption, Base, LogicLogout
  PROVE  Base'
<1> DEFINE m == Head(logicMsgs)
<1>1. /\ m \in LogoutMsg /\ logicMsgs # << >> /\ logicMsgs' = Tail(logicMsgs)
      /\ \/ /\ actors' = actors /\ closeReqs' = closeReqs \cup {<<m.account, m.key>>}
         \/ \E closed \in SUBSET actors : Closing(closed) /\ actors' = actors \ closed
  BY LogoutHandled
<1>2. UNCHANGED <<gateVars, dbQueries, serverVars, gateMsgs, local, ssCloses>>
  BY DEF LogicLogout
<1>3. <<m.account, m.key>> \in Account \X (0 .. MaxConns)
  <2> HIDE DEF m
  <2> QED  BY <1>1 DEF LogoutMsg
<1> HIDE DEF m
<1>4. actors' \in SUBSET ActorRec /\ IsFiniteSet(actors')
  <2>1. actors' \in SUBSET actors /\ actors \in SUBSET ActorRec /\ IsFiniteSet(actors)
    BY <1>1 DEF Base, Types
  <2> QED  BY <2>1, FS_Subset
<1>5. closeReqs' \in SUBSET (Account \X (0 .. MaxConns))
  <2>1. \A x \in actors : <<x.account, x.key>> \in Account \X (0 .. MaxConns)
    BY ActorFields DEF Key
  <2>2. closeReqs \in SUBSET (Account \X (0 .. MaxConns))
    BY DEF Base, Types
  <2>3. \A closed \in SUBSET actors : Closing(closed) =>
          \A s \in closeReqs' : s \in Account \X (0 .. MaxConns)
    BY <2>1, <2>2 DEF Closing
  <2> QED  BY <1>1, <1>3, <2>2, <2>3
<1>6. logicMsgs' \in Seq(LogicMsg)
  BY <1>1, LogicHead
<1>7. KeysUnique'
  BY <1>2, KeysKept DEF gateVars
<1> QED  BY <1>2, <1>4, <1>5, <1>6, <1>7 DEF Base, Types, gateVars, serverVars

\* The actors whose data is here: what each of them is afterwards.
Loaded(x) == [x EXCEPT !.inited = TRUE]

LEMMA LoadedFields ==
  ASSUME NEW x \in ActorRec
  PROVE  /\ Loaded(x) \in ActorRec /\ Loaded(x).handle = x.handle /\ Loaded(x).char = x.char
         /\ Loaded(x).account = x.account /\ Loaded(x).key = x.key /\ Loaded(x).inited
  BY DEF Loaded, ActorRec

LEMMA ActorsLoaded ==
  ASSUME LoginAssumption, Base, NEW c \in Character, LogicLoaded(c)
  PROVE  LET waiting == {x \in actors : x.char = c /\ ~ x.inited}
             right == {x \in waiting : ~ WrongData(x)}
         IN  /\ actors' = (actors \ waiting) \cup {Loaded(x) : x \in right}
             /\ \E more \in Seq(KickMsg) : gateMsgs' = gateMsgs \o more
<1> DEFINE waiting == {x \in actors : x.char = c /\ ~ x.inited}
           wrong == {x \in waiting : WrongData(x)}
           right == {x \in waiting : ~ WrongData(x)}
<1>1. /\ actors' = (actors \ waiting) \cup {Loaded(x) : x \in waiting \ wrong}
      /\ gateMsgs' = gateMsgs \o KicksOf(wrong)
  BY DEF LogicLoaded, Loaded
<1>2. right = waiting \ wrong
  OBVIOUS
<1>3. KicksOf(wrong) \in Seq(KickMsg)
  <2>1. wrong \in SUBSET ActorRec /\ IsFiniteSet(wrong)
    <3>1. wrong \subseteq actors /\ actors \subseteq ActorRec /\ IsFiniteSet(actors)
      BY DEF Base, Types
    <3> HIDE DEF wrong
    <3> QED  BY <3>1, FS_Subset
  <2> HIDE DEF wrong
  <2> QED  BY <2>1, KicksAreKicks
<1> HIDE DEF wrong, right, waiting
<1>4. actors' = (actors \ waiting) \cup {Loaded(x) : x \in right}
  BY <1>1, <1>2
<1> QED  BY <1>1, <1>3, <1>4 DEF right, waiting

LEMMA LogicLoadedBase ==
  ASSUME LoginAssumption, Base, NEW c \in Character, LogicLoaded(c)
  PROVE  Base'
<1> DEFINE waiting == {x \in actors : x.char = c /\ ~ x.inited}
           right == {x \in waiting : ~ WrongData(x)}
           f == [x \in right |-> Loaded(x)]
<1>1. actors' = (actors \ waiting) \cup {Loaded(x) : x \in right}
  BY ActorsLoaded
<1>2. PICK more \in Seq(KickMsg) : gateMsgs' = gateMsgs \o more
  BY ActorsLoaded
<1>3. UNCHANGED <<gateVars, serverVars, logicMsgs, local, closeReqs, ssCloses>>
      /\ dbQueries' = dbQueries \ {c}
  BY DEF LogicLoaded
<1>4. right \subseteq actors /\ actors \subseteq ActorRec /\ IsFiniteSet(actors)
  BY DEF Base, Types
<1>5. {Loaded(x) : x \in right} \subseteq ActorRec
  <2> HIDE DEF right
  <2> QED  BY <1>4, LoadedFields
<1>6. IsFiniteSet({Loaded(x) : x \in right})
  <2>1. IsFiniteSet(right)
    <3> HIDE DEF right
    <3> QED  BY <1>4, FS_Subset
  <2>2. IsFiniteSet({f[x] : x \in right})
    <3> HIDE DEF f, right
    <3> QED  BY <2>1, FiniteImage
  <2>3. {f[x] : x \in right} = {Loaded(x) : x \in right}
    OBVIOUS
  <2> QED  BY <2>2, <2>3
<1>7. IsFiniteSet(actors \ waiting) /\ (actors \ waiting) \subseteq ActorRec
  BY <1>4, FS_Subset
<1> HIDE DEF waiting, right, f
<1>8. actors' \in SUBSET ActorRec /\ IsFiniteSet(actors')
  BY <1>1, <1>5, <1>6, <1>7, FS_Union
<1>9. gateMsgs' \in Seq(GateMsg)
  <2>1. more \in Seq(GateMsg)
    BY DEF GateMsg
  <2> QED  BY <1>2, <2>1, ConcatAt DEF Base, Types
<1>10. KeysUnique'
  BY <1>3, KeysKept DEF gateVars
<1> QED  BY <1>3, <1>8, <1>9, <1>10 DEF Base, Types, gateVars, serverVars

LEMMA ActorCloses ==
  ASSUME LoginAssumption, Base, NEW x \in actors, LogicClose(x)
  PROVE  /\ Closing({x}) /\ actors' = actors \ {x}
         /\ \E more \in Seq(KickMsg) : gateMsgs' = gateMsgs \o more
<1>1. /\ actors' = actors \ {x} /\ closeReqs' = closeReqs \cup SessionsOf({x})
      /\ gateMsgs' = gateMsgs \o KicksOf({x})
  BY DEF LogicClose
<1>2. KicksOf({x}) \in Seq(KickMsg)
  <2>1. {x} \in SUBSET ActorRec /\ IsFiniteSet({x})
    BY ActorFields, FS_Singleton
  <2> QED  BY <2>1, KicksAreKicks
<1> QED  BY <1>1, <1>2 DEF Closing, SessionsOf

LEMMA LogicCloseBase ==
  ASSUME LoginAssumption, Base, NEW x \in actors, LogicClose(x)
  PROVE  Base'
<1>1. Closing({x}) /\ actors' = actors \ {x}
  BY ActorCloses
<1>2. PICK more \in Seq(KickMsg) : gateMsgs' = gateMsgs \o more
  BY ActorCloses
<1>3. UNCHANGED <<gateVars, dbQueries, serverVars, logicMsgs, local, ssCloses>>
  BY DEF LogicClose
<1>4. actors' \in SUBSET ActorRec /\ IsFiniteSet(actors')
  BY <1>1, FS_Subset DEF Base, Types
<1>5. closeReqs' \in SUBSET (Account \X (0 .. MaxConns))
  <2>1. <<x.account, x.key>> \in Account \X (0 .. MaxConns)
    BY ActorFields DEF Key
  <2> QED  BY <1>1, <2>1 DEF Closing, Base, Types
<1>6. gateMsgs' \in Seq(GateMsg)
  <2>1. more \in Seq(GateMsg)
    BY DEF GateMsg
  <2> QED  BY <1>2, <2>1, ConcatAt DEF Base, Types
<1>7. KeysUnique'
  BY <1>3, KeysKept DEF gateVars
<1> QED  BY <1>3, <1>4, <1>5, <1>6, <1>7 DEF Base, Types, gateVars, serverVars

LEMMA ClientCloseBase ==
  ASSUME LoginAssumption, Base, NEW s \in closeReqs, ClientClose(s)
  PROVE  Base'
<1>1. /\ UNCHANGED <<gateVars, logicVars, serverVars, gateMsgs, logicMsgs, local>>
      /\ closeReqs' = closeReqs \ {s}
      /\ ssCloses' = IF s \in local THEN ssCloses \cup {s} ELSE ssCloses
  BY DEF ClientClose
<1>2. ssCloses' \in SUBSET (Account \X Key)
  BY <1>1 DEF Base, Types
<1>3. KeysUnique'
  BY <1>1, KeysKept DEF gateVars
<1> QED  BY <1>1, <1>2, <1>3 DEF Base, Types, gateVars, logicVars, serverVars

\* The message the session client handles.
LEMMA ServerHead ==
  ASSUME Base, fromSS # << >>
  PROVE  /\ Head(fromSS) \in SessionMsg /\ Head(fromSS) = fromSS[1]
         /\ Head(fromSS).account \in Account /\ Head(fromSS).key \in Key /\ Head(fromSS).open \in BOOLEAN
         /\ Tail(fromSS) \in Seq(SessionMsg)
         /\ Len(fromSS) \in Nat /\ Len(fromSS) > 0 /\ Len(Tail(fromSS)) = Len(fromSS) - 1
         /\ \A i \in 1 .. Len(fromSS) - 1 : Tail(fromSS)[i] = fromSS[i + 1]
<1>1. /\ Head(fromSS) \in SessionMsg /\ Head(fromSS) = fromSS[1]
      /\ Tail(fromSS) \in Seq(SessionMsg)
      /\ Len(fromSS) \in Nat /\ Len(fromSS) > 0 /\ Len(Tail(fromSS)) = Len(fromSS) - 1
      /\ \A i \in 1 .. Len(fromSS) - 1 : Tail(fromSS)[i] = fromSS[i + 1]
  BY TailAt DEF Base, Types
<1> QED  BY <1>1 DEF SessionMsg

LEMMA ClientReceiveBase ==
  ASSUME LoginAssumption, Base, ClientReceive
  PROVE  Base'
<1> DEFINE m == Head(fromSS)
<1>1. /\ UNCHANGED <<gateVars, logicVars, checks, opened, granted, logicMsgs, closeReqs, ssCloses>>
      /\ fromSS # << >> /\ fromSS' = Tail(fromSS)
      /\ local' = IF m.open THEN local \cup {<<m.account, m.key>>}
                  ELSE local \ {<<m.account, m.key>>}
      /\ gateMsgs' = IF m.open THEN Append(gateMsgs, Checked(m.account, m.key)) ELSE gateMsgs
  BY DEF ClientReceive
<1>2. m.account \in Account /\ m.key \in Key /\ fromSS' \in Seq(SessionMsg)
  BY <1>1, ServerHead
<1> HIDE DEF m
<1>3. Checked(m.account, m.key) \in GateMsg
  BY <1>2 DEF Checked, GateMsg, CheckedMsg
<1>4. gateMsgs' \in Seq(GateMsg)
  BY <1>1, <1>3, AppendAt DEF Base, Types
<1>5. local' \in SUBSET (Account \X Key)
  BY <1>1, <1>2 DEF Base, Types
<1>6. KeysUnique'
  BY <1>1, KeysKept DEF gateVars
<1> QED  BY <1>1, <1>2, <1>4, <1>5, <1>6 DEF Base, Types, gateVars, logicVars

LEMMA ServerOpenBase ==
  ASSUME LoginAssumption, Base, NEW s \in checks, ServerOpen(s[1], s[2])
  PROVE  Base'
<1>1. s[1] \in Account /\ s[2] \in Key
  BY DEF Base, Types
<1> DEFINE m == [open |-> TRUE, account |-> s[1], key |-> s[2]]
<1>2. /\ UNCHANGED <<gateVars, logicVars, gateMsgs, logicMsgs, local, closeReqs>>
      /\ checks' = checks \ {<<s[1], s[2]>>}
      /\ ssCloses' = IF opened[s[1]] = 0 THEN ssCloses ELSE ssCloses \cup {<<s[1], opened[s[1]]>>}
      /\ opened' = [opened EXCEPT ![s[1]] = s[2]]
      /\ fromSS' = Append(fromSS, m)
      /\ granted' = granted \cup {<<s[1], s[2]>>}
  BY DEF ServerOpen
<1>3. m \in SessionMsg
  BY <1>1 DEF SessionMsg
<1> HIDE DEF m
<1>4. fromSS' \in Seq(SessionMsg)
  BY <1>2, <1>3, AppendAt DEF Base, Types
<1>5. opened' \in [Account -> 0 .. MaxConns]
  BY <1>1, <1>2 DEF Base, Types, Key
<1>6. ssCloses' \in SUBSET (Account \X Key)
  <2>1. opened[s[1]] \in 0 .. MaxConns /\ ssCloses \in SUBSET (Account \X Key)
    BY <1>1 DEF Base, Types
  <2>2. opened[s[1]] # 0 => <<s[1], opened[s[1]]>> \in Account \X Key
    BY <1>1, <2>1 DEF Key, LoginAssumption
  <2> QED  BY <1>2, <2>1, <2>2
<1>7. checks' \in SUBSET (Account \X Key)
  BY <1>2 DEF Base, Types
<1>8. KeysUnique'
  BY <1>2, KeysKept DEF gateVars
<1>9. granted' \in SUBSET (Account \X Key)
  BY <1>1, <1>2 DEF Base, Types
<1> QED  BY <1>2, <1>4, <1>5, <1>6, <1>7, <1>8, <1>9 DEF Base, Types, gateVars, logicVars

LEMMA ServerCloseBase ==
  ASSUME LoginAssumption, Base, NEW s \in ssCloses, ServerClose(s)
  PROVE  Base'
<1>1. s[1] \in Account /\ s[2] \in Key
  BY DEF Base, Types
<1> DEFINE m == [open |-> FALSE, account |-> s[1], key |-> s[2]]
<1>2. /\ UNCHANGED <<gateVars, logicVars, checks, granted, gateMsgs, logicMsgs, local, closeReqs>>
      /\ ssCloses' = ssCloses \ {s}
      /\ opened' = [opened EXCEPT ![s[1]] = 0] \/ opened' = opened
      /\ fromSS' = Append(fromSS, m) \/ fromSS' = fromSS
  BY DEF ServerClose
<1>3. m \in SessionMsg
  BY <1>1 DEF SessionMsg
<1> HIDE DEF m
<1>4. fromSS' \in Seq(SessionMsg)
  <2>1. fromSS \in Seq(SessionMsg)
    BY DEF Base, Types
  <2>2. Append(fromSS, m) \in Seq(SessionMsg)
    BY <1>3, <2>1, AppendAt
  <2> QED  BY <1>2, <2>1, <2>2
<1>5. opened' \in [Account -> 0 .. MaxConns]
  <2>1. opened \in [Account -> 0 .. MaxConns] /\ 0 \in 0 .. MaxConns
    BY DEF Base, Types, LoginAssumption
  <2>2. [opened EXCEPT ![s[1]] = 0] \in [Account -> 0 .. MaxConns]
    BY <2>1
  <2> QED  BY <1>2, <2>1, <2>2
<1>6. KeysUnique'
  BY <1>2, KeysKept DEF gateVars
<1> QED  BY <1>2, <1>4, <1>5, <1>6 DEF Base, Types, gateVars, logicVars

\* What may happen, each with the facts about its parameters.
LEMMA Steps ==
  ASSUME LoginAssumption, Base, Next
  PROVE  \/ \E f \in Fd : GateOpen(f)
         \/ \E p \in DOMAIN users : GateClose(p)
         \/ \E p \in DOMAIN users, a \in Account : GateCheck(p, a)
         \/ \E p \in DOMAIN users, a \in Account, c \in Character : GateLogin(p, a, c)
         \/ GateLost \/ GateChecked \/ GateKick \/ GateCloseSock \/ GateSetHandle
         \/ LogicCreate \/ LogicLogout
         \/ \E c \in Character : LogicLoaded(c)
         \/ \E x \in actors : LogicClose(x)
         \/ \E s \in closeReqs : ClientClose(s)
         \/ ClientReceive
         \/ \E s \in checks : ServerOpen(s[1], s[2])
         \/ \E s \in ssCloses : ServerClose(s)
<1>1. \A pick \in Picks : pick[1] \in Account /\ pick[2] \in Character
  BY DEF LoginAssumption
<1> QED  BY <1>1 DEF Next, GateMessage, LogicMessage

LEMMA BaseKept ==
  ASSUME LoginAssumption, Base, [Next]_vars
  PROVE  Base'
<1>1. CASE vars' = vars
  <2>1. Present' = Present
    BY <1>1 DEF vars, gateVars, Present
  <2> QED  BY <1>1, <2>1 DEF Base, Types, KeysUnique, vars, gateVars, logicVars, serverVars
<1>2. CASE Next
  <2>1. CASE \E f \in Fd : GateOpen(f)
    BY <2>1, GateOpenBase
  <2>2. CASE \E p \in DOMAIN users : GateClose(p)
    BY <2>2, GateCloseLeaves, GateLeavesBase DEF GateClose
  <2>3. CASE \E p \in DOMAIN users, a \in Account : GateCheck(p, a)
    BY <2>3, GateCheckBase
  <2>4. CASE \E p \in DOMAIN users, a \in Account, c \in Character : GateLogin(p, a, c)
    BY <2>4, GateLoginBase
  <2>5. CASE GateLost
    BY <2>5, LostLeaves, GateLeavesBase DEF GateLost
  <2>6. CASE GateChecked
    BY <2>6, GateCheckedBase
  <2>7. CASE GateKick
    BY <2>7, GateKickBase
  <2>8. CASE GateCloseSock
    BY <2>8, GateCloseSockLeaves, GateLeavesBase DEF GateCloseSock, IsNext
  <2>9. CASE GateSetHandle
    BY <2>9, GateSetHandleBase
  <2>10. CASE LogicCreate
    BY <2>10, LogicCreateBase
  <2>11. CASE LogicLogout
    BY <2>11, LogicLogoutBase
  <2>12. CASE \E c \in Character : LogicLoaded(c)
    BY <2>12, LogicLoadedBase
  <2>13. CASE \E x \in actors : LogicClose(x)
    BY <2>13, LogicCloseBase
  <2>14. CASE \E s \in closeReqs : ClientClose(s)
    BY <2>14, ClientCloseBase
  <2>15. CASE ClientReceive
    BY <2>15, ClientReceiveBase
  <2>16. CASE \E s \in checks : ServerOpen(s[1], s[2])
    BY <2>16, ServerOpenBase
  <2>17. CASE \E s \in ssCloses : ServerClose(s)
    BY <2>17, ServerCloseBase
  <2> QED  BY <1>2, <2>1, <2>2, <2>3, <2>4, <2>5, <2>6, <2>7, <2>8, <2>9, <2>10, <2>11, <2>12,
              <2>13, <2>14, <2>15, <2>16, <2>17, Steps
<1> QED  BY <1>1, <1>2

LEMMA InitBase ==
  ASSUME LoginAssumption, Init
  PROVE  Base
<1>1. IsFiniteSet({})
  BY FS_EmptySet
<1>2. Types
  BY <1>1 DEF Init, Types, LoginAssumption
<1>3. Present = {}
  BY DEF Init, Present
<1> QED  BY <1>2, <1>3 DEF Base, KeysUnique

LEMMA BaseAlways == Spec => []Base
<1>1. Init => Base
  BY LoginAssumption, InitBase
<1>2. Base /\ [Next]_vars => Base'
  BY LoginAssumption, BaseKept
<1> QED  BY <1>1, <1>2, PTL DEF Spec

-----------------------------------------------------------------------------
(* Actors: no two of a character *)

\* The steps that leave the actors alone.
LEMMA ActorSteps ==
  ASSUME LoginAssumption, Base, [Next]_vars
  PROVE  \/ actors' = actors
         \/ LogicCreate \/ LogicLogout
         \/ \E c \in Character : LogicLoaded(c)
         \/ \E x \in actors : LogicClose(x)
  BY Steps DEF vars, logicVars, GateOpen, GateClose, GateCheck, GateLogin, GateLost, GateChecked,
               GateKick, GateCloseSock, GateSetHandle, ClientClose, ClientReceive, ServerOpen,
               ServerClose

\* Every actor is one that was there, and may be loaded by now.
ActorsStay ==
  \E f \in [actors' -> actors] :
    /\ \A x \in actors' :
         /\ x.char = f[x].char /\ x.account = f[x].account /\ x.key = f[x].key
         /\ x.handle = f[x].handle
         /\ x.inited => f[x].inited \/ ~ WrongData(f[x])
    /\ \A x, y \in actors' : f[x] = f[y] => x = y

LEMMA ActorsGo ==
  ASSUME actors' \subseteq actors
  PROVE  ActorsStay
<1> DEFINE f == [x \in actors' |-> x]
<1>1. f \in [actors' -> actors] /\ \A x \in actors' : f[x] = x
  OBVIOUS
<1> HIDE DEF f
<1> QED  BY <1>1 DEF ActorsStay

LEMMA ActorsFrom ==
  ASSUME LoginAssumption, Base, NEW c \in Character, LogicLoaded(c)
  PROVE  ActorsStay
<1> DEFINE waiting == {x \in actors : x.char = c /\ ~ x.inited}
           right == {x \in waiting : ~ WrongData(x)}
           From(x, y) == /\ x = y \/ (x = Loaded(y) /\ y.char = c /\ ~ WrongData(y))
                         /\ x.char = y.char /\ x.account = y.account /\ x.key = y.key
                         /\ x.handle = y.handle
                         /\ y.char = c => x.inited
<1>1. actors' = (actors \ waiting) \cup {Loaded(x) : x \in right}
  BY ActorsLoaded
<1>2. \A x \in actors' : \E y \in actors : From(x, y)
  <2> SUFFICES ASSUME NEW x \in actors' PROVE \E y \in actors : From(x, y)
    OBVIOUS
  <2>1. CASE x \in actors \ waiting
    <3>1. x.char = c => x.inited
      BY <2>1
    <3> QED  BY <2>1, <3>1
  <2>2. CASE x \in {Loaded(y) : y \in right}
    <3>1. PICK y \in right : x = Loaded(y)
      BY <2>2
    <3>2. y \in actors /\ y \in ActorRec /\ y.char = c /\ ~ WrongData(y)
      BY ActorFields
    <3>3. x.char = y.char /\ x.account = y.account /\ x.key = y.key /\ x.handle = y.handle /\ x.inited
      BY <3>1, <3>2, LoadedFields
    <3> QED  BY <3>1, <3>2, <3>3
  <2> QED  BY <1>1, <2>1, <2>2
<1> HIDE DEF waiting, right, From
<1> DEFINE f == [x \in actors' |-> CHOOSE y \in actors : From(x, y)]
<1>3. f \in [actors' -> actors] /\ \A x \in actors' : From(x, f[x])
  BY <1>2
<1> HIDE DEF f
<1>4. \A z \in actors : z.inited => z = Loaded(z)
  <2> SUFFICES ASSUME NEW z \in actors, z.inited PROVE z = Loaded(z)
    OBVIOUS
  <2>1. z \in ActorRec /\ z.inited = TRUE
    BY ActorFields
  <2> QED  BY <2>1 DEF Loaded, ActorRec
<1>5. \A x, y \in actors' : f[x] = f[y] => x = y
  <2> SUFFICES ASSUME NEW x \in actors', NEW y \in actors', f[x] = f[y] PROVE x = y
    OBVIOUS
  <2>1. From(x, f[x]) /\ From(y, f[y]) /\ f[x] \in actors
    BY <1>3
  <2>2. CASE f[x].char # c
    BY <2>1, <2>2 DEF From
  <2>3. CASE f[x].char = c
    <3>1. x = Loaded(f[x]) /\ y = Loaded(f[y])
      BY <1>4, <2>1, <2>3 DEF From
    <3> QED  BY <3>1
  <2> QED  BY <2>2, <2>3
<1>6. \A x \in actors' :
        /\ x.char = f[x].char /\ x.account = f[x].account /\ x.key = f[x].key
        /\ x.handle = f[x].handle
        /\ x.inited => f[x].inited \/ ~ WrongData(f[x])
  BY <1>3 DEF From
<1> QED  BY <1>3, <1>5, <1>6 DEF ActorsStay

LEMMA StayAfterLogout ==
  ASSUME LoginAssumption, Base, LogicLogout
  PROVE  actors' \subseteq actors
BY LogoutHandled

\* Only a login makes an actor.
LEMMA ActorsStayOn ==
  ASSUME LoginAssumption, Base, [Next]_vars, ~ LogicCreate
  PROVE  ActorsStay
<1>1. CASE \E c \in Character : LogicLoaded(c)
  BY <1>1, ActorsFrom
<1>2. CASE LogicLogout
  BY <1>2, StayAfterLogout, ActorsGo
<1>3. CASE \E x \in actors : LogicClose(x)
  BY <1>3, ActorsGo DEF LogicClose
<1>4. CASE actors' = actors
  BY <1>4, ActorsGo
<1> QED  BY <1>1, <1>2, <1>3, <1>4, ActorSteps

LEMMA CharacterKept ==
  ASSUME LoginAssumption, Base, OneActorPerCharacter, [Next]_vars
  PROVE  OneActorPerCharacter'
<1>1. CASE ~ LogicCreate
  <2>1. PICK f \in [actors' -> actors] :
          /\ \A x \in actors' : x.char = f[x].char
          /\ \A x, y \in actors' : f[x] = f[y] => x = y
    BY <1>1, ActorsStayOn DEF ActorsStay
  <2> QED  BY <2>1 DEF OneActorPerCharacter
<1>2. CASE LogicCreate
  <2>1. PICK closed \in SUBSET actors : Handled(Head(logicMsgs), closed)
    BY <1>2, CreateHandled
  <2> DEFINE m == Head(logicMsgs)
             new == [handle |-> m.handle, char |-> m.char, account |-> m.account,
                     key |-> m.key, inited |-> FALSE]
  <2>2. \/ actors' = actors \ closed
        \/ /\ actors' = (actors \ closed) \cup {new}
           /\ \A x \in actors \ closed : x.char # m.char
    BY <2>1 DEF Handled
  <2>3. new.char = m.char
    OBVIOUS
  <2> HIDE DEF new, m
  <2> QED  BY <2>2, <2>3 DEF OneActorPerCharacter
<1> QED  BY <1>1, <1>2

-----------------------------------------------------------------------------
(* The users and the messages to the logic thread, but for a login *)

UserLogin == \E p \in DOMAIN users, a \in Account, c \in Character : GateLogin(p, a, c)

\* The queue r is what is left of q without its first n messages, and then more.
Moved(q, r, n, more) ==
  /\ n \in {0, 1} /\ n <= Len(q)
  /\ Len(r) = Len(q) - n + Len(more)
  /\ \A i \in 1 .. Len(q) - n : r[i] = q[i + n]
  /\ \A i \in 1 .. Len(more) : r[Len(q) - n + i] = more[i]

\* The account of a connection is being told to the gate thread.
Told(a, k) == GateChecked /\ Head(gateMsgs).account = a /\ Head(gateMsgs).key = k

\* Each user is as it was, but for an account it is told of, or is new.
UsersGoOn ==
  /\ conns' \in Nat /\ conns <= conns'
  /\ \A p \in Present' :
       \/ /\ p \in Present
          /\ users'[p].key = users[p].key /\ users'[p].char = users[p].char
          /\ users'[p].account = users[p].account \/ Told(users'[p].account, users[p].key)
          /\ users[p].asked => users'[p].asked
       \/ /\ p \notin Present
          /\ users'[p].key = conns + 1 /\ conns' = conns + 1
          /\ users'[p].char = NoChar /\ users'[p].account = NoAccount

\* The logouts are those of the users that go.
LogoutsSent(more) ==
  /\ \A p \in Present \ Present' : users[p].account # NoAccount =>
       \E i \in DOMAIN more : more[i] = Logout(users[p].account, users[p].key)
  /\ \A i \in DOMAIN more :
       more[i].key = 0 \/ \E p \in Present \ Present' : more[i].key = users[p].key

UsersQuiet ==
  /\ UsersGoOn /\ again' = again
  /\ \E n \in {0, 1}, more \in Seq(LogoutMsg) :
       /\ Moved(logicMsgs, logicMsgs', n, more) /\ LogoutsSent(more)
       /\ n = 1 => LogicCreate \/ LogicLogout

LEMMA MovedByMore ==
  ASSUME NEW S, NEW q \in Seq(S), NEW more \in Seq(S)
  PROVE  Moved(q, q \o more, 0, more)
BY ConcatAt DEF Moved

LEMMA MovedByNothing ==
  ASSUME NEW S, NEW q \in Seq(S)
  PROVE  Moved(q, q, 0, << >>)
BY DEF Moved

LEMMA MovedByTail ==
  ASSUME NEW S, NEW q \in Seq(S), q # << >>
  PROVE  Moved(q, Tail(q), 1, << >>)
BY TailAt DEF Moved

LEMMA MovedAt ==
  ASSUME NEW S, NEW q \in Seq(S), NEW r \in Seq(S), NEW more \in Seq(S), NEW n,
         Moved(q, r, n, more)
  PROVE  /\ \A i \in DOMAIN r : \/ i + n \in DOMAIN q /\ r[i] = q[i + n]
                                \/ /\ i > Len(q) - n /\ i - (Len(q) - n) \in DOMAIN more
                                   /\ r[i] = more[i - (Len(q) - n)]
         /\ \A i \in DOMAIN q : i > n => i - n \in DOMAIN r /\ r[i - n] = q[i]
         /\ \A i \in DOMAIN more : /\ Len(q) - n + i \in DOMAIN r /\ r[Len(q) - n + i] = more[i]
                                   /\ Len(q) - n + i > Len(q) - n
         /\ DOMAIN q = 1 .. Len(q) /\ DOMAIN r = 1 .. Len(r) /\ DOMAIN more = 1 .. Len(more)
         /\ Len(q) \in Nat /\ Len(r) \in Nat /\ Len(more) \in Nat /\ n \in {0, 1}
<1>1. /\ DOMAIN q = 1 .. Len(q) /\ DOMAIN r = 1 .. Len(r) /\ DOMAIN more = 1 .. Len(more)
      /\ Len(q) \in Nat /\ Len(r) \in Nat /\ Len(more) \in Nat
  OBVIOUS
<1>2. /\ n \in {0, 1} /\ n <= Len(q)
      /\ Len(r) = Len(q) - n + Len(more)
      /\ \A i \in 1 .. Len(q) - n : r[i] = q[i + n]
      /\ \A i \in 1 .. Len(more) : r[Len(q) - n + i] = more[i]
  BY DEF Moved
<1>3. \A i \in DOMAIN r : \/ i + n \in DOMAIN q /\ r[i] = q[i + n]
                          \/ /\ i > Len(q) - n /\ i - (Len(q) - n) \in DOMAIN more
                             /\ r[i] = more[i - (Len(q) - n)]
  <2> SUFFICES ASSUME NEW i \in 1 .. Len(r)
               PROVE  \/ i + n \in DOMAIN q /\ r[i] = q[i + n]
                      \/ /\ i > Len(q) - n /\ i - (Len(q) - n) \in DOMAIN more
                         /\ r[i] = more[i - (Len(q) - n)]
    BY <1>1
  <2>1. CASE i <= Len(q) - n
    <3>1. i \in 1 .. Len(q) - n /\ i + n \in 1 .. Len(q)
      BY <1>1, <1>2, <2>1
    <3> QED  BY <1>1, <1>2, <3>1
  <2>2. CASE i > Len(q) - n
    <3> DEFINE j == i - (Len(q) - n)
    <3>1. j \in 1 .. Len(more) /\ Len(q) - n + j = i
      BY <1>1, <1>2, <2>2
    <3> HIDE DEF j
    <3>2. r[i] = more[j]
      BY <1>2, <3>1
    <3> QED  BY <1>1, <2>2, <3>1, <3>2 DEF j
  <2> QED  BY <1>1, <1>2, <2>1, <2>2
<1>4. \A i \in DOMAIN q : i > n => i - n \in DOMAIN r /\ r[i - n] = q[i]
  <2> SUFFICES ASSUME NEW i \in 1 .. Len(q), i > n PROVE i - n \in DOMAIN r /\ r[i - n] = q[i]
    BY <1>1
  <2>1. i - n \in 1 .. Len(q) - n /\ i - n \in 1 .. Len(r) /\ (i - n) + n = i
    BY <1>1, <1>2
  <2> QED  BY <1>1, <1>2, <2>1
<1>5. \A i \in DOMAIN more : /\ Len(q) - n + i \in DOMAIN r /\ r[Len(q) - n + i] = more[i]
                             /\ Len(q) - n + i > Len(q) - n
  BY <1>1, <1>2
<1> QED  BY <1>1, <1>2, <1>3, <1>4, <1>5

LEMMA LeavingQuiet ==
  ASSUME LoginAssumption, Base, Leaving, conns' = conns, again' = again
  PROVE  UsersQuiet
<1>1. \A p \in Present' : p \in Present /\ users'[p] = users[p]
  BY DEF Leaving
<1>2. PICK more \in Seq(LogoutMsg) :
       /\ logicMsgs' = logicMsgs \o more
       /\ \A p \in Present \ Present' : users[p].account # NoAccount =>
            \E i \in DOMAIN more : more[i] = Logout(users[p].account, users[p].key)
       /\ \A i \in DOMAIN more :
            more[i].key = 0 \/ \E p \in Present \ Present' : more[i].key = users[p].key
  BY DEF Leaving
<1>3. UsersGoOn
  BY <1>1 DEF UsersGoOn, Base, Types
<1>4. LogoutsSent(more)
  BY <1>2 DEF LogoutsSent
<1>5. Moved(logicMsgs, logicMsgs', 0, more)
  <2>1. logicMsgs \in Seq(LogicMsg) /\ more \in Seq(LogicMsg)
    BY DEF Base, Types, LogicMsg
  <2> QED  BY <1>2, <2>1, MovedByMore
<1> QED  BY <1>3, <1>4, <1>5 DEF UsersQuiet

LEMMA StayingQuiet ==
  ASSUME LoginAssumption, Base, Staying, conns' = conns, again' = again,
         \A p \in Present :
           /\ users'[p].char = users[p].char
           /\ users'[p].account = users[p].account \/ Told(users'[p].account, users[p].key)
           /\ users[p].asked => users'[p].asked,
         NEW more \in Seq(LogoutMsg), logicMsgs' = logicMsgs \o more,
         \A i \in DOMAIN more : more[i].key = 0
  PROVE  UsersQuiet
<1>1. Present' = Present /\ \A p \in Present : users'[p].key = users[p].key
  BY DEF Staying
<1>2. UsersGoOn
  BY <1>1 DEF UsersGoOn, Base, Types
<1>3. LogoutsSent(more)
  BY <1>1 DEF LogoutsSent
<1>4. Moved(logicMsgs, logicMsgs', 0, more)
  <2>1. logicMsgs \in Seq(LogicMsg) /\ more \in Seq(LogicMsg)
    BY DEF Base, Types, LogicMsg
  <2> QED  BY <2>1, MovedByMore
<1> QED  BY <1>2, <1>3, <1>4 DEF UsersQuiet

LEMMA EnteringQuiet ==
  ASSUME LoginAssumption, Base, Entering, logicMsgs' = logicMsgs, again' = again
  PROVE  UsersQuiet
<1>1. PICK q \in DOMAIN users' :
       /\ q \notin Present /\ Present' = Present \cup {q}
       /\ users'[q].key = conns' /\ users'[q].char = NoChar /\ users'[q].account = NoAccount
       /\ \A p \in Present : users'[p] = users[p]
  BY DEF Entering
<1>2. conns' = conns + 1 /\ conns \in Nat /\ conns' \in Nat /\ conns <= conns'
  BY DEF Entering, Base, Types
<1>3. UsersGoOn
  BY <1>1, <1>2 DEF UsersGoOn
<1>4. LogoutsSent(<< >>)
  BY <1>1 DEF LogoutsSent
<1>5. Moved(logicMsgs, logicMsgs', 0, << >>)
  BY MovedByNothing DEF Base, Types
<1>6. << >> \in Seq(LogoutMsg)
  OBVIOUS
<1>7. \E more \in Seq(LogoutMsg) : Moved(logicMsgs, logicMsgs', 0, more) /\ LogoutsSent(more)
  BY <1>4, <1>5, <1>6
<1> QED  BY <1>3, <1>7 DEF UsersQuiet

LEMMA SameQuiet ==
  ASSUME LoginAssumption, Base, users' = users, conns' = conns, again' = again,
         \/ logicMsgs' = logicMsgs
         \/ logicMsgs # << >> /\ logicMsgs' = Tail(logicMsgs) /\ (LogicCreate \/ LogicLogout)
  PROVE  UsersQuiet
<1>1. Present' = Present
  BY DEF Present
<1>2. UsersGoOn
  BY <1>1 DEF UsersGoOn, Base, Types
<1>3. LogoutsSent(<< >>)
  BY <1>1 DEF LogoutsSent
<1>4. << >> \in Seq(LogoutMsg)
  OBVIOUS
<1>5. CASE logicMsgs' = logicMsgs
  <2>1. Moved(logicMsgs, logicMsgs', 0, << >>)
    BY <1>5, MovedByNothing DEF Base, Types
  <2>2. \E more \in Seq(LogoutMsg) : Moved(logicMsgs, logicMsgs', 0, more) /\ LogoutsSent(more)
    BY <1>3, <1>4, <2>1
  <2> QED  BY <1>2, <2>2 DEF UsersQuiet
<1>6. CASE logicMsgs # << >> /\ logicMsgs' = Tail(logicMsgs) /\ (LogicCreate \/ LogicLogout)
  <2>1. Moved(logicMsgs, logicMsgs', 1, << >>)
    BY <1>6, MovedByTail DEF Base, Types
  <2>2. \E more \in Seq(LogoutMsg) : Moved(logicMsgs, logicMsgs', 1, more) /\ LogoutsSent(more)
    BY <1>3, <1>4, <2>1
  <2> QED  BY <1>2, <1>6, <2>2 DEF UsersQuiet
<1> QED  BY <1>5, <1>6

LEMMA UsersGo ==
  ASSUME LoginAssumption, Base, [Next]_vars, ~ UserLogin
  PROVE  UsersQuiet
<1>1. << >> \in Seq(LogoutMsg) /\ \A i \in DOMAIN << >> : << >>[i].key = 0
  OBVIOUS
<1>2. logicMsgs \o << >> = logicMsgs
  BY DEF Base, Types
<1>3. CASE \E f \in Fd : GateOpen(f)
  <2>1. Entering /\ logicMsgs' = logicMsgs /\ again' = again
    BY <1>3, OpenEnters DEF GateOpen
  <2> QED  BY <2>1, EnteringQuiet
<1>4. CASE \E p \in DOMAIN users : GateClose(p)
  BY <1>4, GateCloseLeaves, LeavingQuiet DEF GateClose
<1>5. CASE \E p \in DOMAIN users, a \in Account : GateCheck(p, a)
  <2>1. PICK p \in DOMAIN users, a \in Account : GateCheck(p, a)
    BY <1>5
  <2>2. /\ Staying /\ conns' = conns /\ again' = again /\ logicMsgs' = logicMsgs \o << >>
        /\ \A q \in Present : /\ users'[q].char = users[q].char
                              /\ users'[q].account = users[q].account
                              /\ users[q].asked => users'[q].asked
    BY <1>2, <2>1, CheckStays DEF GateCheck
  <2> QED  BY <1>1, <2>2, StayingQuiet
<1>6. CASE GateLost
  BY <1>6, LostLeaves, LeavingQuiet DEF GateLost
<1>7. CASE GateChecked
  <2> DEFINE m == Head(gateMsgs)
  <2>1. /\ Staying
        /\ \A p \in Present : /\ users'[p].char = users[p].char
                              /\ users[p].asked => users'[p].asked
                              /\ users[p].key # m.key => users'[p] = users[p]
                              /\ users[p].key = m.key => users'[p].account = m.account
    BY <1>7, CheckedStays
  <2>2. conns' = conns /\ again' = again /\ logicMsgs' = logicMsgs \o << >>
    BY <1>2, <1>7 DEF GateChecked
  <2>4. \A p \in Present :
          users'[p].account = users[p].account \/ Told(users'[p].account, users[p].key)
    BY <1>7, <2>1 DEF Told
  <2> HIDE DEF m
  <2> QED  BY <1>1, <2>1, <2>2, <2>4, StayingQuiet
<1>8. CASE GateKick
  BY <1>8, SameQuiet DEF GateKick, gateVars
<1>9. CASE GateCloseSock
  BY <1>9, GateCloseSockLeaves, LeavingQuiet DEF GateCloseSock
<1>10. CASE GateSetHandle
  <2>1. CASE Head(gateMsgs).handle = NoActor
    BY <1>10, <2>1, NoHandleLeaves, LeavingQuiet DEF GateSetHandle
  <2>2. CASE Head(gateMsgs).handle # NoActor
    <3> DEFINE out == Logout(Head(gateMsgs).account, 0)
    <3>1. /\ Staying
          /\ \A p \in Present : /\ users'[p].char = users[p].char
                                /\ users'[p].account = users[p].account
                                /\ users[p].asked => users'[p].asked
          /\ \/ logicMsgs' = logicMsgs \o << >>
             \/ logicMsgs' = logicMsgs \o <<out>>
      BY <1>10, <2>2, SetHandleStays
    <3>2. <<out>> \in Seq(LogoutMsg) /\ \A i \in DOMAIN <<out>> : <<out>>[i].key = 0
      <4>1. Head(gateMsgs) \in GateMsg /\ Head(gateMsgs).type = "set"
        BY <1>10, GateHead DEF GateSetHandle, IsNext
      <4>2. Head(gateMsgs).account \in Account
        BY <4>1, GateMsgKinds
      <4>3. out \in LogoutMsg /\ out.key = 0
        BY <4>2 DEF Logout, LogoutMsg, LoginAssumption
      <4> HIDE DEF out
      <4> QED  BY <4>3
    <3>3. conns' = conns /\ again' = again
      BY <1>10 DEF GateSetHandle
    <3> HIDE DEF out
    <3>4. CASE logicMsgs' = logicMsgs \o << >>
      BY <1>1, <3>1, <3>3, <3>4, StayingQuiet
    <3>5. CASE logicMsgs' = logicMsgs \o <<out>>
      BY <3>1, <3>2, <3>3, <3>5, StayingQuiet
    <3> QED  BY <3>1, <3>4, <3>5
  <2> QED  BY <2>1, <2>2
<1>11. CASE LogicCreate
  <2>1. logicMsgs # << >> /\ logicMsgs' = Tail(logicMsgs) /\ users' = users /\ conns' = conns /\ again' = again
    BY <1>11 DEF LogicCreate, IsNext, gateVars
  <2> QED  BY <1>11, <2>1, SameQuiet
<1>12. CASE LogicLogout
  <2>1. logicMsgs # << >> /\ logicMsgs' = Tail(logicMsgs) /\ users' = users /\ conns' = conns /\ again' = again
    BY <1>12 DEF LogicLogout, IsNext, gateVars
  <2> QED  BY <1>12, <2>1, SameQuiet
<1>13. CASE UNCHANGED <<gateVars, logicMsgs>>
  BY <1>13, SameQuiet DEF gateVars
<1>14. CASE \/ \E c \in Character : LogicLoaded(c)
            \/ \E x \in actors : LogicClose(x)
            \/ \E s \in closeReqs : ClientClose(s)
            \/ ClientReceive
            \/ \E s \in checks : ServerOpen(s[1], s[2])
            \/ \E s \in ssCloses : ServerClose(s)
            \/ vars' = vars
  <2>1. UNCHANGED <<gateVars, logicMsgs>>
    BY <1>14 DEF LogicLoaded, LogicClose, ClientClose, ClientReceive, ServerOpen, ServerClose, vars
  <2> QED  BY <1>13, <2>1
<1> QED  BY <1>3, <1>4, <1>5, <1>6, <1>7, <1>8, <1>9, <1>10, <1>11, <1>12, <1>14, Steps
         DEF UserLogin

-----------------------------------------------------------------------------
(* Logins *)

\* No message but a login is new, and that only when one logs in.
LEMMA QuietMessages ==
  ASSUME LoginAssumption, Base, Base', NEW n, NEW more \in Seq(LogoutMsg),
         Moved(logicMsgs, logicMsgs', n, more)
  PROVE  /\ \A i \in DOMAIN logicMsgs' :
              \/ i + n \in DOMAIN logicMsgs /\ logicMsgs'[i] = logicMsgs[i + n]
              \/ /\ i > Len(logicMsgs) - n /\ logicMsgs'[i].type = "logout"
                 /\ \E j \in DOMAIN more : logicMsgs'[i] = more[j]
         /\ \A i \in DOMAIN logicMsgs' : IsCreate(i)' => IsCreate(i + n) /\ i + n <= Len(logicMsgs)
         /\ \A i \in DOMAIN logicMsgs : i > n => i - n \in DOMAIN logicMsgs' /\ logicMsgs'[i - n] = logicMsgs[i]
         /\ \A j \in DOMAIN more : \E i \in DOMAIN logicMsgs' :
              i > Len(logicMsgs) - n /\ logicMsgs'[i] = more[j]
         /\ DOMAIN logicMsgs = 1 .. Len(logicMsgs) /\ DOMAIN logicMsgs' = 1 .. Len(logicMsgs')
         /\ Len(logicMsgs) \in Nat /\ Len(logicMsgs') \in Nat /\ n \in {0, 1}
<1>1. logicMsgs \in Seq(LogicMsg) /\ logicMsgs' \in Seq(LogicMsg) /\ more \in Seq(LogicMsg)
  BY DEF Base, Types, LogicMsg
<1>2. \A j \in DOMAIN more : more[j].type = "logout"
  <2>1. \A j \in DOMAIN more : more[j] \in LogoutMsg
    OBVIOUS
  <2> QED  BY <2>1 DEF LogoutMsg
<1>3. /\ \A i \in DOMAIN logicMsgs' :
           \/ i + n \in DOMAIN logicMsgs /\ logicMsgs'[i] = logicMsgs[i + n]
           \/ /\ i > Len(logicMsgs) - n /\ i - (Len(logicMsgs) - n) \in DOMAIN more
              /\ logicMsgs'[i] = more[i - (Len(logicMsgs) - n)]
      /\ \A i \in DOMAIN logicMsgs : i > n => i - n \in DOMAIN logicMsgs' /\ logicMsgs'[i - n] = logicMsgs[i]
      /\ \A i \in DOMAIN more : /\ Len(logicMsgs) - n + i \in DOMAIN logicMsgs'
                                /\ logicMsgs'[Len(logicMsgs) - n + i] = more[i]
                                /\ Len(logicMsgs) - n + i > Len(logicMsgs) - n
      /\ DOMAIN logicMsgs = 1 .. Len(logicMsgs) /\ DOMAIN logicMsgs' = 1 .. Len(logicMsgs')
      /\ Len(logicMsgs) \in Nat /\ Len(logicMsgs') \in Nat /\ n \in {0, 1}
  BY <1>1, MovedAt
<1>4. \A i \in DOMAIN logicMsgs' :
        \/ i + n \in DOMAIN logicMsgs /\ logicMsgs'[i] = logicMsgs[i + n]
        \/ /\ i > Len(logicMsgs) - n /\ logicMsgs'[i].type = "logout"
           /\ \E j \in DOMAIN more : logicMsgs'[i] = more[j]
  BY <1>2, <1>3
<1>5. \A i \in DOMAIN logicMsgs' : IsCreate(i)' => IsCreate(i + n) /\ i + n <= Len(logicMsgs)
  BY <1>3, <1>4 DEF IsCreate
<1> QED  BY <1>3, <1>4, <1>5

LEMMA QuietUsers ==
  ASSUME LoginAssumption, Base, Base', UsersGoOn
  PROVE  /\ \A p \in Present' : users'[p].key <= conns =>
              /\ p \in Present /\ users'[p].key = users[p].key /\ users'[p].char = users[p].char
         /\ \A p \in Present' : users'[p].key # 0
         /\ conns \in Nat /\ conns' \in Nat /\ conns <= conns'
         /\ \A p \in Present : users[p].key \in 1 .. conns
         /\ \A p \in Present \ Present', q \in Present' : users'[q].key # users[p].key
<1>1. conns \in Nat /\ conns' \in Nat /\ conns <= conns'
  BY DEF Base, Types, UsersGoOn
<1>2. \A p \in Present : users[p].key \in 1 .. conns
  BY DEF Base, KeysUnique
<1>3. \A p \in Present' : users'[p].key \in 1 .. conns'
  BY DEF Base, KeysUnique
<1>4. \A p \in Present' :
        \/ p \in Present /\ users'[p].key = users[p].key /\ users'[p].char = users[p].char
        \/ p \notin Present /\ users'[p].key = conns + 1
  BY DEF UsersGoOn
<1>5. \A p \in Present' : users'[p].key <= conns =>
        p \in Present /\ users'[p].key = users[p].key /\ users'[p].char = users[p].char
  BY <1>1, <1>4
<1>6. \A p \in Present' : users'[p].key # 0
  BY <1>1, <1>3
<1>7. \A p \in Present \ Present', q \in Present' : users'[q].key # users[p].key
  <2> SUFFICES ASSUME NEW p \in Present, p \notin Present', NEW q \in Present',
                      users'[q].key = users[p].key
               PROVE  FALSE
    OBVIOUS
  <2>1. q \in Present /\ users[q].key = users[p].key
    <3>1. users[p].key # conns + 1
      BY <1>1, <1>2
    <3> QED  BY <1>4, <3>1
  <2> QED  BY <2>1 DEF Base, KeysUnique
<1> QED  BY <1>1, <1>2, <1>5, <1>6, <1>7

LEMMA QuietLogins ==
  ASSUME LoginAssumption, Base, Base', LoginsOnce, UsersQuiet, ActorsStay
  PROVE  LoginsOnce'
<1>1. PICK n \in {0, 1}, more \in Seq(LogoutMsg) :
         Moved(logicMsgs, logicMsgs', n, more) /\ LogoutsSent(more)
  BY DEF UsersQuiet
<1>2. /\ \A i \in DOMAIN logicMsgs' :
           \/ i + n \in DOMAIN logicMsgs /\ logicMsgs'[i] = logicMsgs[i + n]
           \/ /\ i > Len(logicMsgs) - n /\ logicMsgs'[i].type = "logout"
              /\ \E j \in DOMAIN more : logicMsgs'[i] = more[j]
      /\ \A i \in DOMAIN logicMsgs' : IsCreate(i)' => IsCreate(i + n) /\ i + n <= Len(logicMsgs)
      /\ DOMAIN logicMsgs = 1 .. Len(logicMsgs) /\ DOMAIN logicMsgs' = 1 .. Len(logicMsgs')
      /\ Len(logicMsgs) \in Nat /\ Len(logicMsgs') \in Nat
  BY <1>1, QuietMessages
<1>3. /\ \A p \in Present' : users'[p].key <= conns =>
           /\ p \in Present /\ users'[p].key = users[p].key /\ users'[p].char = users[p].char
      /\ \A p \in Present' : users'[p].key # 0
      /\ conns \in Nat /\ conns' \in Nat /\ conns <= conns'
      /\ \A p \in Present : users[p].key \in 1 .. conns
      /\ \A p \in Present \ Present', q \in Present' : users'[q].key # users[p].key
  BY QuietUsers DEF UsersQuiet
<1>4. PICK f \in [actors' -> actors] :
        /\ \A x \in actors' : x.key = f[x].key
        /\ \A x, y \in actors' : f[x] = f[y] => x = y
  BY DEF ActorsStay
<1>5. \A i \in DOMAIN logicMsgs' : IsCreate(i)' => logicMsgs'[i] = logicMsgs[i + n]
  BY <1>2 DEF IsCreate
<1>14. again' = again
  BY DEF UsersQuiet
<1>6. \A k : LoggingIn(k)' => LoggingIn(k)
  <2> SUFFICES ASSUME NEW k, LoggingIn(k)' PROVE LoggingIn(k)
    OBVIOUS
  <2>1. CASE \E x \in actors' : x.key = k
    BY <1>4, <2>1 DEF LoggingIn
  <2>2. CASE \E i \in DOMAIN logicMsgs' : IsCreate(i)' /\ logicMsgs'[i].key = k
    <3>1. PICK i \in DOMAIN logicMsgs' : IsCreate(i)' /\ logicMsgs'[i].key = k
      BY <2>2
    <3>2. IsCreate(i + n) /\ logicMsgs[i + n].key = k
      BY <1>2, <1>5, <3>1
    <3>3. i + n \in DOMAIN logicMsgs
      BY <3>2 DEF IsCreate
    <3> QED  BY <3>2, <3>3 DEF LoggingIn
  <2> QED  BY <2>1, <2>2 DEF LoggingIn
<1>7. ASSUME NEW k \in Key, LoggingIn(k)'
      PROVE  k <= conns' /\ \A p \in Present' : users'[p].key = k => users'[p].char # NoChar
  <2>1. k \in Nat /\ k <= conns /\ \A p \in Present : users[p].key = k => users[p].char # NoChar
    BY <1>6, <1>7 DEF LoginsOnce, Key, HasKey
  <2>2. k <= conns'
    BY <1>3, <2>1
  <2>3. \A p \in Present' : users'[p].key = k =>
          p \in Present /\ users[p].key = k /\ users'[p].char = users[p].char
    BY <1>3, <2>1
  <2> QED  BY <2>1, <2>2, <2>3
<1>8. ASSUME NEW i \in DOMAIN logicMsgs', NEW j \in DOMAIN logicMsgs', IsCreate(i)', IsCreate(j)',
             logicMsgs'[i].key = logicMsgs'[j].key, logicMsgs'[i].key \notin again
      PROVE  i = j
  <2>1. /\ IsCreate(i + n) /\ IsCreate(j + n) /\ i + n \in DOMAIN logicMsgs /\ j + n \in DOMAIN logicMsgs
        /\ logicMsgs[i + n].key = logicMsgs[j + n].key
    BY <1>2, <1>5, <1>8 DEF IsCreate
  <2>2. i + n = j + n
    BY <1>5, <1>8, <2>1 DEF LoginsOnce
  <2> QED  BY <1>2, <2>2
<1>9. ASSUME NEW i \in DOMAIN logicMsgs', NEW x \in actors', IsCreate(i)', x.key \notin again
      PROVE  logicMsgs'[i].key # x.key
  <2>1. IsCreate(i + n) /\ i + n \in DOMAIN logicMsgs /\ logicMsgs'[i] = logicMsgs[i + n]
    BY <1>2, <1>5, <1>9 DEF IsCreate
  <2>2. f[x] \in actors /\ x.key = f[x].key
    BY <1>4
  <2> QED  BY <1>9, <2>1, <2>2 DEF LoginsOnce
<1>10. ASSUME NEW x \in actors', NEW y \in actors', x.key = y.key, x.key \notin again
       PROVE  x = y
  <2>1. f[x] = f[y]
    BY <1>4, <1>10 DEF LoginsOnce
  <2> QED  BY <1>4, <2>1
<1>11. ASSUME NEW i \in DOMAIN logicMsgs', IsLogout(i)'
       PROVE  /\ logicMsgs'[i].key <= conns'
              /\ \A p \in Present' : users'[p].key # logicMsgs'[i].key
              /\ \A j \in i + 1 .. Len(logicMsgs') : IsCreate(j)' => logicMsgs'[j].key # logicMsgs'[i].key
  <2>1. \A j \in i + 1 .. Len(logicMsgs') :
          j \in DOMAIN logicMsgs' /\ i + n + 1 <= j + n /\ j > i /\ j \in Nat
    BY <1>2
  <2>2. CASE i + n \in DOMAIN logicMsgs /\ logicMsgs'[i] = logicMsgs[i + n]
    <3> DEFINE k == logicMsgs[i + n].key
    <3>1. IsLogout(i + n)
      BY <1>11, <2>2 DEF IsLogout
    <3>2. /\ k <= conns /\ HasKey(k) = {}
          /\ \A j \in i + n + 1 .. Len(logicMsgs) : IsCreate(j) => logicMsgs[j].key # k
      BY <2>2, <3>1 DEF LoginsOnce
    <3>3. k \in Nat
      <4>1. logicMsgs[i + n] \in LogicMsg /\ logicMsgs[i + n].type = "logout"
        BY <2>2, <3>1 DEF IsLogout, Base, Types
      <4> QED  BY <4>1, LogicMsgKinds
    <3> HIDE DEF k
    <3>4. k <= conns' /\ \A p \in Present' : users'[p].key # k
      <4>1. k <= conns'
        BY <1>3, <3>2, <3>3
      <4>2. \A p \in Present : users[p].key # k
        BY <3>2 DEF HasKey
      <4> QED  BY <1>3, <3>2, <4>1, <4>2
    <3>5. \A j \in i + 1 .. Len(logicMsgs') : IsCreate(j)' => logicMsgs'[j].key # k
      <4> SUFFICES ASSUME NEW j \in i + 1 .. Len(logicMsgs'), IsCreate(j)' PROVE logicMsgs'[j].key # k
        OBVIOUS
      <4>1. IsCreate(j + n) /\ j + n <= Len(logicMsgs) /\ logicMsgs'[j] = logicMsgs[j + n]
        BY <1>2, <1>5, <2>1
      <4>2. j + n \in i + n + 1 .. Len(logicMsgs)
        BY <1>2, <2>1, <4>1
      <4> QED  BY <3>2, <4>1, <4>2
    <3> QED  BY <2>2, <3>4, <3>5 DEF k
  <2>3. CASE i > Len(logicMsgs) - n /\ \E j \in DOMAIN more : logicMsgs'[i] = more[j]
    <3> DEFINE k == logicMsgs'[i].key
    <3>1. k = 0 \/ \E p \in Present \ Present' : k = users[p].key
      BY <1>1, <2>3 DEF LogoutsSent
    <3> HIDE DEF k
    <3>2. k <= conns' /\ \A p \in Present' : users'[p].key # k
      BY <1>3, <3>1
    <3>3. \A j \in i + 1 .. Len(logicMsgs') : ~ IsCreate(j)'
      <4> SUFFICES ASSUME NEW j \in i + 1 .. Len(logicMsgs'), IsCreate(j)' PROVE FALSE
        OBVIOUS
      <4>1. j + n <= Len(logicMsgs) /\ j > i /\ j \in Nat
        BY <1>2, <2>1
      <4> QED  BY <1>2, <2>3, <4>1
    <3> QED  BY <3>2, <3>3 DEF k
  <2> QED  BY <1>2, <2>2, <2>3
<1>12. \A k \in Key : LoggingIn(k)' => k <= conns' /\ \A p \in HasKey(k)' : users'[p].char # NoChar
  BY <1>7 DEF HasKey
<1>13. \A i \in DOMAIN logicMsgs' : IsLogout(i)' =>
         /\ logicMsgs'[i].key <= conns'
         /\ {p \in Present' : users'[p].key = logicMsgs'[i].key} = {}
         /\ \A j \in i + 1 .. Len(logicMsgs') : IsCreate(j)' => logicMsgs'[j].key # logicMsgs'[i].key
  BY <1>11
<1> QED  BY <1>8, <1>9, <1>10, <1>12, <1>13, <1>14 DEF LoginsOnce, HasKey

\* The notes for the properties only grow.
LEMMA NotesGrow ==
  ASSUME LoginAssumption, Base, [Next]_vars
  PROVE  /\ again \subseteq again' /\ granted \subseteq granted'
         /\ \A a : Calm(a)' => Calm(a)
<1>1. again \subseteq again'
  <2>1. CASE UserLogin
    BY <2>1 DEF UserLogin, GateLogin
  <2>2. CASE ~ UserLogin
    BY <2>2, UsersGo DEF UsersQuiet
  <2> QED  BY <2>1, <2>2
<1>2. granted \subseteq granted'
  <2>1. CASE \E s \in checks : ServerOpen(s[1], s[2])
    BY <2>1 DEF ServerOpen
  <2>2. CASE ~ \E s \in checks : ServerOpen(s[1], s[2])
    <3>1. granted' = granted
      BY <2>2, Steps DEF vars, serverVars, GateOpen, GateClose, GateCheck, GateLogin, GateLost, GateChecked,
               GateKick, GateCloseSock, GateSetHandle, LogicCreate, LogicLogout, LogicLoaded, LogicClose,
               ClientClose, ClientReceive, ServerClose
    <3> QED  BY <3>1
  <2> QED  BY <2>1, <2>2
<1> QED  BY <1>1, <1>2 DEF Calm

LEMMA QuietAccounts ==
  ASSUME OneActorWhenCalm, ActorsStay, \A a : Calm(a)' => Calm(a)
  PROVE  OneActorWhenCalm'
<1>1. PICK f \in [actors' -> actors] :
        /\ \A x \in actors' : x.account = f[x].account
        /\ \A x, y \in actors' : f[x] = f[y] => x = y
  BY DEF ActorsStay
<1> QED  BY <1>1 DEF OneActorWhenCalm

\* A player logs in: the new message, and the user.
LEMMA LoginAppends ==
  ASSUME LoginAssumption, Base, NEW p \in DOMAIN users, NEW a \in Account,
         NEW c \in Character, GateLogin(p, a, c)
  PROVE  /\ p \in Present /\ c # NoChar /\ again \subseteq again'
         /\ users[p].char = NoChar \/ users[p].key \in again'
         /\ Present' = Present /\ \A q \in Present : users'[q].key = users[q].key
         /\ \A q \in Present : q # p => users'[q] = users[q]
         /\ users'[p].account = a /\ users'[p].char = c /\ users'[p].handle = users[p].handle
         /\ users'[p].asked = users[p].asked
         /\ Len(logicMsgs) \in Nat /\ DOMAIN logicMsgs = 1 .. Len(logicMsgs)
         /\ DOMAIN logicMsgs' = 1 .. Len(logicMsgs) + 1 /\ Len(logicMsgs') = Len(logicMsgs) + 1
         /\ \A i \in 1 .. Len(logicMsgs) : logicMsgs'[i] = logicMsgs[i]
         /\ LET m == logicMsgs'[Len(logicMsgs) + 1]
            IN  /\ m.type = "create" /\ m.key = users[p].key /\ m.account = a /\ m.char = c
                /\ m.pos = p
         /\ actors' = actors /\ conns' = conns
<1> DEFINE m == [type |-> "create", handle |-> logins + 1, char |-> c,
                 pos |-> p, account |-> a, key |-> users[p].key]
<1>1. /\ p \in Present /\ again \subseteq again'
      /\ users[p].char = NoChar \/ users[p].key \in again'
      /\ actors' = actors /\ conns' = conns /\ logicMsgs' = Append(logicMsgs, m)
  BY DEF GateLogin, logicVars
<1>2. c # NoChar
  BY DEF LoginAssumption
<1>3. /\ Staying
      /\ users'[p].account = a /\ users'[p].char = c /\ users'[p].handle = users[p].handle
      /\ users'[p].asked = users[p].asked
      /\ \A q \in Present : q # p => users'[q] = users[q]
  BY LoginStays
<1>4. Present' = Present /\ \A q \in Present : users'[q].key = users[q].key
  BY <1>3 DEF Staying
<1>5. /\ m.type = "create" /\ m.key = users[p].key /\ m.account = a /\ m.char = c /\ m.pos = p
  OBVIOUS
<1> HIDE DEF m
<1>6. /\ Len(logicMsgs) \in Nat /\ DOMAIN logicMsgs = 1 .. Len(logicMsgs)
      /\ DOMAIN logicMsgs' = 1 .. Len(logicMsgs) + 1 /\ Len(logicMsgs') = Len(logicMsgs) + 1
      /\ \A i \in 1 .. Len(logicMsgs) : logicMsgs'[i] = logicMsgs[i]
      /\ logicMsgs'[Len(logicMsgs) + 1] = m
  BY <1>1 DEF Base, Types
<1> QED  BY <1>1, <1>2, <1>3, <1>4, <1>5, <1>6

LEMMA LoginLogins ==
  ASSUME LoginAssumption, Base, LoginsOnce, NEW p \in DOMAIN users, NEW a \in Account,
         NEW c \in Character, GateLogin(p, a, c)
  PROVE  LoginsOnce'
<1> DEFINE k0 == users[p].key
           n == Len(logicMsgs)
<1>1. /\ p \in Present /\ c # NoChar /\ again \subseteq again'
      /\ users[p].char = NoChar \/ k0 \in again'
      /\ Present' = Present /\ \A q \in Present : users'[q].key = users[q].key
      /\ \A q \in Present : q # p => users'[q] = users[q]
      /\ users'[p].char = c
      /\ n \in Nat /\ DOMAIN logicMsgs = 1 .. n
      /\ DOMAIN logicMsgs' = 1 .. n + 1 /\ Len(logicMsgs') = n + 1
      /\ \A i \in 1 .. n : logicMsgs'[i] = logicMsgs[i]
      /\ logicMsgs'[n + 1].type = "create" /\ logicMsgs'[n + 1].key = k0
      /\ actors' = actors /\ conns' = conns
  BY LoginAppends
<1>2. k0 \in Key /\ k0 <= conns /\ k0 # 0 /\ conns \in Nat
  <2>1. k0 \in 1 .. conns /\ conns \in 0 .. MaxConns
    BY <1>1 DEF Base, Types, KeysUnique
  <2> HIDE DEF k0
  <2> QED  BY <2>1 DEF Key, LoginAssumption
<1>3. ~ LoggingIn(k0) \/ k0 \in again'
  <2>1. p \in HasKey(k0)
    BY <1>1 DEF HasKey
  <2> QED  BY <1>1, <1>2, <2>1 DEF LoginsOnce
<1>4. \A i \in 1 .. n : IsLogout(i) => logicMsgs[i].key # k0
  BY <1>1 DEF LoginsOnce, HasKey
<1>5. \A i \in 1 .. n : IsCreate(i) => logicMsgs[i].key # k0 \/ k0 \in again'
  BY <1>1, <1>3 DEF LoggingIn
<1>6. \A x \in actors : x.key # k0 \/ k0 \in again'
  BY <1>3 DEF LoggingIn
<1>7. \A q \in Present : users[q].key = k0 => q = p
  BY <1>1 DEF Base, KeysUnique
<1> HIDE DEF k0, n
<1>8. \A i \in DOMAIN logicMsgs' : i = n + 1 \/ i \in 1 .. n
  BY <1>1
<1>9. \A i \in 1 .. n : (IsCreate(i)' <=> IsCreate(i)) /\ (IsLogout(i)' <=> IsLogout(i))
  <2>1. \A i \in 1 .. n : i \in DOMAIN logicMsgs /\ i \in DOMAIN logicMsgs' /\ logicMsgs'[i] = logicMsgs[i]
    BY <1>1
  <2> QED  BY <2>1 DEF IsCreate, IsLogout
<1>10. \A i \in DOMAIN logicMsgs' : i = n + 1 => IsCreate(i)' /\ ~ IsLogout(i)'
  <2>1. \A i \in DOMAIN logicMsgs' : logicMsgs'[i].type = "create" => IsCreate(i)' /\ ~ IsLogout(i)'
    BY DEF IsCreate, IsLogout
  <2> QED  BY <1>1, <2>1
<1>11. \A k \in Key : LoggingIn(k)' => k <= conns' /\ \A q \in HasKey(k)' : users'[q].char # NoChar
  <2> SUFFICES ASSUME NEW k \in Key, LoggingIn(k)'
               PROVE  k <= conns /\ \A q \in Present : users'[q].key = k => users'[q].char # NoChar
    BY <1>1 DEF HasKey
  <2>1. CASE k = k0
    <3>1. \A q \in Present : users'[q].key = k => q = p
      BY <1>1, <1>7, <2>1
    <3> QED  BY <1>1, <1>2, <2>1, <3>1
  <2>2. CASE k # k0
    <3>1. LoggingIn(k)
      <4>1. CASE \E x \in actors : x.key = k
        BY <4>1 DEF LoggingIn
      <4>2. CASE \E i \in DOMAIN logicMsgs' : IsCreate(i)' /\ logicMsgs'[i].key = k
        <5>1. PICK i \in DOMAIN logicMsgs' : IsCreate(i)' /\ logicMsgs'[i].key = k
          BY <4>2
        <5>2. i \in DOMAIN logicMsgs /\ IsCreate(i) /\ logicMsgs[i].key = k
          BY <1>1, <1>8, <1>9, <2>2, <5>1
        <5> QED  BY <5>2 DEF LoggingIn
      <4> QED  BY <1>1, <4>1, <4>2 DEF LoggingIn
    <3>2. k <= conns /\ \A q \in Present : users[q].key = k => users[q].char # NoChar
      BY <3>1 DEF LoginsOnce, HasKey
    <3>3. \A q \in Present : users'[q].key = k => q # p
      BY <1>1, <2>2 DEF k0
    <3> QED  BY <1>1, <3>2, <3>3
  <2> QED  BY <2>1, <2>2
<1>12. \A i, j \in DOMAIN logicMsgs' :
         IsCreate(i)' /\ IsCreate(j)' /\ logicMsgs'[i].key = logicMsgs'[j].key
           => i = j \/ logicMsgs'[i].key \in again'
  <2>1. \A i, j \in 1 .. n : IsCreate(i) /\ IsCreate(j) /\ logicMsgs[i].key = logicMsgs[j].key
          => i = j \/ logicMsgs[i].key \in again
    BY <1>1 DEF LoginsOnce
  <2> QED  BY <1>1, <1>5, <1>8, <1>9, <2>1
<1>13. \A i \in DOMAIN logicMsgs', x \in actors' :
         IsCreate(i)' => logicMsgs'[i].key # x.key \/ x.key \in again'
  <2>1. \A i \in 1 .. n, x \in actors : IsCreate(i) => logicMsgs[i].key # x.key \/ x.key \in again
    BY <1>1 DEF LoginsOnce
  <2> QED  BY <1>1, <1>6, <1>8, <1>9, <2>1
<1>14. \A x, y \in actors' : x.key = y.key => x = y \/ x.key \in again'
  BY <1>1 DEF LoginsOnce
<1>15. \A i \in DOMAIN logicMsgs' : IsLogout(i)' =>
         /\ logicMsgs'[i].key <= conns'
         /\ {q \in Present' : users'[q].key = logicMsgs'[i].key} = {}
         /\ \A j \in i + 1 .. Len(logicMsgs') : IsCreate(j)' => logicMsgs'[j].key # logicMsgs'[i].key
  <2> SUFFICES ASSUME NEW i \in DOMAIN logicMsgs', IsLogout(i)'
               PROVE  /\ logicMsgs'[i].key <= conns'
                      /\ \A q \in Present' : users'[q].key # logicMsgs'[i].key
                      /\ \A j \in i + 1 .. Len(logicMsgs') : IsCreate(j)' => logicMsgs'[j].key # logicMsgs'[i].key
    OBVIOUS
  <2>1. i \in 1 .. n /\ i \in DOMAIN logicMsgs /\ IsLogout(i) /\ logicMsgs'[i] = logicMsgs[i]
    BY <1>1, <1>8, <1>9, <1>10
  <2>2. /\ logicMsgs[i].key <= conns
        /\ \A q \in Present : users[q].key # logicMsgs[i].key
        /\ \A j \in i + 1 .. n : IsCreate(j) => logicMsgs[j].key # logicMsgs[i].key
    BY <2>1 DEF LoginsOnce, HasKey, n
  <2>3. logicMsgs[i].key # k0
    BY <1>4, <2>1
  <2>4. \A j \in i + 1 .. Len(logicMsgs') : IsCreate(j)' => logicMsgs'[j].key # logicMsgs'[i].key
    <3> SUFFICES ASSUME NEW j \in i + 1 .. n + 1, IsCreate(j)'
                 PROVE  logicMsgs'[j].key # logicMsgs[i].key
      BY <1>1, <2>1
    <3>1. CASE j = n + 1
      BY <1>1, <2>3, <3>1
    <3>2. CASE j # n + 1
      <4>1. j \in i + 1 .. n /\ j \in 1 .. n
        BY <1>1, <2>1, <3>2
      <4> QED  BY <1>1, <1>9, <2>2, <4>1
    <3> QED  BY <3>1, <3>2
  <2> QED  BY <1>1, <2>1, <2>2, <2>4
<1> QED  BY <1>11, <1>12, <1>13, <1>14, <1>15 DEF LoginsOnce, HasKey

\* The login that is handled: it leaves the queue, and its key is no actor's but the new
\* one's, unless it is noted.
LEMMA CreateHead ==
  ASSUME LoginAssumption, Base, LoginsOnce, LogicCreate
  PROVE  /\ logicMsgs[1] = Head(logicMsgs) /\ IsCreate(1) /\ Head(logicMsgs).key \in Key
         /\ Head(logicMsgs).account \in Account /\ Head(logicMsgs).pos \in Nat
         /\ Head(logicMsgs).char \in Character /\ Head(logicMsgs).handle \in 1 .. MaxLogins
         /\ Len(logicMsgs) \in Nat /\ Len(logicMsgs) > 0 /\ DOMAIN logicMsgs = 1 .. Len(logicMsgs)
         /\ DOMAIN logicMsgs' = 1 .. Len(logicMsgs) - 1
         /\ Len(logicMsgs') = Len(logicMsgs) - 1
         /\ \A i \in DOMAIN logicMsgs' : i + 1 \in DOMAIN logicMsgs /\ logicMsgs'[i] = logicMsgs[i + 1]
         /\ UNCHANGED <<gateVars, serverVars, local, ssCloses>>
         /\ Head(logicMsgs).key \in again \/ \A x \in actors : x.key # Head(logicMsgs).key
         /\ Head(logicMsgs).key \in again \/
              \A i \in DOMAIN logicMsgs' : IsCreate(i)' => logicMsgs'[i].key # Head(logicMsgs).key
         /\ \E closed \in SUBSET actors : Handled(Head(logicMsgs), closed)
<1> DEFINE m == Head(logicMsgs)
<1>1. /\ m \in CreateMsg /\ logicMsgs # << >>
      /\ \E closed \in SUBSET actors : Handled(m, closed)
  BY CreateHandled
<1>2. logicMsgs' = Tail(logicMsgs) /\ UNCHANGED <<gateVars, serverVars, local, ssCloses>>
  BY DEF LogicCreate
<1>3. /\ m = logicMsgs[1] /\ Tail(logicMsgs) \in Seq(LogicMsg)
      /\ Len(logicMsgs) \in Nat /\ Len(logicMsgs) > 0
      /\ Len(Tail(logicMsgs)) = Len(logicMsgs) - 1
      /\ \A i \in 1 .. Len(logicMsgs) - 1 : Tail(logicMsgs)[i] = logicMsgs[i + 1]
  BY <1>1, LogicHead
<1>4. DOMAIN logicMsgs = 1 .. Len(logicMsgs) /\ DOMAIN logicMsgs' = 1 .. Len(logicMsgs) - 1
  BY <1>2, <1>3 DEF Base, Types
<1>5. m.key \in Key /\ m.account \in Account /\ m.type = "create" /\ m.pos \in Nat /\ m.char \in Character
      /\ m.handle \in 1 .. MaxLogins
  <2> HIDE DEF m
  <2> QED  BY <1>1 DEF CreateMsg
<1> HIDE DEF m
<1>6. 1 \in DOMAIN logicMsgs /\ IsCreate(1)
  BY <1>3, <1>4, <1>5 DEF IsCreate
<1>7. m.key \in again \/ \A x \in actors : x.key # m.key
  BY <1>3, <1>6 DEF LoginsOnce
<1>8. \A i \in DOMAIN logicMsgs' : i + 1 \in DOMAIN logicMsgs /\ logicMsgs'[i] = logicMsgs[i + 1] /\ i + 1 # 1
  BY <1>2, <1>3, <1>4
<1>9. m.key \in again \/ \A i \in DOMAIN logicMsgs' : IsCreate(i)' => logicMsgs'[i].key # m.key
  BY <1>3, <1>6, <1>8 DEF LoginsOnce, IsCreate
<1> QED  BY <1>1, <1>2, <1>3, <1>4, <1>5, <1>6, <1>7, <1>8, <1>9 DEF m

\* The actor a login makes.
Made(m) == [handle |-> m.handle, char |-> m.char, account |-> m.account, key |-> m.key,
            inited |-> FALSE]

LEMMA MadeBy ==
  ASSUME NEW m, NEW closed \in SUBSET actors, Handled(m, closed)
  PROVE  /\ Closing(closed)
         /\ \E last \in GateMsg :
              /\ gateMsgs' = gateMsgs \o KicksOf(closed) \o <<last>>
              /\ \/ /\ actors' = actors \ closed
                    /\ last.type = "kick" \/ last = SetHandle(m.pos, NoActor, m.account)
                 \/ /\ actors' = (actors \ closed) \cup {Made(m)}
                    /\ last = SetHandle(m.pos, m.handle, m.account)
                    /\ <<m.account, m.key>> \in local
                    /\ (\A x, y \in actors : x.account = m.account /\ y.account = m.account => x = y) =>
                         \A x \in actors \ closed : x.account = m.account => x.key = m.key
BY DEF Handled, Made

LEMMA CreateActors ==
  ASSUME NEW m, NEW closed \in SUBSET actors, Handled(m, closed)
  PROVE  \A x \in actors' : x \in actors \ closed \/ (x = Made(m) /\ <<m.account, m.key>> \in local)
<1>1. \/ actors' = actors \ closed
      \/ actors' = (actors \ closed) \cup {Made(m)} /\ <<m.account, m.key>> \in local
  BY MadeBy
<1> QED  BY <1>1

LEMMA CreateLogins ==
  ASSUME LoginAssumption, Base, LoginsOnce, LogicCreate
  PROVE  LoginsOnce'
<1> DEFINE m == Head(logicMsgs)
<1>1. /\ logicMsgs[1] = m /\ IsCreate(1) /\ m.key \in Key
      /\ Len(logicMsgs) \in Nat /\ Len(logicMsgs) > 0 /\ DOMAIN logicMsgs = 1 .. Len(logicMsgs)
      /\ DOMAIN logicMsgs' = 1 .. Len(logicMsgs) - 1
      /\ Len(logicMsgs') = Len(logicMsgs) - 1
      /\ \A i \in DOMAIN logicMsgs' : i + 1 \in DOMAIN logicMsgs /\ logicMsgs'[i] = logicMsgs[i + 1]
      /\ users' = users /\ conns' = conns /\ again' = again
      /\ m.key \in again \/ \A x \in actors : x.key # m.key
      /\ m.key \in again \/ \A i \in DOMAIN logicMsgs' : IsCreate(i)' => logicMsgs'[i].key # m.key
  BY CreateHead DEF gateVars
<1>2. PICK closed \in SUBSET actors : Handled(m, closed)
  BY CreateHead
<1>3. \A x \in actors' : x \in actors \/ x = Made(m)
  BY <1>2, CreateActors
<1>4. Made(m).key = m.key
  BY DEF Made
<1> HIDE DEF m
<1>5. Present' = Present
  BY <1>1 DEF Present
<1>6. \A i \in DOMAIN logicMsgs' : (IsCreate(i)' <=> IsCreate(i + 1)) /\ (IsLogout(i)' <=> IsLogout(i + 1))
  BY <1>1 DEF IsCreate, IsLogout
<1>7. \A k : LoggingIn(k)' => LoggingIn(k)
  <2> SUFFICES ASSUME NEW k, LoggingIn(k)' PROVE LoggingIn(k)
    OBVIOUS
  <2>1. CASE \E x \in actors' : x.key = k
    <3>1. PICK x \in actors' : x.key = k
      BY <2>1
    <3>2. CASE x \in actors
      BY <3>1, <3>2 DEF LoggingIn
    <3>3. CASE x = Made(m)
      <4>1. 1 \in DOMAIN logicMsgs /\ IsCreate(1) /\ logicMsgs[1].key = k
        BY <1>1, <1>4, <3>1, <3>3
      <4> QED  BY <4>1 DEF LoggingIn
    <3> QED  BY <1>3, <3>2, <3>3
  <2>2. CASE \E i \in DOMAIN logicMsgs' : IsCreate(i)' /\ logicMsgs'[i].key = k
    BY <1>1, <1>6, <2>2 DEF LoggingIn
  <2> QED  BY <2>1, <2>2 DEF LoggingIn
<1>8. \A k \in Key : LoggingIn(k)' => k <= conns' /\ \A p \in HasKey(k)' : users'[p].char # NoChar
  <2>1. \A k \in Key : LoggingIn(k) =>
          k <= conns /\ \A p \in Present : users[p].key = k => users[p].char # NoChar
    BY DEF LoginsOnce, HasKey
  <2> QED  BY <1>1, <1>5, <1>7, <2>1 DEF HasKey
<1>9. \A i, j \in DOMAIN logicMsgs' :
        IsCreate(i)' /\ IsCreate(j)' /\ logicMsgs'[i].key = logicMsgs'[j].key
          => i = j \/ logicMsgs'[i].key \in again'
  <2> SUFFICES ASSUME NEW i \in DOMAIN logicMsgs', NEW j \in DOMAIN logicMsgs',
                      IsCreate(i)', IsCreate(j)', logicMsgs'[i].key = logicMsgs'[j].key,
                      logicMsgs'[i].key \notin again'
               PROVE  i = j
    OBVIOUS
  <2>1. i + 1 = j + 1
    BY <1>1, <1>6 DEF LoginsOnce
  <2> QED  BY <1>1, <2>1
<1>10. \A i \in DOMAIN logicMsgs', x \in actors' :
         IsCreate(i)' => logicMsgs'[i].key # x.key \/ x.key \in again'
  <2>1. \A i \in DOMAIN logicMsgs, x \in actors :
          IsCreate(i) => logicMsgs[i].key # x.key \/ x.key \in again
    BY DEF LoginsOnce
  <2> QED  BY <1>1, <1>3, <1>4, <1>6, <2>1
<1>11. \A x, y \in actors' : x.key = y.key => x = y \/ x.key \in again'
  BY <1>1, <1>3, <1>4 DEF LoginsOnce
<1>12. \A i \in DOMAIN logicMsgs' : IsLogout(i)' =>
         /\ logicMsgs'[i].key <= conns'
         /\ {q \in Present' : users'[q].key = logicMsgs'[i].key} = {}
         /\ \A j \in i + 1 .. Len(logicMsgs') : IsCreate(j)' => logicMsgs'[j].key # logicMsgs'[i].key
  <2> SUFFICES ASSUME NEW i \in DOMAIN logicMsgs', IsLogout(i)'
               PROVE  /\ logicMsgs'[i].key <= conns'
                      /\ \A q \in Present' : users'[q].key # logicMsgs'[i].key
                      /\ \A j \in i + 1 .. Len(logicMsgs') : IsCreate(j)' => logicMsgs'[j].key # logicMsgs'[i].key
    OBVIOUS
  <2>1. i + 1 \in DOMAIN logicMsgs /\ IsLogout(i + 1) /\ logicMsgs'[i] = logicMsgs[i + 1]
    BY <1>1, <1>6
  <2>2. /\ logicMsgs[i + 1].key <= conns
        /\ \A q \in Present : users[q].key # logicMsgs[i + 1].key
        /\ \A j \in i + 2 .. Len(logicMsgs) : IsCreate(j) => logicMsgs[j].key # logicMsgs[i + 1].key
    <3>1. i + 2 = (i + 1) + 1
      BY <1>1
    <3> QED  BY <2>1, <3>1 DEF LoginsOnce, HasKey
  <2>3. \A j \in i + 1 .. Len(logicMsgs') :
          j \in DOMAIN logicMsgs' /\ j + 1 \in i + 2 .. Len(logicMsgs)
    BY <1>1
  <2> QED  BY <1>1, <1>5, <1>6, <2>1, <2>2, <2>3
<1> QED  BY <1>8, <1>9, <1>10, <1>11, <1>12 DEF LoginsOnce, HasKey

LEMMA CreateAccounts ==
  ASSUME LoginAssumption, Base, LoginsOnce, local \subseteq granted, OneActorWhenCalm, LogicCreate
  PROVE  OneActorWhenCalm'
<1> DEFINE m == Head(logicMsgs)
<1>1. m.key \in again \/ \A x \in actors : x.key # m.key
  BY CreateHead
<1>2. PICK closed \in SUBSET actors : Handled(m, closed)
  BY CreateHead
<1>3. \/ actors' = actors \ closed
      \/ /\ actors' = (actors \ closed) \cup {Made(m)} /\ <<m.account, m.key>> \in local
         /\ (\A x, y \in actors : x.account = m.account /\ y.account = m.account => x = y) =>
              \A x \in actors \ closed : x.account = m.account => x.key = m.key
  BY <1>2, MadeBy
<1>4. Made(m).account = m.account
  BY DEF Made
<1>5. again' = again /\ granted' = granted
  BY CreateHead DEF gateVars, serverVars
<1>6. \A a : Calm(a)' <=> Calm(a)
  BY <1>5 DEF Calm
<1> HIDE DEF m
<1>7. CASE actors' = actors \ closed
  BY <1>6, <1>7 DEF OneActorWhenCalm
<1>8. CASE /\ actors' = (actors \ closed) \cup {Made(m)} /\ <<m.account, m.key>> \in local
           /\ (\A x, y \in actors : x.account = m.account /\ y.account = m.account => x = y) =>
                \A x \in actors \ closed : x.account = m.account => x.key = m.key
  <2>1. Calm(m.account) => \A x \in actors \ closed : x.account # m.account
    <3> SUFFICES ASSUME Calm(m.account) PROVE \A x \in actors \ closed : x.account # m.account
      OBVIOUS
    <3>1. m.key \notin again
      BY <1>8 DEF Calm
    <3>2. \A x, y \in actors : x.account = m.account /\ y.account = m.account => x = y
      BY DEF OneActorWhenCalm
    <3> QED  BY <1>1, <1>8, <3>1, <3>2
  <2> QED  BY <1>4, <1>6, <1>8, <2>1 DEF OneActorWhenCalm
<1> QED  BY <1>3, <1>7, <1>8

-----------------------------------------------------------------------------
(* Logins and their users *)

LEMMA LogoutsKept ==
  ASSUME LoginAssumption, Base, Base', NEW n, NEW more \in Seq(LogoutMsg),
         Moved(logicMsgs, logicMsgs', n, more)
  PROVE  /\ \A i \in Nat, a \in Account, k \in Key : LogoutAfter(i + n, a, k) => LogoutAfter(i, a, k)'
         /\ \A a \in Account, k \in Key :
              LogoutAfter(0, a, k) /\ (n = 1 => logicMsgs[1] # Logout(a, k)) => LogoutAfter(0, a, k)'
<1>1. /\ \A i \in DOMAIN logicMsgs : i > n => i - n \in DOMAIN logicMsgs' /\ logicMsgs'[i - n] = logicMsgs[i]
      /\ DOMAIN logicMsgs = 1 .. Len(logicMsgs) /\ DOMAIN logicMsgs' = 1 .. Len(logicMsgs')
      /\ Len(logicMsgs) \in Nat /\ Len(logicMsgs') \in Nat /\ n \in {0, 1}
  BY QuietMessages
<1>2. ASSUME NEW i \in Nat, NEW a \in Account, NEW k \in Key, LogoutAfter(i + n, a, k)
      PROVE  LogoutAfter(i, a, k)'
  <2>1. PICK j \in i + n + 1 .. Len(logicMsgs) : logicMsgs[j] = Logout(a, k)
    BY <1>2 DEF LogoutAfter
  <2>2. j \in DOMAIN logicMsgs /\ j > n
    BY <1>1
  <2>3. j - n \in i + 1 .. Len(logicMsgs') /\ logicMsgs'[j - n] = Logout(a, k)
    BY <1>1, <2>1, <2>2
  <2> QED  BY <2>3 DEF LogoutAfter, Logout
<1>3. ASSUME NEW a \in Account, NEW k \in Key, LogoutAfter(0, a, k), n = 1 => logicMsgs[1] # Logout(a, k)
      PROVE  LogoutAfter(0 + n, a, k)
  <2>1. PICK j \in 0 + 1 .. Len(logicMsgs) : logicMsgs[j] = Logout(a, k)
    BY <1>3 DEF LogoutAfter
  <2>2. j \in 0 + n + 1 .. Len(logicMsgs)
    BY <1>1, <1>3, <2>1
  <2> QED  BY <2>1, <2>2 DEF LogoutAfter
<1> QED  BY <1>2, <1>3

LEMMA LogoutsNew ==
  ASSUME LoginAssumption, Base, Base', NEW n, NEW more \in Seq(LogoutMsg),
         Moved(logicMsgs, logicMsgs', n, more), LogoutsSent(more)
  PROVE  \A p \in Present \ Present', a \in Account, k \in Key :
           users[p].account = a /\ users[p].key = k =>
             \A i \in Int : i <= Len(logicMsgs) - n => LogoutAfter(i, a, k)'
<1> SUFFICES ASSUME NEW p \in Present \ Present', NEW a \in Account, NEW k \in Key,
                    users[p].account = a, users[p].key = k,
                    NEW i \in Int, i <= Len(logicMsgs) - n
             PROVE  LogoutAfter(i, a, k)'
  OBVIOUS
<1>1. PICK j \in DOMAIN more : more[j] = Logout(a, k)
  <2>1. a # NoAccount
    BY DEF LoginAssumption
  <2> QED  BY <2>1 DEF LogoutsSent
<1>2. PICK l \in DOMAIN logicMsgs' : l > Len(logicMsgs) - n /\ logicMsgs'[l] = more[j]
  BY QuietMessages
<1>3. /\ DOMAIN logicMsgs' = 1 .. Len(logicMsgs')
      /\ Len(logicMsgs) \in Nat /\ Len(logicMsgs') \in Nat /\ n \in {0, 1}
  BY QuietMessages
<1>4. l \in i + 1 .. Len(logicMsgs') /\ logicMsgs'[l] = Logout(a, k)
  BY <1>1, <1>2, <1>3
<1> QED  BY <1>4 DEF LogoutAfter, Logout

LEMMA UserAtKept ==
  ASSUME LoginAssumption, Base, Base', AllGranted, UsersGoOn
  PROVE  \A p \in Present', a \in Account, k \in Key, c \in Character :
           Single(a, k) /\ UserAt(p, a, k, c) => UserAt(p, a, k, c)'
<1> SUFFICES ASSUME NEW p \in Present', NEW a \in Account, NEW k \in Key,
                    NEW c \in Character, Single(a, k), UserAt(p, a, k, c)
             PROVE  UserAt(p, a, k, c)'
  OBVIOUS
<1>1. p \in Present /\ users[p].key = k /\ users[p].account = a /\ users[p].char = c
  BY DEF UserAt, HasKey
<1>2. /\ users'[p].key = users[p].key /\ users'[p].char = users[p].char
      /\ users'[p].account = users[p].account \/ Told(users'[p].account, users[p].key)
  BY <1>1 DEF UsersGoOn
<1>3. ASSUME Told(users'[p].account, k) PROVE users'[p].account = a
  <2>1. gateMsgs # << >> /\ Head(gateMsgs).type = "checked"
    BY <1>3 DEF Told, GateChecked, IsNext
  <2>2. gateMsgs[1] = Head(gateMsgs) /\ 1 \in DOMAIN gateMsgs
    BY <2>1, GateHead DEF Base, Types
  <2>3. IsChecked(1) /\ gateMsgs[1].account = users'[p].account /\ gateMsgs[1].key = k
    BY <1>3, <2>1, <2>2 DEF Told, IsChecked
  <2>4. <<users'[p].account, k>> \in granted
    BY <2>2, <2>3 DEF AllGranted
  <2>5. users'[p].account \in Account
    BY <2>4 DEF Base, Types
  <2> QED  BY <2>4, <2>5 DEF Single
<1> QED  BY <1>1, <1>2, <1>3 DEF UserAt, HasKey

LEMMA QuietCreates ==
  ASSUME LoginAssumption, Base, Base', AllGranted, CreatesAttached, UsersQuiet,
         \A a, k : Single(a, k)' => Single(a, k)
  PROVE  CreatesAttached'
<1>1. PICK n \in {0, 1}, more \in Seq(LogoutMsg) :
         Moved(logicMsgs, logicMsgs', n, more) /\ LogoutsSent(more)
  BY DEF UsersQuiet
<1>2. /\ \A i \in DOMAIN logicMsgs' :
           \/ i + n \in DOMAIN logicMsgs /\ logicMsgs'[i] = logicMsgs[i + n]
           \/ i > Len(logicMsgs) - n /\ logicMsgs'[i].type = "logout"
      /\ \A i \in DOMAIN logicMsgs' : IsCreate(i)' => IsCreate(i + n) /\ i + n <= Len(logicMsgs)
      /\ DOMAIN logicMsgs = 1 .. Len(logicMsgs) /\ DOMAIN logicMsgs' = 1 .. Len(logicMsgs')
      /\ Len(logicMsgs) \in Nat /\ Len(logicMsgs') \in Nat
  BY <1>1, QuietMessages
<1>3. \A i \in DOMAIN logicMsgs' : IsCreate(i)' => logicMsgs'[i] = logicMsgs[i + n]
  BY <1>2 DEF IsCreate
<1>4. SUFFICES ASSUME NEW i \in DOMAIN logicMsgs', NEW p \in Nat, NEW a \in Account, NEW k \in Key,
                      NEW c \in Character, Single(a, k), IsLogin(i, p, a, k, c)'
               PROVE  LoginAttached(i, p, a, k, c)'
  BY DEF CreatesAttached
<1>5. IsCreate(i)' /\ i \in Nat
  BY <1>2, <1>4 DEF IsLogin
<1>6. IsLogin(i + n, p, a, k, c) /\ i + n \in DOMAIN logicMsgs /\ i <= Len(logicMsgs) - n
  <2>1. IsCreate(i + n) /\ i + n <= Len(logicMsgs) /\ logicMsgs'[i] = logicMsgs[i + n]
    BY <1>2, <1>3, <1>5
  <2>2. /\ logicMsgs'[i].pos = p /\ logicMsgs'[i].account = a /\ logicMsgs'[i].key = k
        /\ logicMsgs'[i].char = c
    BY <1>4 DEF IsLogin
  <2>3. IsLogin(i + n, p, a, k, c)
    BY <2>1, <2>2 DEF IsLogin
  <2> QED  BY <1>2, <1>5, <2>1, <2>3 DEF IsCreate
<1>7. LoginAttached(i + n, p, a, k, c)
  BY <1>4, <1>6 DEF CreatesAttached
<1>8. CASE LogoutAfter(i + n, a, k)
  <2>1. LogoutAfter(i, a, k)'
    BY <1>1, <1>5, <1>8, LogoutsKept
  <2> QED  BY <2>1 DEF LoginAttached
<1>9. CASE /\ UserAt(p, a, k, c)
           /\ \A j \in i + n + 1 .. Len(logicMsgs) : IsCreate(j) => logicMsgs[j].pos # p
  <2>1. p \in Present /\ users[p].account = a /\ users[p].key = k
    BY <1>9 DEF UserAt, HasKey
  <2>2. CASE p \in Present'
    <3>1. UserAt(p, a, k, c)'
      <4>1. UsersGoOn
        BY DEF UsersQuiet
      <4>2. \A r \in Present', b \in Account, l \in Key, d \in Character :
              Single(b, l) /\ UserAt(r, b, l, d) => UserAt(r, b, l, d)'
        BY <4>1, UserAtKept
      <4> QED  BY <1>4, <1>9, <2>2, <4>2
    <3>2. \A j \in i + 1 .. Len(logicMsgs') : IsCreate(j)' => logicMsgs'[j].pos # p
      <4> SUFFICES ASSUME NEW j \in i + 1 .. Len(logicMsgs'), IsCreate(j)' PROVE logicMsgs'[j].pos # p
        OBVIOUS
      <4>1. j \in DOMAIN logicMsgs'
        BY <1>2, <1>5
      <4>2. IsCreate(j + n) /\ j + n <= Len(logicMsgs) /\ logicMsgs'[j] = logicMsgs[j + n]
        BY <1>2, <1>3, <4>1
      <4>3. j + n \in i + n + 1 .. Len(logicMsgs)
        BY <1>2, <1>5, <4>1, <4>2
      <4> QED  BY <1>9, <4>2, <4>3
    <3> QED  BY <3>1, <3>2 DEF LoginAttached
  <2>3. CASE p \notin Present'
    <3>1. LogoutAfter(i, a, k)'
      <4>1. i \in Int
        BY <1>5
      <4> QED  BY <1>1, <1>6, <2>1, <2>3, <4>1, LogoutsNew
    <3> QED  BY <3>1 DEF LoginAttached
  <2> QED  BY <2>2, <2>3
<1> QED  BY <1>7, <1>8, <1>9 DEF LoginAttached

LEMMA LoginCreates ==
  ASSUME LoginAssumption, Base, LoginsOnce, CreatesAttached,
         \A a, k : Single(a, k)' => Single(a, k), NEW p0 \in DOMAIN users,
         NEW a0 \in Account, NEW c0 \in Character, GateLogin(p0, a0, c0)
  PROVE  CreatesAttached'
<1> DEFINE n == Len(logicMsgs)
<1>1. /\ p0 \in Present /\ c0 # NoChar
      /\ users[p0].char = NoChar \/ users[p0].key \in again'
      /\ Present' = Present /\ \A q \in Present : users'[q].key = users[q].key
      /\ \A q \in Present : q # p0 => users'[q] = users[q]
      /\ users'[p0].account = a0 /\ users'[p0].char = c0
      /\ n \in Nat /\ DOMAIN logicMsgs = 1 .. n
      /\ DOMAIN logicMsgs' = 1 .. n + 1 /\ Len(logicMsgs') = n + 1
      /\ \A i \in 1 .. n : logicMsgs'[i] = logicMsgs[i]
      /\ logicMsgs'[n + 1].type = "create" /\ logicMsgs'[n + 1].key = users[p0].key
      /\ logicMsgs'[n + 1].account = a0 /\ logicMsgs'[n + 1].char = c0 /\ logicMsgs'[n + 1].pos = p0
  BY LoginAppends
<1> HIDE DEF n
<1>2. SUFFICES ASSUME NEW i \in DOMAIN logicMsgs', NEW p \in Nat, NEW a \in Account, NEW k \in Key,
                      NEW c \in Character, Single(a, k), k \notin again', IsLogin(i, p, a, k, c)'
               PROVE  LoginAttached(i, p, a, k, c)'
  BY DEF CreatesAttached, Single
<1>3. /\ logicMsgs'[i].pos = p /\ logicMsgs'[i].account = a /\ logicMsgs'[i].key = k
      /\ logicMsgs'[i].char = c /\ IsCreate(i)' /\ logicMsgs'[i].type = "create"
  BY <1>2 DEF IsLogin, IsCreate
<1>4. CASE i = n + 1
  <2>1. p = p0 /\ a = a0 /\ c = c0 /\ k = users'[p0].key
    BY <1>1, <1>3, <1>4
  <2>2. UserAt(p, a, k, c)'
    BY <1>1, <2>1 DEF UserAt, HasKey
  <2>3. i + 1 .. Len(logicMsgs') = {}
    BY <1>1, <1>4
  <2> QED  BY <2>2, <2>3 DEF LoginAttached
<1>5. CASE i # n + 1
  <2>1. i \in 1 .. n /\ i \in DOMAIN logicMsgs /\ logicMsgs'[i] = logicMsgs[i]
    BY <1>1, <1>5
  <2>2. IsLogin(i, p, a, k, c) /\ IsCreate(i)
    BY <1>3, <2>1 DEF IsLogin, IsCreate
  <2>3. LoginAttached(i, p, a, k, c)
    BY <1>2, <2>1, <2>2 DEF CreatesAttached
  <2>4. CASE LogoutAfter(i, a, k)
    <3>1. PICK j \in i + 1 .. n : logicMsgs[j] = Logout(a, k)
      BY <2>4 DEF LogoutAfter, n
    <3>2. j \in i + 1 .. Len(logicMsgs') /\ logicMsgs'[j] = Logout(a, k)
      BY <1>1, <2>1, <3>1
    <3>3. LogoutAfter(i, a, k)'
      BY <3>2 DEF LogoutAfter, Logout
    <3> QED  BY <3>3 DEF LoginAttached
  <2>5. CASE /\ UserAt(p, a, k, c)
             /\ \A j \in i + 1 .. n : IsCreate(j) => logicMsgs[j].pos # p
    <3>1. p \in Present /\ users[p].key = k /\ users[p].account = a /\ users[p].char = c
      BY <2>5 DEF UserAt, HasKey
    <3>2. p # p0
      BY <1>1, <1>2, <3>1 DEF LoginAssumption
    <3>3. UserAt(p, a, k, c)'
      BY <1>1, <3>1, <3>2 DEF UserAt, HasKey
    <3>4. \A j \in i + 1 .. Len(logicMsgs') : IsCreate(j)' => logicMsgs'[j].pos # p
      <4> SUFFICES ASSUME NEW j \in i + 1 .. n + 1, IsCreate(j)' PROVE logicMsgs'[j].pos # p
        BY <1>1
      <4>1. CASE j = n + 1
        BY <1>1, <3>2, <4>1
      <4>2. CASE j # n + 1
        <5>1. j \in i + 1 .. n /\ j \in 1 .. n
          BY <1>1, <2>1, <4>2
        <5>2. IsCreate(j) /\ logicMsgs'[j] = logicMsgs[j]
          BY <1>1, <5>1 DEF IsCreate
        <5> QED  BY <2>5, <5>1, <5>2
      <4> QED  BY <4>1, <4>2
    <3> QED  BY <3>3, <3>4 DEF LoginAttached
  <2> QED  BY <2>3, <2>4, <2>5 DEF LoginAttached, n
<1> QED  BY <1>4, <1>5

-----------------------------------------------------------------------------
(* The messages to the gate thread, and the handles *)

\* The handle of a user is written by the message for its position only.
HandlesGo(n) ==
  \A p \in Present : p \in Present' =>
    IF n = 1 /\ gateMsgs[1].type = "set" /\ gateMsgs[1].pos = p
    THEN users'[p].handle = gateMsgs[1].handle
    ELSE users'[p].handle = users[p].handle

GateMoved(n, more) ==
  /\ Moved(gateMsgs, gateMsgs', n, more)
  /\ HandlesGo(n)
  /\ \A i \in DOMAIN more : more[i].type = "set" => LogicCreate /\ more[i].pos = Head(logicMsgs).pos
  /\ ClientReceive \/ \A i \in DOMAIN more : more[i].type # "checked"
  /\ n = 1 /\ gateMsgs[1].type = "checked" => GateChecked

GateGoesOn == \E n \in {0, 1}, more \in Seq(GateMsg) : GateMoved(n, more)

LEMMA KickTypes ==
  ASSUME NEW more \in Seq(KickMsg \cup CloseMsg)
  PROVE  /\ more \in Seq(GateMsg)
         /\ \A i \in DOMAIN more : more[i].type # "set" /\ more[i].type # "checked"
<1>1. \A i \in DOMAIN more : more[i] \in KickMsg \cup CloseMsg
  OBVIOUS
<1>2. \A m \in KickMsg \cup CloseMsg : m.type # "set" /\ m.type # "checked"
  BY DEF KickMsg, CloseMsg
<1> QED  BY <1>1, <1>2 DEF GateMsg

\* The handles stay, and messages are added, none of which sets or tells anything.
LEMMA GateAdds ==
  ASSUME LoginAssumption, Base, NEW more \in Seq(KickMsg \cup CloseMsg),
         gateMsgs' = gateMsgs \o more,
         \A p \in Present : p \in Present' => users'[p].handle = users[p].handle
  PROVE  GateGoesOn
<1>1. Moved(gateMsgs, gateMsgs', 0, more)
  <2>1. gateMsgs \in Seq(GateMsg) /\ more \in Seq(GateMsg)
    BY KickTypes DEF Base, Types
  <2> QED  BY <2>1, MovedByMore
<1>2. HandlesGo(0)
  BY DEF HandlesGo
<1>3. GateMoved(0, more)
  <2>1. \A i \in DOMAIN more : more[i].type # "set" /\ more[i].type # "checked"
    BY KickTypes
  <2>2. 0 # 1
    OBVIOUS
  <2> QED  BY ONLY <1>1, <1>2, <2>1, <2>2 DEF GateMoved
<1>4. more \in Seq(GateMsg)
  BY KickTypes
<1> QED  BY <1>3, <1>4 DEF GateGoesOn

\* One message is handled, and others are added.
LEMMA GateHandles ==
  ASSUME LoginAssumption, Base, gateMsgs # << >>, NEW more \in Seq(KickMsg \cup CloseMsg),
         gateMsgs' = Tail(gateMsgs) \o more, HandlesGo(1),
         gateMsgs[1].type = "checked" => GateChecked
  PROVE  GateGoesOn
<1>1. more \in Seq(GateMsg)
  BY KickTypes
<1>2. Moved(gateMsgs, gateMsgs', 1, more)
  <2>1. /\ Tail(gateMsgs) \in Seq(GateMsg)
        /\ Len(gateMsgs) \in Nat /\ Len(gateMsgs) > 0 /\ Len(Tail(gateMsgs)) = Len(gateMsgs) - 1
        /\ \A i \in 1 .. Len(gateMsgs) - 1 : Tail(gateMsgs)[i] = gateMsgs[i + 1]
    BY GateHead
  <2>2. /\ Len(gateMsgs') = Len(Tail(gateMsgs)) + Len(more) /\ Len(more) \in Nat
        /\ \A i \in 1 .. Len(Tail(gateMsgs)) : gateMsgs'[i] = Tail(gateMsgs)[i]
        /\ \A i \in 1 .. Len(more) : gateMsgs'[Len(Tail(gateMsgs)) + i] = more[i]
    BY <1>1, <2>1, ConcatAt
  <2> QED  BY <2>1, <2>2 DEF Moved
<1>3. GateMoved(1, more)
  <2>1. \A i \in DOMAIN more : more[i].type # "set" /\ more[i].type # "checked"
    BY KickTypes
  <2> QED  BY <1>2, <2>1 DEF GateMoved
<1> QED  BY <1>1, <1>3 DEF GateGoesOn

LEMMA GateGo ==
  ASSUME LoginAssumption, Base, Base', [Next]_vars
  PROVE  GateGoesOn
<1>1. << >> \in Seq(KickMsg \cup CloseMsg)
  OBVIOUS
<1>2. gateMsgs \o << >> = gateMsgs
  BY DEF Base, Types
<1>3. gateMsgs # << >> => /\ Tail(gateMsgs) \o << >> = Tail(gateMsgs)
                          /\ gateMsgs[1] = Head(gateMsgs)
  BY GateHead
<1>4. ASSUME gateMsgs' = gateMsgs, \A p \in Present : p \in Present' => users'[p].handle = users[p].handle
      PROVE  GateGoesOn
  BY <1>1, <1>2, <1>4, GateAdds
<1>5. ASSUME gateMsgs' = gateMsgs, users' = users
      PROVE  GateGoesOn
  BY <1>4, <1>5
<1>6. CASE \E f \in Fd : GateOpen(f)
  <2>1. Entering /\ gateMsgs' = gateMsgs
    BY <1>6, OpenEnters DEF GateOpen
  <2>2. \A p \in Present : users'[p] = users[p]
    BY <2>1 DEF Entering
  <2> QED  BY <1>4, <2>1, <2>2
<1>7. CASE (\E p \in DOMAIN users : GateClose(p)) \/ GateLost
  <2>1. Leaving /\ gateMsgs' = gateMsgs
    BY <1>7, GateCloseLeaves, LostLeaves DEF GateClose, GateLost
  <2>2. \A p \in Present' : users'[p] = users[p]
    BY <2>1 DEF Leaving
  <2> QED  BY <1>4, <2>1, <2>2
<1>8. CASE \E p \in DOMAIN users, a \in Account : GateCheck(p, a)
  <2>1. PICK p \in DOMAIN users, a \in Account : GateCheck(p, a)
    BY <1>8
  <2>2. gateMsgs' = gateMsgs
    BY <2>1 DEF GateCheck
  <2>3. \A q \in Present : users'[q].handle = users[q].handle
    BY <2>1, CheckStays
  <2> QED  BY <1>4, <2>2, <2>3
<1>9. CASE UserLogin
  <2>1. PICK p \in DOMAIN users, a \in Account, c \in Character : GateLogin(p, a, c)
    BY <1>9 DEF UserLogin
  <2>2. gateMsgs' = gateMsgs
    BY <2>1 DEF GateLogin
  <2>3. \A q \in Present : users'[q].handle = users[q].handle
    BY <2>1, LoginStays
  <2> QED  BY <1>4, <2>2, <2>3
<1>10. CASE GateChecked
  <2>1. gateMsgs # << >> /\ gateMsgs' = Tail(gateMsgs) /\ gateMsgs[1].type = "checked"
    BY <1>3, <1>10 DEF GateChecked, IsNext
  <2>2. HandlesGo(1)
    BY <1>10, <2>1, CheckedStays DEF HandlesGo
  <2> QED  BY <1>1, <1>3, <1>10, <2>1, <2>2, GateHandles
<1>11. CASE GateKick
  <2>1. gateMsgs # << >> /\ users' = users /\ gateMsgs[1].type = "kick"
    BY <1>3, <1>11 DEF GateKick, IsNext, gateVars
  <2>2. HandlesGo(1)
    BY <2>1 DEF HandlesGo
  <2>3. PICK more \in Seq(CloseMsg) : gateMsgs' = Tail(gateMsgs) \o more
    BY <1>11, KickCloses
  <2>4. more \in Seq(KickMsg \cup CloseMsg)
    OBVIOUS
  <2> QED  BY <2>1, <2>2, <2>3, <2>4, GateHandles
<1>12. CASE GateCloseSock
  <2>1. gateMsgs # << >> /\ gateMsgs' = Tail(gateMsgs) /\ gateMsgs[1].type = "close"
    BY <1>3, <1>12 DEF GateCloseSock, IsNext
  <2>2. \A p \in Present' : users'[p] = users[p]
    BY <1>12, GateCloseSockLeaves DEF Leaving
  <2>3. HandlesGo(1)
    BY <2>1, <2>2 DEF HandlesGo
  <2> QED  BY <1>1, <1>3, <2>1, <2>3, GateHandles
<1>13. CASE GateSetHandle
  <2>1. gateMsgs # << >> /\ gateMsgs' = Tail(gateMsgs) /\ gateMsgs[1].type = "set"
        /\ gateMsgs[1] = Head(gateMsgs)
    BY <1>3, <1>13 DEF GateSetHandle, IsNext
  <2>2. CASE Head(gateMsgs).handle = NoActor
    <3>1. /\ \A p \in Present' : p \in Present /\ users'[p] = users[p]
          /\ Head(gateMsgs).pos \in Present => Present' = Present \ {Head(gateMsgs).pos}
      BY <1>13, <2>2, NoHandleLeaves DEF Leaving
    <3>2. \A p \in Present' : p # gateMsgs[1].pos
      BY <2>1, <3>1
    <3>3. HandlesGo(1)
      BY <3>1, <3>2 DEF HandlesGo
    <3> QED  BY <1>1, <1>3, <2>1, <3>3, GateHandles
  <2>3. CASE Head(gateMsgs).handle # NoActor
    <3>1. \A p \in Present : /\ p # Head(gateMsgs).pos => users'[p] = users[p]
                             /\ p = Head(gateMsgs).pos => users'[p].handle = Head(gateMsgs).handle
      BY <1>13, <2>3, SetHandleStays
    <3>2. HandlesGo(1)
      BY <2>1, <3>1 DEF HandlesGo
    <3> QED  BY <1>1, <1>3, <2>1, <3>2, GateHandles
  <2> QED  BY <2>2, <2>3
<1>14. CASE LogicCreate
  <2>1. /\ Head(logicMsgs) \in CreateMsg
        /\ \E closed \in SUBSET actors : Handled(Head(logicMsgs), closed)
    BY <1>14, CreateHandled
  <2>2. PICK closed \in SUBSET actors, last \in GateMsg :
          /\ gateMsgs' = gateMsgs \o KicksOf(closed) \o <<last>>
          /\ last.type # "checked" /\ (last.type = "set" => last.pos = Head(logicMsgs).pos)
    <3>1. PICK closed \in SUBSET actors : Handled(Head(logicMsgs), closed)
      BY <2>1
    <3>2. PICK last \in GateMsg :
            /\ gateMsgs' = gateMsgs \o KicksOf(closed) \o <<last>>
            /\ \/ last.type = "kick"
               \/ last = SetHandle(Head(logicMsgs).pos, NoActor, Head(logicMsgs).account)
               \/ last = SetHandle(Head(logicMsgs).pos, Head(logicMsgs).handle, Head(logicMsgs).account)
      BY <3>1 DEF Handled
    <3>3. last.type # "checked" /\ (last.type = "set" => last.pos = Head(logicMsgs).pos)
      BY <3>2 DEF SetHandle
    <3> QED  BY <3>2, <3>3
  <2> DEFINE more == KicksOf(closed) \o <<last>>
  <2>3. KicksOf(closed) \in Seq(KickMsg)
    <3>1. closed \in SUBSET ActorRec /\ IsFiniteSet(closed)
      BY FS_Subset DEF Base, Types
    <3> QED  BY <3>1, KicksAreKicks
  <2>4. KicksOf(closed) \in Seq(GateMsg) /\ <<last>> \in Seq(GateMsg) /\ gateMsgs \in Seq(GateMsg)
    BY <2>3 DEF GateMsg, Base, Types
  <2>5. more \in Seq(GateMsg) /\ gateMsgs' = gateMsgs \o more
    BY <2>2, <2>4
  <2>6. \A i \in DOMAIN more : /\ more[i].type # "checked"
                               /\ more[i].type = "set" => more[i].pos = Head(logicMsgs).pos
    <3>1. \A i \in DOMAIN KicksOf(closed) : KicksOf(closed)[i].type = "kick"
      <4>1. \A i \in DOMAIN KicksOf(closed) : KicksOf(closed)[i] \in KickMsg
        BY <2>3
      <4> QED  BY <4>1 DEF KickMsg
    <3>2. \A i \in DOMAIN more : more[i] = last \/ \E j \in DOMAIN KicksOf(closed) : more[i] = KicksOf(closed)[j]
      BY <2>3
    <3> QED  BY <2>2, <3>1, <3>2
  <2> HIDE DEF more
  <2>7. Moved(gateMsgs, gateMsgs', 0, more)
    BY <2>4, <2>5, MovedByMore
  <2>8. HandlesGo(0)
    BY <1>14 DEF LogicCreate, gateVars, HandlesGo
  <2>9. GateMoved(0, more)
    BY <1>14, <2>6, <2>7, <2>8 DEF GateMoved
  <2> QED  BY <2>5, <2>9 DEF GateGoesOn
<1>15. CASE ClientReceive
  <2>1. users' = users
    BY <1>15 DEF ClientReceive, gateVars
  <2>2. CASE gateMsgs' = gateMsgs
    BY <1>5, <2>1, <2>2
  <2>3. CASE Head(fromSS).open /\ fromSS # << >>
    <3> DEFINE m == Checked(Head(fromSS).account, Head(fromSS).key)
    <3>1. gateMsgs' = Append(gateMsgs, m)
      BY <1>15, <2>3 DEF ClientReceive
    <3>2. m \in GateMsg /\ m.type = "checked"
      <4>1. Head(fromSS).account \in Account /\ Head(fromSS).key \in Key
        BY <2>3, ServerHead
      <4> QED  BY <4>1 DEF Checked, GateMsg, CheckedMsg
    <3> HIDE DEF m
    <3>3. <<m>> \in Seq(GateMsg) /\ gateMsgs' = gateMsgs \o <<m>> /\ gateMsgs \in Seq(GateMsg)
          /\ \A i \in DOMAIN <<m>> : <<m>>[i].type # "set"
      <4>1. <<m>> \in Seq(GateMsg) /\ \A i \in DOMAIN <<m>> : <<m>>[i].type # "set"
        BY <3>2
      <4>2. gateMsgs \in Seq(GateMsg)
        BY DEF Base, Types
      <4>3. Append(gateMsgs, m) = gateMsgs \o <<m>>
        BY <3>2, <4>2
      <4> QED  BY <3>1, <4>1, <4>2, <4>3
    <3>4. Moved(gateMsgs, gateMsgs', 0, <<m>>)
      BY <3>3, MovedByMore
    <3>5. HandlesGo(0)
      BY <2>1 DEF HandlesGo
    <3>6. GateMoved(0, <<m>>)
      BY <1>15, <3>3, <3>4, <3>5 DEF GateMoved
    <3> QED  BY <3>3, <3>6 DEF GateGoesOn
  <2> QED  BY <1>15, <2>2, <2>3 DEF ClientReceive
<1>16. CASE \E c \in Character : LogicLoaded(c)
  <2>1. PICK c \in Character : LogicLoaded(c)
    BY <1>16
  <2>2. PICK more \in Seq(KickMsg) : gateMsgs' = gateMsgs \o more
    BY <2>1, ActorsLoaded
  <2>3. users' = users
    BY <2>1 DEF LogicLoaded, gateVars
  <2>4. more \in Seq(KickMsg \cup CloseMsg)
    OBVIOUS
  <2> QED  BY <2>2, <2>3, <2>4, GateAdds
<1>17. CASE \E x \in actors : LogicClose(x)
  <2>1. PICK x \in actors : LogicClose(x)
    BY <1>17
  <2>2. PICK more \in Seq(KickMsg) : gateMsgs' = gateMsgs \o more
    BY <2>1, ActorCloses
  <2>3. users' = users
    BY <2>1 DEF LogicClose, gateVars
  <2>4. more \in Seq(KickMsg \cup CloseMsg)
    OBVIOUS
  <2> QED  BY <2>2, <2>3, <2>4, GateAdds
<1>18. CASE \/ LogicLogout
            \/ \E s \in closeReqs : ClientClose(s)
            \/ \E s \in checks : ServerOpen(s[1], s[2])
            \/ \E s \in ssCloses : ServerClose(s)
            \/ vars' = vars
  <2>1. gateMsgs' = gateMsgs /\ users' = users
    BY <1>18 DEF LogicLogout, ClientClose, ServerOpen, ServerClose, vars, gateVars
  <2> QED  BY <1>5, <2>1
<1> QED  BY <1>6, <1>7, <1>8, <1>9, <1>10, <1>11, <1>12, <1>13, <1>14, <1>15, <1>16, <1>17, <1>18,
            Steps DEF UserLogin

-----------------------------------------------------------------------------
(* Actors and their users *)

\* The handle comes to the user at p, unless a new message sets another one.
LEMMA HandlesKept ==
  ASSUME LoginAssumption, Base, Base', NEW n \in {0, 1}, NEW more \in Seq(GateMsg), GateMoved(n, more),
         NEW p \in Present, p \in Present', NEW h \in 1 .. MaxLogins, NEW a \in Account,
         LogicCreate => Head(logicMsgs).pos # p,
         HandleComes(p, h, a)
  PROVE  HandleComes(p, h, a)'
<1>1. gateMsgs \in Seq(GateMsg) /\ gateMsgs' \in Seq(GateMsg)
  BY DEF Base, Types
<1>2. /\ \A i \in DOMAIN gateMsgs' :
           \/ i + n \in DOMAIN gateMsgs /\ gateMsgs'[i] = gateMsgs[i + n]
           \/ /\ i - (Len(gateMsgs) - n) \in DOMAIN more
              /\ gateMsgs'[i] = more[i - (Len(gateMsgs) - n)]
      /\ \A i \in DOMAIN gateMsgs : i > n => i - n \in DOMAIN gateMsgs' /\ gateMsgs'[i - n] = gateMsgs[i]
      /\ DOMAIN gateMsgs = 1 .. Len(gateMsgs) /\ DOMAIN gateMsgs' = 1 .. Len(gateMsgs')
      /\ Len(gateMsgs) \in Nat /\ Len(gateMsgs') \in Nat
  BY <1>1, MovedAt DEF GateMoved
<1>3. \A i \in DOMAIN more : more[i].type = "set" => more[i].pos # p
  BY DEF GateMoved
<1>4. HandlesGo(n) /\ n <= Len(gateMsgs)
  BY DEF GateMoved, Moved
<1>5. \A i \in DOMAIN gateMsgs' : IsSet(i)' /\ gateMsgs'[i].pos = p =>
        i + n \in DOMAIN gateMsgs /\ IsSet(i + n) /\ gateMsgs[i + n].pos = p
  BY <1>2, <1>3 DEF IsSet
<1>6. CASE users[p].handle = h /\ \A i \in DOMAIN gateMsgs : IsSet(i) => gateMsgs[i].pos # p
  <2>1. ~ (n = 1 /\ gateMsgs[1].type = "set" /\ gateMsgs[1].pos = p)
    <3>1. n = 1 => 1 \in DOMAIN gateMsgs
      BY <1>2, <1>4
    <3> QED  BY <1>6, <3>1 DEF IsSet
  <2>2. users'[p].handle = h
    BY <1>4, <1>6, <2>1 DEF HandlesGo
  <2>3. \A i \in DOMAIN gateMsgs' : IsSet(i)' => gateMsgs'[i].pos # p
    BY <1>5, <1>6
  <2> QED  BY <2>2, <2>3 DEF HandleComes
<1>7. CASE \E i \in DOMAIN gateMsgs :
             /\ gateMsgs[i] = SetHandle(p, h, a)
             /\ \A j \in i + 1 .. Len(gateMsgs) : IsSet(j) => gateMsgs[j].pos # p
  <2>1. PICK i \in DOMAIN gateMsgs :
             /\ gateMsgs[i] = SetHandle(p, h, a)
             /\ \A j \in i + 1 .. Len(gateMsgs) : IsSet(j) => gateMsgs[j].pos # p
    BY <1>7
  <2>2. CASE i > n
    <3>1. i - n \in DOMAIN gateMsgs' /\ gateMsgs'[i - n] = SetHandle(p, h, a)
      BY <1>2, <2>1, <2>2
    <3>2. \A j \in (i - n) + 1 .. Len(gateMsgs') : IsSet(j)' => gateMsgs'[j].pos # p
      <4> SUFFICES ASSUME NEW j \in (i - n) + 1 .. Len(gateMsgs'), IsSet(j)', gateMsgs'[j].pos = p
                   PROVE  FALSE
        OBVIOUS
      <4>1. j \in DOMAIN gateMsgs'
        BY <1>2, <3>1
      <4>2. j + n \in DOMAIN gateMsgs /\ IsSet(j + n) /\ gateMsgs[j + n].pos = p
        BY <1>5, <4>1
      <4>3. j + n \in i + 1 .. Len(gateMsgs)
        BY <1>2, <4>1, <4>2
      <4> QED  BY <2>1, <4>2, <4>3
    <3>3. \E l \in DOMAIN gateMsgs' :
            /\ gateMsgs'[l] = SetHandle(p, h, a)
            /\ \A j \in l + 1 .. Len(gateMsgs') : IsSet(j)' => gateMsgs'[j].pos # p
      BY <3>1, <3>2
    <3> QED  BY <3>3 DEF HandleComes, SetHandle
  <2>3. CASE ~ (i > n)
    <3>1. i = 1 /\ n = 1
      BY <1>2, <2>1, <2>3
    <3>2. gateMsgs[1].type = "set" /\ gateMsgs[1].pos = p /\ gateMsgs[1].handle = h
      BY <2>1, <3>1 DEF SetHandle
    <3>3. users'[p].handle = h
      BY <1>4, <3>1, <3>2 DEF HandlesGo
    <3>4. \A j \in DOMAIN gateMsgs' : IsSet(j)' => gateMsgs'[j].pos # p
      <4> SUFFICES ASSUME NEW j \in DOMAIN gateMsgs', IsSet(j)', gateMsgs'[j].pos = p PROVE FALSE
        OBVIOUS
      <4>1. j + 1 \in DOMAIN gateMsgs /\ IsSet(j + 1) /\ gateMsgs[j + 1].pos = p
        BY <1>5, <3>1
      <4>2. j + 1 \in i + 1 .. Len(gateMsgs)
        BY <1>2, <3>1, <4>1
      <4> QED  BY <2>1, <4>1, <4>2
    <3> QED  BY <3>3, <3>4 DEF HandleComes
  <2> QED  BY <2>2, <2>3
<1> QED  BY <1>6, <1>7 DEF HandleComes

LEMMA AttachedKept ==
  ASSUME LoginAssumption, Base, Base', LoginsOnce, AllGranted, UsersGoOn,
         NEW n \in {0, 1}, NEW more \in Seq(LogoutMsg),
         Moved(logicMsgs, logicMsgs', n, more), LogoutsSent(more), GateGoesOn,
         NEW a \in Account, NEW k \in Key, NEW c \in Character, NEW h \in 1 .. MaxLogins,
         Single(a, k), n = 1 => logicMsgs[1] # Logout(a, k),
         ActorAttached(a, k, c, h)
  PROVE  ActorAttached(a, k, c, h)'
<1>1. CASE LogoutAfter(0, a, k)
  <2>1. LogoutAfter(0, a, k)'
    BY <1>1, LogoutsKept
  <2> QED  BY <2>1 DEF ActorAttached
<1>2. CASE \E p \in Present : /\ UserAt(p, a, k, c)
                              /\ HandleComes(p, h, a)
                              /\ \A j \in DOMAIN logicMsgs : IsCreate(j) => logicMsgs[j].pos # p
  <2>1. PICK p \in Present : /\ UserAt(p, a, k, c)
                             /\ HandleComes(p, h, a)
                             /\ \A j \in DOMAIN logicMsgs : IsCreate(j) => logicMsgs[j].pos # p
    BY <1>2
  <2>2. users[p].account = a /\ users[p].key = k
    BY <2>1 DEF UserAt, HasKey
  <2>3. CASE p \in Present'
    <3>1. UserAt(p, a, k, c)'
      BY <2>1, <2>3, UserAtKept
    <3>2. HandleComes(p, h, a)'
      <4>1. LogicCreate => Head(logicMsgs).pos # p
        <5>1. LogicCreate => /\ logicMsgs[1] = Head(logicMsgs) /\ IsCreate(1)
                             /\ 1 \in DOMAIN logicMsgs
          BY CreateHead DEF IsCreate
        <5> QED  BY <2>1, <5>1
      <4>2. PICK l \in {0, 1}, new \in Seq(GateMsg) : GateMoved(l, new)
        BY DEF GateGoesOn
      <4> QED  BY <2>1, <2>3, <4>1, <4>2, HandlesKept
    <3>3. \A j \in DOMAIN logicMsgs' : IsCreate(j)' => logicMsgs'[j].pos # p
      <4>1. /\ \A i \in DOMAIN logicMsgs' :
                 \/ i + n \in DOMAIN logicMsgs /\ logicMsgs'[i] = logicMsgs[i + n]
                 \/ i > Len(logicMsgs) - n /\ logicMsgs'[i].type = "logout"
            /\ \A i \in DOMAIN logicMsgs' : IsCreate(i)' => IsCreate(i + n) /\ i + n <= Len(logicMsgs)
        BY QuietMessages
      <4>2. \A i \in DOMAIN logicMsgs' : IsCreate(i)' => logicMsgs'[i] = logicMsgs[i + n]
        BY <4>1 DEF IsCreate
      <4>3. \A i \in DOMAIN logicMsgs' : IsCreate(i)' => i + n \in DOMAIN logicMsgs
        BY <4>1 DEF IsCreate
      <4> QED  BY <2>1, <4>1, <4>2, <4>3
    <3> QED  BY <2>3, <3>1, <3>2, <3>3 DEF ActorAttached
  <2>4. CASE p \notin Present'
    <3>1. Len(logicMsgs) \in Nat /\ 0 \in Int /\ 0 <= Len(logicMsgs) - n
      BY DEF Moved, Base, Types
    <3>2. LogoutAfter(0, a, k)'
      BY <2>2, <2>4, <3>1, LogoutsNew
    <3> QED  BY <3>2 DEF ActorAttached
  <2> QED  BY <2>3, <2>4
<1> QED  BY <1>1, <1>2 DEF ActorAttached

\* A logout that is handled leaves no actor it is meant for.
LEMMA LogoutMeant ==
  ASSUME LoginAssumption, Base, OneActorWhenCalm, LogicLogout
  PROVE  \A x \in actors' : Calm(x.account) => logicMsgs[1] # Logout(x.account, x.key)
<1> DEFINE m == Head(logicMsgs)
<1>1. /\ m = Logout(m.account, m.key) /\ logicMsgs # << >>
      /\ \/ /\ \A x \in actors : x.account # m.account
            /\ actors' = actors
         \/ \E closed \in SUBSET actors :
              /\ actors' = actors \ closed
              /\ \E x \in actors : x.account = m.account /\ (x.key = m.key => x \in closed)
  BY LogoutHandled
<1>2. logicMsgs[1] = m
  BY <1>1, LogicHead
<1> HIDE DEF m
<1> SUFFICES ASSUME NEW x \in actors', Calm(x.account), m = Logout(x.account, x.key) PROVE FALSE
  BY <1>2
<1>3. m.account = x.account /\ m.key = x.key
  BY DEF Logout
<1>4. CASE actors' = actors /\ \A y \in actors : y.account # m.account
  BY <1>3, <1>4
<1>5. CASE \E closed \in SUBSET actors :
             /\ actors' = actors \ closed
             /\ \E y \in actors : y.account = m.account /\ (y.key = m.key => y \in closed)
  <2>1. PICK closed \in SUBSET actors, y \in actors :
          actors' = actors \ closed /\ y.account = m.account /\ (y.key = m.key => y \in closed)
    BY <1>5
  <2>2. x \in actors /\ x \notin closed
    BY <2>1
  <2>3. x = y
    BY <1>3, <2>1, <2>2 DEF OneActorWhenCalm
  <2> QED  BY <1>3, <2>1, <2>2, <2>3
<1> QED  BY <1>1, <1>4, <1>5

\* The message that is handled is not the logout of an actor that stays.
LEMMA HeadMeant ==
  ASSUME LoginAssumption, Base, LoginsOnce, OneActorWhenCalm, LogicCreate \/ LogicLogout
  PROVE  \A x \in actors' : Calm(x.account) => logicMsgs[1] # Logout(x.account, x.key)
<1>1. CASE LogicCreate
  <2>1. logicMsgs[1].type = "create"
    BY <1>1, CreateHead DEF IsCreate
  <2> QED  BY <2>1 DEF Logout
<1>2. CASE LogicLogout
  BY <1>2, LogoutMeant
<1> QED  BY <1>1, <1>2

\* What the new actor of a login finds.
LEMMA MadeAttached ==
  ASSUME LoginAssumption, Base, Base', LoginsOnce, CreatesAttached, UsersQuiet, LogicCreate,
         NEW x \in actors', x \notin actors, Single(x.account, x.key)
  PROVE  ActorAttached(x.account, x.key, x.char, x.handle)'
<1> DEFINE m == Head(logicMsgs)
<1>1. /\ logicMsgs[1] = m /\ IsCreate(1) /\ m.key \in Key /\ m.account \in Account /\ m.pos \in Nat
      /\ m.char \in Character /\ m.handle \in 1 .. MaxLogins
      /\ Len(logicMsgs) \in Nat /\ Len(logicMsgs) > 0 /\ DOMAIN logicMsgs = 1 .. Len(logicMsgs)
      /\ DOMAIN logicMsgs' = 1 .. Len(logicMsgs) - 1
      /\ Len(logicMsgs') = Len(logicMsgs) - 1
      /\ \A i \in DOMAIN logicMsgs' : i + 1 \in DOMAIN logicMsgs /\ logicMsgs'[i] = logicMsgs[i + 1]
      /\ users' = users
  BY CreateHead DEF gateVars
<1>2. PICK closed \in SUBSET actors : Handled(m, closed)
  BY CreateHead
<1>3. x = Made(m)
  BY <1>2, CreateActors
<1>4. PICK last \in GateMsg :
        /\ gateMsgs' = gateMsgs \o KicksOf(closed) \o <<last>>
        /\ \/ actors' = actors \ closed
           \/ last = SetHandle(m.pos, m.handle, m.account)
  BY <1>2, MadeBy
<1> HIDE DEF m
<1>5. last = SetHandle(m.pos, m.handle, m.account)
  BY <1>4
<1>6. PICK a \in Account, k \in Key, c \in Character, h \in 1 .. MaxLogins, p \in Nat :
        a = m.account /\ k = m.key /\ c = m.char /\ h = m.handle /\ p = m.pos
  BY <1>1
<1>7. x.account = a /\ x.key = k /\ x.char = c /\ x.handle = h
  BY <1>3, <1>6 DEF Made
<1>8. IsLogin(1, p, a, k, c) /\ 1 \in DOMAIN logicMsgs
  BY <1>1, <1>6 DEF IsLogin
<1>9. LoginAttached(1, p, a, k, c)
  BY <1>7, <1>8 DEF CreatesAttached
<1>10. CASE LogoutAfter(1, a, k)
  <2>1. PICK j \in 2 .. Len(logicMsgs) : logicMsgs[j] = Logout(a, k)
    <3>1. 1 + 1 = 2
      OBVIOUS
    <3> QED  BY <1>10, <3>1 DEF LogoutAfter
  <2>2. j - 1 \in DOMAIN logicMsgs' /\ (j - 1) + 1 = j
    BY <1>1
  <2>3. j - 1 \in 0 + 1 .. Len(logicMsgs') /\ logicMsgs'[j - 1] = Logout(a, k)
    BY <1>1, <2>1, <2>2
  <2>4. LogoutAfter(0, a, k)'
    BY <2>3 DEF LogoutAfter, Logout
  <2> QED  BY <1>7, <2>4 DEF ActorAttached
<1>11. CASE /\ UserAt(p, a, k, c)
            /\ \A j \in 1 + 1 .. Len(logicMsgs) : IsCreate(j) => logicMsgs[j].pos # p
  <2>1. Present' = Present /\ p \in Present
    BY <1>1, <1>11 DEF Present, UserAt, HasKey
  <2>2. UserAt(p, a, k, c)'
    BY <1>1, <1>11, <2>1 DEF UserAt, HasKey
  <2>3. HandleComes(p, h, a)'
    <3>1. gateMsgs \o KicksOf(closed) \in Seq(GateMsg)
      <4>1. closed \in SUBSET ActorRec /\ IsFiniteSet(closed) /\ gateMsgs \in Seq(GateMsg)
        BY FS_Subset DEF Base, Types
      <4>2. KicksOf(closed) \in Seq(KickMsg)
        BY <4>1, KicksAreKicks
      <4>3. KicksOf(closed) \in Seq(GateMsg)
        BY <4>2 DEF GateMsg
      <4> QED  BY <4>1, <4>3, ConcatAt
    <3> DEFINE q == gateMsgs \o KicksOf(closed)
    <3>2. q \in Seq(GateMsg) /\ gateMsgs' = q \o <<last>>
      BY <1>4, <3>1
    <3> HIDE DEF q
    <3>3. /\ DOMAIN gateMsgs' = 1 .. Len(gateMsgs') /\ Len(gateMsgs') = Len(q) + 1 /\ Len(q) \in Nat
          /\ gateMsgs'[Len(q) + 1] = last
      BY <3>2
    <3>4. Len(q) + 1 \in DOMAIN gateMsgs' /\ gateMsgs'[Len(q) + 1] = SetHandle(p, h, a)
      BY <1>5, <1>6, <3>3
    <3>5. Len(q) + 1 + 1 .. Len(gateMsgs') = {}
      BY <3>3
    <3>6. \E i \in DOMAIN gateMsgs' :
            /\ gateMsgs'[i] = SetHandle(p, h, a)
            /\ \A j \in i + 1 .. Len(gateMsgs') : IsSet(j)' => gateMsgs'[j].pos # p
      BY <3>4, <3>5
    <3> QED  BY <3>6 DEF HandleComes, SetHandle
  <2>4. \A j \in DOMAIN logicMsgs' : IsCreate(j)' => logicMsgs'[j].pos # p
    <3> SUFFICES ASSUME NEW j \in DOMAIN logicMsgs', IsCreate(j)' PROVE logicMsgs'[j].pos # p
      OBVIOUS
    <3>1. j + 1 \in DOMAIN logicMsgs /\ logicMsgs'[j] = logicMsgs[j + 1] /\ j + 1 \in 1 + 1 .. Len(logicMsgs)
      BY <1>1
    <3>2. IsCreate(j + 1)
      BY <3>1 DEF IsCreate
    <3> QED  BY <1>11, <3>1, <3>2
  <2>5. \E r \in Present' : /\ UserAt(r, a, k, c)'
                            /\ HandleComes(r, h, a)'
                            /\ \A j \in DOMAIN logicMsgs' : IsCreate(j)' => logicMsgs'[j].pos # r
    BY <2>1, <2>2, <2>3, <2>4
  <2> QED  BY <1>7, <2>5 DEF ActorAttached
<1> QED  BY <1>9, <1>10, <1>11 DEF LoginAttached

LEMMA QuietActors ==
  ASSUME LoginAssumption, Base, Base', LoginsOnce, OneActorWhenCalm, AllGranted, CreatesAttached,
         ActorsAttached, UsersQuiet, GateGoesOn, CalmOn, LogicCreate \/ ActorsStay
  PROVE  ActorsAttached'
<1>1. PICK n \in {0, 1}, more \in Seq(LogoutMsg) :
         /\ Moved(logicMsgs, logicMsgs', n, more) /\ LogoutsSent(more)
         /\ n = 1 => LogicCreate \/ LogicLogout
  BY DEF UsersQuiet
<1>2. SUFFICES ASSUME NEW x \in actors', Calm(x.account), Single(x.account, x.key)
               PROVE  ActorAttached(x.account, x.key, x.char, x.handle)'
  BY DEF ActorsAttached, CalmOn
<1>3. ASSUME NEW y \in actors, x.account = y.account, x.key = y.key, x.char = y.char, x.handle = y.handle
      PROVE  ActorAttached(x.account, x.key, x.char, x.handle)'
  <2>1. /\ x.account \in Account /\ x.key \in Key /\ x.char \in Character
        /\ x.handle \in 1 .. MaxLogins
    BY <1>3, ActorFields
  <2>2. ActorAttached(x.account, x.key, x.char, x.handle)
    BY <1>2, <1>3 DEF ActorsAttached
  <2>3. n = 1 => logicMsgs[1] # Logout(x.account, x.key)
    BY <1>1, <1>2, HeadMeant
  <2>4. UsersGoOn
    BY DEF UsersQuiet
  <2> QED  BY <1>1, <2>1, <2>2, <2>3, <2>4, <1>2, AttachedKept
<1>4. CASE ActorsStay
  <2>1. \E y \in actors : /\ x.char = y.char /\ x.account = y.account /\ x.key = y.key
                          /\ x.handle = y.handle
    BY <1>2, <1>4 DEF ActorsStay
  <2> QED  BY <1>3, <2>1
<1>5. CASE LogicCreate
  <2>1. CASE x \in actors
    BY <1>3, <2>1
  <2>2. CASE x \notin actors
    BY <1>2, <1>5, <2>2, MadeAttached
  <2> QED  BY <2>1, <2>2
<1> QED  BY <1>4, <1>5

\* A login adds no logout, and takes none away.
LEMMA LoginLogouts ==
  ASSUME LoginAssumption, Base, NEW p \in DOMAIN users, NEW a0 \in Account, NEW c \in Character,
         GateLogin(p, a0, c)
  PROVE  \A a \in Account, k \in Key : LogoutAfter(0, a, k) => LogoutAfter(0, a, k)'
<1> SUFFICES ASSUME NEW a \in Account, NEW k \in Key, LogoutAfter(0, a, k) PROVE LogoutAfter(0, a, k)'
  OBVIOUS
<1>1. /\ Len(logicMsgs) \in Nat /\ Len(logicMsgs') = Len(logicMsgs) + 1
      /\ \A i \in 1 .. Len(logicMsgs) : logicMsgs'[i] = logicMsgs[i]
  BY LoginAppends
<1>2. PICK j \in 0 + 1 .. Len(logicMsgs) : logicMsgs[j] = Logout(a, k)
  BY DEF LogoutAfter
<1>3. j \in 0 + 1 .. Len(logicMsgs') /\ logicMsgs'[j] = Logout(a, k)
  BY <1>1, <1>2
<1> QED  BY <1>3 DEF LogoutAfter, Logout

LEMMA LoginActors ==
  ASSUME LoginAssumption, Base, Base', ActorsAttached, GateGoesOn, CalmOn, NEW p0 \in DOMAIN users,
         NEW a0 \in Account, NEW c0 \in Character, GateLogin(p0, a0, c0)
  PROVE  ActorsAttached'
<1> DEFINE n == Len(logicMsgs)
<1>1. /\ p0 \in Present
      /\ users[p0].char = NoChar \/ users[p0].key \in again'
      /\ Present' = Present /\ actors' = actors
      /\ \A q \in Present : q # p0 => users'[q] = users[q]
      /\ n \in Nat /\ DOMAIN logicMsgs = 1 .. n /\ DOMAIN logicMsgs' = 1 .. n + 1
      /\ \A i \in 1 .. n : logicMsgs'[i] = logicMsgs[i]
      /\ logicMsgs'[n + 1].pos = p0
  BY LoginAppends
<1>2. ~ LogicCreate
  <2>1. Len(logicMsgs') = Len(logicMsgs) + 1 /\ Len(logicMsgs) \in Nat
    BY LoginAppends
  <2>2. LogicCreate => Len(logicMsgs') = Len(logicMsgs) - 1
    <3>1. LogicCreate => logicMsgs # << >> /\ logicMsgs' = Tail(logicMsgs)
      BY DEF LogicCreate, IsNext
    <3> QED  BY <3>1, LogicHead
  <2>3. \A l \in Nat : l + 1 # l - 1
    OBVIOUS
  <2> QED  BY <2>1, <2>2, <2>3
<1> HIDE DEF n
<1>3. SUFFICES ASSUME NEW x \in actors, Calm(x.account), x.key \notin again'
               PROVE  ActorAttached(x.account, x.key, x.char, x.handle)'
  BY <1>1 DEF ActorsAttached, CalmOn
<1>4. PICK a \in Account, k \in Key, c \in Character, h \in 1 .. MaxLogins :
        x.account = a /\ x.key = k /\ x.char = c /\ x.handle = h
  BY <1>3, ActorFields
<1>5. ActorAttached(a, k, c, h)
  BY <1>3, <1>4 DEF ActorsAttached
<1>6. CASE LogoutAfter(0, a, k)
  <2>1. LogoutAfter(0, a, k)'
    BY <1>6, LoginLogouts
  <2> QED  BY <1>4, <2>1 DEF ActorAttached
<1>7. CASE \E p \in Present : /\ UserAt(p, a, k, c)
                              /\ HandleComes(p, h, a)
                              /\ \A j \in DOMAIN logicMsgs : IsCreate(j) => logicMsgs[j].pos # p
  <2>1. PICK p \in Present : /\ UserAt(p, a, k, c)
                             /\ HandleComes(p, h, a)
                             /\ \A j \in DOMAIN logicMsgs : IsCreate(j) => logicMsgs[j].pos # p
    BY <1>7
  <2>2. p # p0
    BY <1>1, <1>3, <1>4, <2>1 DEF UserAt, HasKey, LoginAssumption
  <2>3. p \in Present' /\ users'[p] = users[p]
    BY <1>1, <2>2
  <2>4. UserAt(p, a, k, c)'
    BY <2>1, <2>3 DEF UserAt, HasKey
  <2>5. HandleComes(p, h, a)'
    <3>1. PICK l \in {0, 1}, new \in Seq(GateMsg) : GateMoved(l, new)
      BY DEF GateGoesOn
    <3> QED  BY <1>2, <2>1, <2>3, <3>1, HandlesKept
  <2>6. \A j \in DOMAIN logicMsgs' : IsCreate(j)' => logicMsgs'[j].pos # p
    <3> SUFFICES ASSUME NEW j \in DOMAIN logicMsgs', IsCreate(j)' PROVE logicMsgs'[j].pos # p
      OBVIOUS
    <3>1. CASE j = n + 1
      BY <1>1, <2>2, <3>1
    <3>2. CASE j # n + 1
      <4>1. j \in DOMAIN logicMsgs /\ logicMsgs'[j] = logicMsgs[j]
        BY <1>1, <3>2
      <4>2. IsCreate(j)
        BY <4>1 DEF IsCreate
      <4> QED  BY <2>1, <4>1, <4>2
    <3> QED  BY <3>1, <3>2
  <2>7. \E r \in Present' : /\ UserAt(r, a, k, c)'
                            /\ HandleComes(r, h, a)'
                            /\ \A j \in DOMAIN logicMsgs' : IsCreate(j)' => logicMsgs'[j].pos # r
    BY <2>3, <2>4, <2>5, <2>6
  <2> QED  BY <1>4, <2>7 DEF ActorAttached
<1> QED  BY <1>5, <1>6, <1>7 DEF ActorAttached

LEMMA QuietOwn ==
  ASSUME LoginAssumption, Base, Base', LoginsOnce, OneActorWhenCalm, ActorsAttached, OwnInv,
         UsersQuiet, CalmOn, LogicCreate \/ ActorsStay
  PROVE  OwnInv'
<1>1. PICK n \in {0, 1}, more \in Seq(LogoutMsg) :
         /\ Moved(logicMsgs, logicMsgs', n, more) /\ LogoutsSent(more)
         /\ n = 1 => LogicCreate \/ LogicLogout
  BY DEF UsersQuiet
<1>2. SUFFICES ASSUME NEW x \in actors', x.inited, Calm(x.account)
               PROVE  Owner[x.char] = x.account \/ LogoutAfter(0, x.account, x.key)'
  BY DEF OwnInv, CalmOn
<1>3. ASSUME NEW y \in actors, x.account = y.account, x.key = y.key, x.char = y.char,
             y.inited \/ ~ WrongData(y)
      PROVE  Owner[x.char] = x.account \/ LogoutAfter(0, x.account, x.key)'
  <2>1. x.account \in Account /\ x.key \in Key
    BY <1>3, ActorFields
  <2>2. n = 1 => logicMsgs[1] # Logout(x.account, x.key)
    BY <1>1, <1>2, HeadMeant
  <2>3. LogoutAfter(0, x.account, x.key) => LogoutAfter(0, x.account, x.key)'
    BY <1>1, <2>1, <2>2, LogoutsKept
  <2>4. CASE y.inited
    BY <1>2, <1>3, <2>3, <2>4 DEF OwnInv
  <2>5. CASE ~ WrongData(y)
    <3>1. ActorAttached(y.account, y.key, y.char, y.handle)
      BY <1>2, <1>3 DEF ActorsAttached
    <3>2. LogoutAfter(0, y.account, y.key) \/ \E p \in Present : UserAt(p, y.account, y.key, y.char)
      BY <3>1 DEF ActorAttached
    <3>3. \A p : UserAt(p, y.account, y.key, y.char) => y.account = Owner[y.char]
      BY <2>5 DEF UserAt, WrongData
    <3> QED  BY <1>3, <2>3, <3>2, <3>3
  <2> QED  BY <1>3, <2>4, <2>5
<1>4. CASE ActorsStay
  <2>1. \E y \in actors : /\ x.char = y.char /\ x.account = y.account /\ x.key = y.key
                          /\ x.inited => y.inited \/ ~ WrongData(y)
    BY <1>2, <1>4 DEF ActorsStay
  <2> QED  BY <1>2, <1>3, <2>1
<1>5. CASE LogicCreate
  <2>1. PICK closed \in SUBSET actors : Handled(Head(logicMsgs), closed)
    BY <1>5, CreateHead
  <2>2. x \in actors \/ x = Made(Head(logicMsgs))
    BY <1>2, <2>1, CreateActors
  <2>3. x # Made(Head(logicMsgs))
    BY <1>2 DEF Made
  <2> QED  BY <1>2, <1>3, <2>2, <2>3
<1> QED  BY <1>4, <1>5

LEMMA LoginOwn ==
  ASSUME LoginAssumption, Base, OwnInv, \A a : Calm(a)' => Calm(a), NEW p \in DOMAIN users,
         NEW a \in Account, NEW c \in Character, GateLogin(p, a, c)
  PROVE  OwnInv'
<1>1. actors' = actors
  BY LoginAppends
<1>2. \A x \in actors : LogoutAfter(0, x.account, x.key) => LogoutAfter(0, x.account, x.key)'
  BY LoginLogouts, ActorFields
<1> QED  BY <1>1, <1>2 DEF OwnInv

-----------------------------------------------------------------------------
(* A session is given to a connection once *)

\* The keys that messages of the session server, or to the gate thread, name.
LEMMA KeyFields ==
  ASSUME LoginAssumption, Base
  PROVE  /\ \A i \in DOMAIN fromSS : /\ fromSS[i].key \in Key /\ fromSS[i].account \in Account
                                     /\ fromSS[i].open \in BOOLEAN
         /\ \A i \in DOMAIN gateMsgs : IsChecked(i) => gateMsgs[i].key \in Key
         /\ \A s \in checks : s[1] \in Account /\ s[2] \in Key /\ s = <<s[1], s[2]>>
         /\ \A s \in ssCloses : s[1] \in Account /\ s[2] \in Key /\ s = <<s[1], s[2]>>
         /\ DOMAIN fromSS = 1 .. Len(fromSS) /\ Len(fromSS) \in Nat
         /\ DOMAIN gateMsgs = 1 .. Len(gateMsgs) /\ Len(gateMsgs) \in Nat
         /\ 0 \notin Key
<1>1. \A i \in DOMAIN fromSS : fromSS[i] \in SessionMsg
  BY DEF Base, Types
<1>2. \A i \in DOMAIN fromSS : /\ fromSS[i].key \in Key /\ fromSS[i].account \in Account
                               /\ fromSS[i].open \in BOOLEAN
  BY <1>1 DEF SessionMsg
<1>3. \A i \in DOMAIN gateMsgs : gateMsgs[i] \in GateMsg
  BY DEF Base, Types
<1>4. \A i \in DOMAIN gateMsgs : IsChecked(i) => gateMsgs[i].key \in Key
  BY <1>3, GateMsgKinds DEF IsChecked
<1>5. \A s \in checks \cup ssCloses : s[1] \in Account /\ s[2] \in Key /\ s = <<s[1], s[2]>>
  BY DEF Base, Types
<1> QED  BY <1>2, <1>4, <1>5 DEF Base, Types, Key

\* What the session client does with a message.
LEMMA ReceiveMoves ==
  ASSUME LoginAssumption, Base, ClientReceive
  PROVE  LET m == fromSS[1]
         IN  /\ 1 \in DOMAIN fromSS /\ m.account \in Account /\ m.key \in Key /\ m.open \in BOOLEAN
             /\ Len(fromSS) \in Nat /\ DOMAIN fromSS = 1 .. Len(fromSS)
             /\ DOMAIN fromSS' = 1 .. Len(fromSS) - 1
             /\ \A i \in DOMAIN fromSS' : i + 1 \in DOMAIN fromSS /\ fromSS'[i] = fromSS[i + 1]
             /\ Len(gateMsgs) \in Nat /\ DOMAIN gateMsgs = 1 .. Len(gateMsgs)
             /\ m.open => /\ local' = local \cup {<<m.account, m.key>>}
                          /\ DOMAIN gateMsgs' = 1 .. Len(gateMsgs) + 1
                          /\ \A i \in DOMAIN gateMsgs : gateMsgs'[i] = gateMsgs[i]
                          /\ gateMsgs'[Len(gateMsgs) + 1] = Checked(m.account, m.key)
             /\ ~ m.open => local' = local \ {<<m.account, m.key>>} /\ gateMsgs' = gateMsgs
             /\ UNCHANGED <<gateVars, logicVars, checks, opened, logicMsgs, closeReqs, ssCloses>>
<1> DEFINE m == Head(fromSS)
<1>1. /\ UNCHANGED <<gateVars, logicVars, checks, opened, granted, logicMsgs, closeReqs, ssCloses>>
      /\ fromSS # << >> /\ fromSS' = Tail(fromSS)
      /\ local' = IF m.open THEN local \cup {<<m.account, m.key>>}
                  ELSE local \ {<<m.account, m.key>>}
      /\ gateMsgs' = IF m.open THEN Append(gateMsgs, Checked(m.account, m.key)) ELSE gateMsgs
  BY DEF ClientReceive
<1>2. /\ m = fromSS[1] /\ m.account \in Account /\ m.key \in Key /\ m.open \in BOOLEAN
      /\ fromSS' \in Seq(SessionMsg)
      /\ Len(fromSS) \in Nat /\ Len(fromSS) > 0 /\ Len(fromSS') = Len(fromSS) - 1
      /\ \A i \in 1 .. Len(fromSS) - 1 : fromSS'[i] = fromSS[i + 1]
  BY <1>1, ServerHead
<1> HIDE DEF m
<1>3. 1 \in DOMAIN fromSS /\ DOMAIN fromSS = 1 .. Len(fromSS) /\ DOMAIN fromSS' = 1 .. Len(fromSS) - 1
  BY <1>2, KeyFields
<1>4. Len(gateMsgs) \in Nat /\ DOMAIN gateMsgs = 1 .. Len(gateMsgs)
  BY KeyFields
<1>5. Checked(m.account, m.key) \in GateMsg
  BY <1>2 DEF Checked, GateMsg, CheckedMsg
<1> DEFINE out == Checked(m.account, m.key)
<1> HIDE DEF out
<1>6. m.open => /\ DOMAIN gateMsgs' = 1 .. Len(gateMsgs) + 1
                /\ \A i \in DOMAIN gateMsgs : gateMsgs'[i] = gateMsgs[i]
                /\ gateMsgs'[Len(gateMsgs) + 1] = out
  <2>1. m.open => gateMsgs' = Append(gateMsgs, out)
    BY <1>1 DEF out
  <2>2. gateMsgs \in Seq(GateMsg) /\ out \in GateMsg
    BY <1>5 DEF Base, Types, out
  <2> QED  BY <2>1, <2>2, AppendAt
<1>7. \A i \in DOMAIN fromSS' : i + 1 \in DOMAIN fromSS /\ fromSS'[i] = fromSS[i + 1]
  BY <1>2, <1>3
<1> QED  BY <1>1, <1>2, <1>3, <1>4, <1>6, <1>7 DEF out

\* What the session server does with a right password.
LEMMA OpenAppends ==
  ASSUME LoginAssumption, Base, NEW s \in checks, ServerOpen(s[1], s[2])
  PROVE  /\ s[1] \in Account /\ s[2] \in Key
         /\ checks' = checks \ {s}
         /\ Len(fromSS) \in Nat /\ DOMAIN fromSS = 1 .. Len(fromSS)
         /\ DOMAIN fromSS' = 1 .. Len(fromSS) + 1
         /\ \A i \in DOMAIN fromSS : fromSS'[i] = fromSS[i]
         /\ LET m == fromSS'[Len(fromSS) + 1]
            IN  m.open /\ m.account = s[1] /\ m.key = s[2]
         /\ opened' = [opened EXCEPT ![s[1]] = s[2]]
         /\ ssCloses' = IF opened[s[1]] = 0 THEN ssCloses ELSE ssCloses \cup {<<s[1], opened[s[1]]>>}
         /\ UNCHANGED <<gateVars, logicVars, gateMsgs, logicMsgs, local, closeReqs>>
<1> DEFINE m == [open |-> TRUE, account |-> s[1], key |-> s[2]]
<1>1. s[1] \in Account /\ s[2] \in Key /\ s = <<s[1], s[2]>>
  BY KeyFields
<1>2. /\ UNCHANGED <<gateVars, logicVars, gateMsgs, logicMsgs, local, closeReqs>>
      /\ checks' = checks \ {<<s[1], s[2]>>}
      /\ ssCloses' = IF opened[s[1]] = 0 THEN ssCloses ELSE ssCloses \cup {<<s[1], opened[s[1]]>>}
      /\ opened' = [opened EXCEPT ![s[1]] = s[2]]
      /\ fromSS' = Append(fromSS, m)
  BY DEF ServerOpen
<1>3. m \in SessionMsg
  BY <1>1 DEF SessionMsg
<1>4. m.open /\ m.account = s[1] /\ m.key = s[2]
  OBVIOUS
<1> HIDE DEF m
<1>5. fromSS \in Seq(SessionMsg)
  BY DEF Base, Types
<1>6. /\ Len(fromSS) \in Nat /\ DOMAIN fromSS = 1 .. Len(fromSS)
      /\ DOMAIN fromSS' = 1 .. Len(fromSS) + 1
      /\ \A i \in DOMAIN fromSS : fromSS'[i] = fromSS[i]
      /\ fromSS'[Len(fromSS) + 1] = m
  BY <1>2, <1>3, <1>5
<1> QED  BY <1>1, <1>2, <1>4, <1>6

\* What the session server does with a session to be closed.
LEMMA CloseAppends ==
  ASSUME LoginAssumption, Base, NEW s \in ssCloses, ServerClose(s)
  PROVE  /\ s[1] \in Account /\ s[2] \in Key /\ s = <<s[1], s[2]>>
         /\ ssCloses' = ssCloses \ {s}
         /\ Len(fromSS) \in Nat /\ DOMAIN fromSS = 1 .. Len(fromSS)
         /\ UNCHANGED <<gateVars, logicVars, checks, gateMsgs, logicMsgs, local, closeReqs>>
         /\ \/ opened' = opened /\ fromSS' = fromSS
            \/ /\ opened[s[1]] = s[2]
               /\ opened' = [opened EXCEPT ![s[1]] = 0]
               /\ DOMAIN fromSS' = 1 .. Len(fromSS) + 1
               /\ \A i \in DOMAIN fromSS : fromSS'[i] = fromSS[i]
               /\ LET m == fromSS'[Len(fromSS) + 1]
                  IN  m.open = FALSE /\ m.account = s[1] /\ m.key = s[2]
<1> DEFINE m == [open |-> FALSE, account |-> s[1], key |-> s[2]]
<1>1. s[1] \in Account /\ s[2] \in Key /\ s = <<s[1], s[2]>>
  BY KeyFields
<1>2. /\ UNCHANGED <<gateVars, logicVars, checks, gateMsgs, logicMsgs, local, closeReqs>>
      /\ ssCloses' = ssCloses \ {s}
      /\ \/ opened' = opened /\ fromSS' = fromSS
         \/ /\ opened[s[1]] = s[2] /\ opened' = [opened EXCEPT ![s[1]] = 0]
            /\ fromSS' = Append(fromSS, m)
  BY DEF ServerClose
<1>3. m \in SessionMsg
  BY <1>1 DEF SessionMsg
<1>4. m.open = FALSE /\ m.account = s[1] /\ m.key = s[2]
  OBVIOUS
<1> HIDE DEF m
<1>5. fromSS \in Seq(SessionMsg) /\ Len(fromSS) \in Nat /\ DOMAIN fromSS = 1 .. Len(fromSS)
  BY DEF Base, Types
<1>6. CASE opened' = opened /\ fromSS' = fromSS
  BY <1>1, <1>2, <1>5, <1>6
<1>7. CASE /\ opened[s[1]] = s[2] /\ opened' = [opened EXCEPT ![s[1]] = 0]
           /\ fromSS' = Append(fromSS, m)
  <2>1. /\ DOMAIN fromSS' = 1 .. Len(fromSS) + 1
        /\ \A i \in DOMAIN fromSS : fromSS'[i] = fromSS[i]
        /\ fromSS'[Len(fromSS) + 1] = m
    BY <1>3, <1>5, <1>7
  <2> QED  BY <1>1, <1>2, <1>4, <1>5, <1>7, <2>1
<1> QED  BY <1>2, <1>6, <1>7

\* What the gate thread does when the password is to be checked.
LEMMA CheckAsks ==
  ASSUME LoginAssumption, Base, NEW p \in DOMAIN users, NEW a \in Account, GateCheck(p, a)
  PROVE  /\ p \in Present /\ ~ users[p].asked /\ users[p].key \in Key /\ users[p].key \in 1 .. conns
         /\ checks' = checks \cup {<<a, users[p].key>>}
         /\ Present' = Present /\ \A q \in Present : users'[q].key = users[q].key
         /\ \A q \in Present : users[q].key = users[p].key => q = p
         /\ users'[p].account = users[p].account /\ users'[p].char = users[p].char /\ users'[p].asked
         /\ \A q \in Present : q # p => users'[q] = users[q]
         /\ UNCHANGED <<conns, logins, logicVars, opened, fromSS, gateMsgs, logicMsgs, local, closeReqs,
                        ssCloses>>
<1>1. /\ Staying /\ p \in Present
      /\ users'[p].account = users[p].account /\ users'[p].char = users[p].char /\ users'[p].asked
      /\ \A q \in Present : q # p => users'[q] = users[q]
  BY CheckStays
<1>2. users[p].key \in Key /\ users[p].key \in 1 .. conns
  BY <1>1, PresentUsers DEF Base, KeysUnique
<1>3. Present' = Present /\ \A q \in Present : users'[q].key = users[q].key
  BY <1>1 DEF Staying
<1>4. \A q \in Present : users[q].key = users[p].key => q = p
  BY <1>1 DEF Base, KeysUnique
<1> QED  BY <1>1, <1>2, <1>3, <1>4 DEF GateCheck

\* A session is closed for a connection that was made.
LEMMA RequestsKept ==
  ASSUME LoginAssumption, Base, Base', LoginsOnce, [Next]_vars, \A s \in closeReqs : s[2] <= conns
  PROVE  \A s \in closeReqs' : s[2] <= conns
<1>1. \A x \in actors : x.key <= conns
  <2>1. \A x \in actors : x.key \in Key /\ LoggingIn(x.key)
    BY ActorFields DEF LoggingIn
  <2> QED  BY <2>1 DEF LoginsOnce
<1>2. ASSUME NEW closed \in SUBSET actors, Closing(closed)
      PROVE  \A s \in closeReqs' : s[2] <= conns
  BY <1>1, <1>2 DEF Closing
<1>3. CASE LogicCreate
  <2>1. \E closed \in SUBSET actors : Closing(closed)
    BY <1>3, CreateHead DEF Handled
  <2> QED  BY <1>2, <2>1
<1>4. CASE LogicLogout
  <2> DEFINE m == Head(logicMsgs)
  <2>1. /\ m \in LogoutMsg /\ logicMsgs # << >>
        /\ \/ closeReqs' = closeReqs \cup {<<m.account, m.key>>}
           \/ \E closed \in SUBSET actors : Closing(closed)
    BY <1>4, LogoutHandled
  <2>2. m.key <= conns
    <3>1. 1 \in DOMAIN logicMsgs /\ logicMsgs[1] = m
      BY <2>1, LogicHead
    <3>2. m.type = "logout"
      BY <2>1 DEF LogoutMsg
    <3> HIDE DEF m
    <3>3. IsLogout(1)
      BY <3>1, <3>2 DEF IsLogout
    <3> QED  BY <3>1, <3>3 DEF LoginsOnce
  <2> HIDE DEF m
  <2> QED  BY <1>2, <2>1, <2>2
<1>5. CASE \E x \in actors : LogicClose(x)
  <2>1. \E closed \in SUBSET actors : Closing(closed)
    BY <1>5, ActorCloses
  <2> QED  BY <1>2, <2>1
<1>6. CASE closeReqs' \subseteq closeReqs
  BY <1>6
<1>7. LogicCreate \/ LogicLogout \/ (\E x \in actors : LogicClose(x)) \/ closeReqs' \subseteq closeReqs
  BY Steps DEF vars, GateOpen, GateClose, GateCheck, GateLogin, GateLost, GateChecked,
               GateKick, GateCloseSock, GateSetHandle, LogicLoaded, ClientClose, ClientReceive,
               ServerOpen, ServerClose
<1> QED  BY <1>3, <1>4, <1>5, <1>6, <1>7

\* Nothing is asked of the session server.
LEMMA GrantedStays ==
  ASSUME LoginAssumption, Base, Base', GrantedOnce,
         checks' \cup granted' = checks \cup granted, checks' \cap granted' = {},
         \A s \in closeReqs' : s[2] <= conns, conns <= conns',
         \A p \in Present' :
           \/ p \in Present /\ users'[p].key = users[p].key /\ (users[p].asked => users'[p].asked)
           \/ users'[p].key = conns + 1
  PROVE  GrantedOnce'
<1>1. conns \in Nat /\ conns' \in Nat
  BY DEF Base, Types
<1>2. \A s \in checks \cup granted \cup closeReqs' : s[2] \in Nat
  <2>1. \A s \in closeReqs' : s[2] \in 0 .. MaxConns
    BY DEF Base, Types
  <2>2. \A s \in checks \cup granted : s[2] \in Key
    BY DEF Base, Types
  <2> QED  BY <2>1, <2>2 DEF Key
<1>3. \A s \in checks' \cup granted' \cup closeReqs' : s[2] <= conns'
  <2>1. \A s \in checks \cup granted \cup closeReqs' : s[2] <= conns
    BY DEF GrantedOnce
  <2> QED  BY <1>1, <1>2, <2>1
<1>4. \A p \in Present' : users'[p].asked \/ \A s \in checks' \cup granted' : s[2] # users'[p].key
  <2> SUFFICES ASSUME NEW p \in Present', ~ users'[p].asked, NEW s \in checks \cup granted
               PROVE  s[2] # users'[p].key
    OBVIOUS
  <2>1. CASE p \in Present /\ users'[p].key = users[p].key /\ (users[p].asked => users'[p].asked)
    BY <2>1 DEF GrantedOnce
  <2>2. CASE users'[p].key = conns + 1
    BY <1>1, <1>2, <2>2 DEF GrantedOnce
  <2> QED  BY <2>1, <2>2
<1>5. \A s, t \in checks' \cup granted' : s[2] = t[2] => s = t
  BY DEF GrantedOnce
<1> QED  BY <1>3, <1>4, <1>5 DEF GrantedOnce

LEMMA CheckGranted ==
  ASSUME LoginAssumption, Base, GrantedOnce, NEW p \in DOMAIN users, NEW a \in Account, GateCheck(p, a)
  PROVE  GrantedOnce'
<1> DEFINE k == users[p].key
           new == <<a, k>>
<1>1. /\ p \in Present /\ ~ users[p].asked /\ k \in 1 .. conns
      /\ checks' = checks \cup {new} /\ granted' = granted
      /\ Present' = Present /\ users'[p].asked
      /\ \A q \in Present : users[q].key = k => q = p
      /\ \A q \in Present : q # p => users'[q] = users[q]
      /\ conns' = conns /\ closeReqs' = closeReqs
  BY CheckAsks DEF GateCheck
<1>2. \A s \in checks \cup granted : s[2] # k
  BY <1>1 DEF GrantedOnce
<1>3. new[2] = k /\ k <= conns
  BY <1>1 DEF Base, Types
<1> HIDE DEF new
<1>4. checks' \cap granted' = {}
  BY <1>1, <1>2, <1>3 DEF GrantedOnce
<1>5. \A s, t \in checks' \cup granted' : s[2] = t[2] => s = t
  BY <1>1, <1>2, <1>3 DEF GrantedOnce
<1>6. \A s \in checks' \cup granted' \cup closeReqs' : s[2] <= conns'
  BY <1>1, <1>3 DEF GrantedOnce
<1>7. \A q \in Present' : users'[q].asked \/ \A s \in checks' \cup granted' : s[2] # users'[q].key
  <2> SUFFICES ASSUME NEW q \in Present, q # p, ~ users'[q].asked, NEW s \in checks' \cup granted'
               PROVE  s[2] # users'[q].key
    BY <1>1
  <2>1. users'[q] = users[q] /\ users[q].key # k
    BY <1>1
  <2>2. s \in checks \cup granted \/ s[2] = k
    BY <1>1, <1>3
  <2> QED  BY <2>1, <2>2 DEF GrantedOnce
<1> QED  BY <1>4, <1>5, <1>6, <1>7 DEF GrantedOnce

LEMMA GrantedKept ==
  ASSUME LoginAssumption, Base, Base', LoginsOnce, GrantedOnce, [Next]_vars
  PROVE  GrantedOnce'
<1>1. \A s \in closeReqs' : s[2] <= conns
  BY RequestsKept DEF GrantedOnce
<1>2. conns \in Nat
  BY DEF Base, Types
<1>3. CASE \E s \in checks : ServerOpen(s[1], s[2])
  <2>1. PICK s \in checks : ServerOpen(s[1], s[2])
    BY <1>3
  <2>2. /\ checks' = checks \ {s} /\ granted' = granted \cup {s}
        /\ users' = users /\ conns' = conns
    <3>1. s = <<s[1], s[2]>>
      BY KeyFields
    <3> QED  BY <2>1, <3>1 DEF ServerOpen, gateVars
  <2>3. Present' = Present
    BY <2>2 DEF Present
  <2>4. checks' \cap granted' = {} /\ checks' \cup granted' = checks \cup granted
    BY <2>2 DEF GrantedOnce
  <2> QED  BY <1>1, <1>2, <2>2, <2>3, <2>4, GrantedStays
<1>4. CASE \E p \in DOMAIN users, a \in Account : GateCheck(p, a)
  BY <1>4, CheckGranted
<1>5. CASE UserLogin
  <2>1. PICK p \in DOMAIN users, a \in Account, c \in Character : GateLogin(p, a, c)
    BY <1>5 DEF UserLogin
  <2>2. checks' = checks /\ granted' = granted
    BY <2>1 DEF GateLogin, serverVars
  <2>3. /\ Present' = Present /\ \A q \in Present : users'[q].key = users[q].key
        /\ \A q \in Present : q # p => users'[q] = users[q]
        /\ users'[p].asked = users[p].asked /\ conns' = conns
    BY <2>1, LoginAppends
  <2> QED  BY <1>1, <1>2, <2>2, <2>3, GrantedStays DEF GrantedOnce
<1>6. CASE ~ UserLogin /\ checks' = checks /\ granted' = granted
  <2>1. UsersGoOn
    BY <1>6, UsersGo DEF UsersQuiet
  <2> QED  BY <1>1, <1>6, <2>1, GrantedStays DEF UsersGoOn, GrantedOnce
<1>7. \/ \E s \in checks : ServerOpen(s[1], s[2])
      \/ \E p \in DOMAIN users, a \in Account : GateCheck(p, a)
      \/ UserLogin
      \/ checks' = checks /\ granted' = granted
  BY Steps DEF UserLogin, vars, serverVars, GateOpen, GateClose, GateLost, GateChecked,
               GateKick, GateCloseSock, GateSetHandle, LogicCreate, LogicLogout, LogicLoaded, LogicClose,
               ClientClose, ClientReceive, ServerClose
<1> QED  BY <1>3, <1>4, <1>5, <1>6, <1>7

\* Nobody speaks of a session that was not given.
LEMMA AllGrantedKept ==
  ASSUME LoginAssumption, Base, Base', LoginsOnce, AllGranted, [Next]_vars
  PROVE  AllGranted'
<1>1. granted \subseteq granted'
  BY NotesGrow
<1> USE DEF AllGranted
<1>2. opened \in [Account -> 0 .. MaxConns]
  BY DEF Base, Types
<1>3. /\ local' \cup ssCloses' \subseteq granted'
      /\ \A a \in Account : opened'[a] = 0 \/ <<a, opened'[a]>> \in granted'
      /\ \A i \in DOMAIN fromSS' : <<fromSS'[i].account, fromSS'[i].key>> \in granted'
  <2>1. CASE ClientReceive
    <3> DEFINE m == fromSS[1]
    <3>1. /\ 1 \in DOMAIN fromSS /\ m.open \in BOOLEAN
          /\ \A i \in DOMAIN fromSS' : i + 1 \in DOMAIN fromSS /\ fromSS'[i] = fromSS[i + 1]
          /\ m.open => local' = local \cup {<<m.account, m.key>>}
          /\ ~ m.open => local' = local \ {<<m.account, m.key>>}
          /\ opened' = opened /\ ssCloses' = ssCloses
      BY <2>1, ReceiveMoves
    <3>2. <<m.account, m.key>> \in granted
      BY <3>1
    <3> HIDE DEF m
    <3> QED  BY <1>1, <3>1, <3>2
  <2>2. CASE \E s \in checks : ServerOpen(s[1], s[2])
    <3>1. PICK s \in checks : ServerOpen(s[1], s[2])
      BY <2>2
    <3>2. /\ s[1] \in Account /\ s[2] \in Key
          /\ Len(fromSS) \in Nat /\ DOMAIN fromSS = 1 .. Len(fromSS)
          /\ DOMAIN fromSS' = 1 .. Len(fromSS) + 1
          /\ \A i \in DOMAIN fromSS : fromSS'[i] = fromSS[i]
          /\ fromSS'[Len(fromSS) + 1].account = s[1] /\ fromSS'[Len(fromSS) + 1].key = s[2]
          /\ opened' = [opened EXCEPT ![s[1]] = s[2]]
          /\ ssCloses' = IF opened[s[1]] = 0 THEN ssCloses ELSE ssCloses \cup {<<s[1], opened[s[1]]>>}
          /\ local' = local
      BY <3>1, OpenAppends
    <3>3. <<s[1], s[2]>> \in granted'
      BY <3>1 DEF ServerOpen
    <3>4. ssCloses' \subseteq granted
      BY <3>2
    <3>5. \A a \in Account : opened'[a] = 0 \/ <<a, opened'[a]>> \in granted'
      <4> SUFFICES ASSUME NEW a \in Account PROVE opened'[a] = 0 \/ <<a, opened'[a]>> \in granted'
        OBVIOUS
      <4>1. CASE a = s[1]
        BY <1>2, <3>2, <3>3, <4>1
      <4>2. CASE a # s[1]
        <5>1. opened'[a] = opened[a]
          BY <1>2, <3>2, <4>2
        <5> QED  BY <1>1, <5>1
      <4> QED  BY <4>1, <4>2
    <3>6. \A i \in DOMAIN fromSS' : i = Len(fromSS) + 1 \/ (i \in DOMAIN fromSS /\ fromSS'[i] = fromSS[i])
      BY <3>2
    <3>7. \A i \in DOMAIN fromSS' : <<fromSS'[i].account, fromSS'[i].key>> \in granted'
      BY <1>1, <3>2, <3>3, <3>6
    <3> QED  BY <1>1, <3>2, <3>4, <3>5, <3>7
  <2>3. CASE \E s \in ssCloses : ServerClose(s)
    <3>1. PICK s \in ssCloses : ServerClose(s)
      BY <2>3
    <3>2. /\ s[1] \in Account /\ s = <<s[1], s[2]>>
          /\ ssCloses' = ssCloses \ {s} /\ local' = local
          /\ Len(fromSS) \in Nat /\ DOMAIN fromSS = 1 .. Len(fromSS)
          /\ \/ opened' = opened /\ fromSS' = fromSS
             \/ /\ opened' = [opened EXCEPT ![s[1]] = 0]
                /\ DOMAIN fromSS' = 1 .. Len(fromSS) + 1
                /\ \A i \in DOMAIN fromSS : fromSS'[i] = fromSS[i]
                /\ fromSS'[Len(fromSS) + 1].account = s[1] /\ fromSS'[Len(fromSS) + 1].key = s[2]
      BY <3>1, CloseAppends
    <3>3. \A a \in Account : opened'[a] = opened[a] \/ opened'[a] = 0
      BY <1>2, <3>2
    <3>4. \A i \in DOMAIN fromSS' :
            \/ i \in DOMAIN fromSS /\ fromSS'[i] = fromSS[i]
            \/ fromSS'[i].account = s[1] /\ fromSS'[i].key = s[2]
      BY <3>2
    <3>5. <<s[1], s[2]>> \in granted
      BY <3>2
    <3>6. \A i \in DOMAIN fromSS' : <<fromSS'[i].account, fromSS'[i].key>> \in granted'
      BY <1>1, <3>4, <3>5
    <3>7. \A a \in Account : opened'[a] = 0 \/ <<a, opened'[a]>> \in granted'
      BY <1>1, <3>3
    <3> QED  BY <1>1, <3>2, <3>6, <3>7
  <2>4. CASE \E s \in closeReqs : ClientClose(s)
    BY <1>1, <2>4 DEF ClientClose, serverVars
  <2>5. CASE local' = local /\ ssCloses' = ssCloses /\ opened' = opened /\ fromSS' = fromSS
    BY <1>1, <2>5
  <2>6. \/ ClientReceive
        \/ \E s \in checks : ServerOpen(s[1], s[2])
        \/ \E s \in ssCloses : ServerClose(s)
        \/ \E s \in closeReqs : ClientClose(s)
        \/ local' = local /\ ssCloses' = ssCloses /\ opened' = opened /\ fromSS' = fromSS
    BY Steps DEF vars, serverVars, GateOpen, GateClose, GateCheck, GateLogin, GateLost, GateChecked,
                 GateKick, GateCloseSock, GateSetHandle, LogicCreate, LogicLogout, LogicLoaded, LogicClose
  <2> QED  BY <2>1, <2>2, <2>3, <2>4, <2>5, <2>6
<1>4. \A i \in DOMAIN gateMsgs' : IsChecked(i)' => <<gateMsgs'[i].account, gateMsgs'[i].key>> \in granted'
  <2>1. CASE ClientReceive
    <3> DEFINE m == fromSS[1]
    <3>1. /\ 1 \in DOMAIN fromSS /\ m.open \in BOOLEAN
          /\ Len(gateMsgs) \in Nat /\ DOMAIN gateMsgs = 1 .. Len(gateMsgs)
          /\ m.open => /\ DOMAIN gateMsgs' = 1 .. Len(gateMsgs) + 1
                       /\ \A i \in DOMAIN gateMsgs : gateMsgs'[i] = gateMsgs[i]
                       /\ gateMsgs'[Len(gateMsgs) + 1] = Checked(m.account, m.key)
          /\ ~ m.open => gateMsgs' = gateMsgs
      BY <2>1, ReceiveMoves
    <3>2. <<m.account, m.key>> \in granted
      BY <3>1
    <3>3. Checked(m.account, m.key).account = m.account /\ Checked(m.account, m.key).key = m.key
      BY DEF Checked
    <3> HIDE DEF m
    <3>4. \A i \in DOMAIN gateMsgs' :
            \/ i \in DOMAIN gateMsgs /\ gateMsgs'[i] = gateMsgs[i]
            \/ gateMsgs'[i] = Checked(m.account, m.key)
      BY <3>1
    <3> QED  BY <1>1, <3>2, <3>3, <3>4 DEF IsChecked
  <2>2. CASE ~ ClientReceive
    <3>1. PICK n \in {0, 1}, more \in Seq(GateMsg) : GateMoved(n, more)
      BY GateGo DEF GateGoesOn
    <3>2. gateMsgs \in Seq(GateMsg) /\ gateMsgs' \in Seq(GateMsg)
      BY DEF Base, Types
    <3>3. \A i \in DOMAIN gateMsgs' :
            \/ i + n \in DOMAIN gateMsgs /\ gateMsgs'[i] = gateMsgs[i + n]
            \/ /\ i - (Len(gateMsgs) - n) \in DOMAIN more
               /\ gateMsgs'[i] = more[i - (Len(gateMsgs) - n)]
      BY <3>1, <3>2, MovedAt DEF GateMoved
    <3>4. \A i \in DOMAIN more : more[i].type # "checked"
      BY <2>2, <3>1 DEF GateMoved
    <3>5. \A i \in DOMAIN gateMsgs' : IsChecked(i)' =>
            i + n \in DOMAIN gateMsgs /\ IsChecked(i + n) /\ gateMsgs'[i] = gateMsgs[i + n]
      BY <3>3, <3>4 DEF IsChecked
    <3> QED  BY <1>1, <3>5
  <2> QED  BY <2>1, <2>2
<1>5. \A x \in actors' : <<x.account, x.key>> \in granted'
  <2>1. CASE LogicCreate
    <3> DEFINE m == Head(logicMsgs)
    <3>1. PICK closed \in SUBSET actors : Handled(m, closed)
      BY <2>1, CreateHead
    <3>2. \A x \in actors' : x \in actors \/ (x = Made(m) /\ <<m.account, m.key>> \in local)
      BY <3>1, CreateActors
    <3>3. Made(m).account = m.account /\ Made(m).key = m.key
      BY DEF Made
    <3> HIDE DEF m
    <3> QED  BY <1>1, <3>2, <3>3
  <2>2. CASE ~ LogicCreate
    <3>1. PICK f \in [actors' -> actors] : \A x \in actors' : x.account = f[x].account /\ x.key = f[x].key
      BY <2>2, ActorsStayOn DEF ActorsStay
    <3> QED  BY <1>1, <3>1
  <2> QED  BY <2>1, <2>2
<1> QED  BY <1>3, <1>4, <1>5

\* An account that is calm after a step was so before, and its actors are single.
LEMMA SingleBefore ==
  ASSUME LoginAssumption, Base, [Next]_vars
  PROVE  \A a, k : Single(a, k)' => Single(a, k)
BY NotesGrow DEF Single

LEMMA CalmActors ==
  ASSUME LoginAssumption, Base, Base', GrantedOnce', AllGranted', [Next]_vars
  PROVE  CalmOn
<1>1. again \subseteq again' /\ granted \subseteq granted' /\ \A a : Calm(a)' => Calm(a)
  BY NotesGrow
<1> SUFFICES ASSUME NEW x \in actors', Calm(x.account)'
             PROVE  Calm(x.account) /\ Single(x.account, x.key) /\ x.key \notin again'
  BY DEF CalmOn
<1>2. <<x.account, x.key>> \in granted'
  BY DEF AllGranted
<1>3. x.key \notin again'
  BY <1>2 DEF Calm
<1>4. \A b \in Account : <<b, x.key>> \in granted' => b = x.account
  <2> SUFFICES ASSUME NEW b \in Account, <<b, x.key>> \in granted' PROVE b = x.account
    OBVIOUS
  <2>1. <<b, x.key>>[2] = <<x.account, x.key>>[2]
    OBVIOUS
  <2>2. <<b, x.key>> = <<x.account, x.key>>
    BY <1>2, <2>1 DEF GrantedOnce
  <2> QED  BY <2>2
<1> QED  BY <1>1, <1>3, <1>4 DEF Single

-----------------------------------------------------------------------------
(* A session that is needed is not closed *)

\* Who needs a session did so before, but for a new connection.
LEMMA NeededBefore ==
  ASSUME LoginAssumption, Base, Base', UsersQuiet, ActorsStay
  PROVE  \A a \in Account, k \in Key : Needed(a, k)' => Needed(a, k) \/ k = conns + 1
<1> SUFFICES ASSUME NEW a \in Account, NEW k \in Key, Needed(a, k)' PROVE Needed(a, k) \/ k = conns + 1
  OBVIOUS
<1>1. CASE \E x \in actors' : x.account = a /\ x.key = k
  <2>1. PICK f \in [actors' -> actors] : \A x \in actors' : x.account = f[x].account /\ x.key = f[x].key
    BY DEF ActorsStay
  <2> QED  BY <1>1, <2>1 DEF Needed
<1>2. CASE \E i \in DOMAIN logicMsgs' :
             IsCreate(i)' /\ logicMsgs'[i].account = a /\ logicMsgs'[i].key = k
  <2>1. PICK n \in {0, 1}, more \in Seq(LogoutMsg) : Moved(logicMsgs, logicMsgs', n, more)
    BY DEF UsersQuiet
  <2>2. \A i \in DOMAIN logicMsgs' : IsCreate(i)' =>
          i + n \in DOMAIN logicMsgs /\ IsCreate(i + n) /\ logicMsgs'[i] = logicMsgs[i + n]
    <3>1. /\ \A i \in DOMAIN logicMsgs' :
               \/ i + n \in DOMAIN logicMsgs /\ logicMsgs'[i] = logicMsgs[i + n]
               \/ logicMsgs'[i].type = "logout"
          /\ \A i \in DOMAIN logicMsgs' : IsCreate(i)' => IsCreate(i + n)
      BY <2>1, QuietMessages
    <3> QED  BY <3>1 DEF IsCreate
  <2> QED  BY <1>2, <2>2 DEF Needed
<1>3. CASE \E p \in Present' : users'[p].key = k /\ users'[p].char = NoChar
  BY <1>3 DEF UsersQuiet, UsersGoOn, Needed, HasKey
<1> QED  BY <1>1, <1>2, <1>3 DEF Needed, HasKey

LEMMA NeededBeforeLogin ==
  ASSUME LoginAssumption, Base, NEW p \in DOMAIN users, NEW a0 \in Account,
         NEW c \in Character, GateLogin(p, a0, c)
  PROVE  \A a \in Account, k \in Key : k \notin again' /\ Needed(a, k)' => Needed(a, k)
<1> DEFINE n == Len(logicMsgs)
<1>1. /\ p \in Present /\ c # NoChar
      /\ users[p].char = NoChar \/ users[p].key \in again'
      /\ Present' = Present /\ \A q \in Present : users'[q].key = users[q].key
      /\ \A q \in Present : q # p => users'[q] = users[q]
      /\ users'[p].char = c
      /\ n \in Nat /\ DOMAIN logicMsgs = 1 .. n /\ DOMAIN logicMsgs' = 1 .. n + 1
      /\ \A i \in 1 .. n : logicMsgs'[i] = logicMsgs[i]
      /\ logicMsgs'[n + 1].key = users[p].key
      /\ actors' = actors
  BY LoginAppends
<1> HIDE DEF n
<1> SUFFICES ASSUME NEW a \in Account, NEW k \in Key, k \notin again', Needed(a, k)'
             PROVE  Needed(a, k)
  OBVIOUS
<1>2. CASE \E x \in actors' : x.account = a /\ x.key = k
  BY <1>1, <1>2 DEF Needed
<1>3. CASE \E i \in DOMAIN logicMsgs' :
             IsCreate(i)' /\ logicMsgs'[i].account = a /\ logicMsgs'[i].key = k
  <2>1. PICK i \in DOMAIN logicMsgs' :
             IsCreate(i)' /\ logicMsgs'[i].account = a /\ logicMsgs'[i].key = k
    BY <1>3
  <2>2. CASE i = n + 1
    BY <1>1, <2>1, <2>2 DEF Needed, HasKey
  <2>3. CASE i # n + 1
    <3>1. i \in DOMAIN logicMsgs /\ logicMsgs'[i] = logicMsgs[i]
      BY <1>1, <2>3
    <3>2. IsCreate(i)
      BY <2>1, <3>1 DEF IsCreate
    <3> QED  BY <2>1, <3>1, <3>2 DEF Needed
  <2> QED  BY <2>2, <2>3
<1>4. CASE \E q \in Present' : users'[q].key = k /\ users'[q].char = NoChar
  BY <1>1, <1>4 DEF Needed, HasKey
<1> QED  BY <1>2, <1>3, <1>4 DEF Needed, HasKey

LEMMA NeededBeforeCreate ==
  ASSUME LoginAssumption, Base, LoginsOnce, LogicCreate
  PROVE  \A a \in Account, k \in Key : Needed(a, k)' => Needed(a, k)
<1> DEFINE m == Head(logicMsgs)
<1>1. /\ logicMsgs[1] = m /\ IsCreate(1) /\ 1 \in DOMAIN logicMsgs
      /\ \A i \in DOMAIN logicMsgs' : i + 1 \in DOMAIN logicMsgs /\ logicMsgs'[i] = logicMsgs[i + 1]
      /\ users' = users
  BY CreateHead DEF gateVars
<1>2. \A x \in actors' : x \in actors \/ x = Made(m)
  BY CreateHead, CreateActors
<1>3. Made(m).account = m.account /\ Made(m).key = m.key
  BY DEF Made
<1> HIDE DEF m
<1>4. Present' = Present
  BY <1>1 DEF Present
<1> SUFFICES ASSUME NEW a \in Account, NEW k \in Key, Needed(a, k)' PROVE Needed(a, k)
  OBVIOUS
<1>5. CASE \E x \in actors' : x.account = a /\ x.key = k
  BY <1>1, <1>2, <1>3, <1>5 DEF Needed
<1>6. CASE \E i \in DOMAIN logicMsgs' :
             IsCreate(i)' /\ logicMsgs'[i].account = a /\ logicMsgs'[i].key = k
  <2>1. \A i \in DOMAIN logicMsgs' : IsCreate(i)' => IsCreate(i + 1)
    BY <1>1 DEF IsCreate
  <2> QED  BY <1>1, <1>6, <2>1 DEF Needed
<1>7. CASE \E q \in Present' : users'[q].key = k /\ users'[q].char = NoChar
  BY <1>1, <1>4, <1>7 DEF Needed, HasKey
<1> QED  BY <1>5, <1>6, <1>7 DEF Needed, HasKey

\* What is needed after a step is not being closed before it.
LEMMA NeededNotClosing ==
  ASSUME LoginAssumption, Base, Base', LoginsOnce, GrantedOnce, AllGranted, SessionsKept, [Next]_vars
  PROVE  \A a \in Account, k \in Key : k \notin again' /\ Needed(a, k)' => NotClosing(a, k)
<1>1. \A a \in Account, k \in Key :
        k \notin again' /\ Needed(a, k)' => Needed(a, k) \/ k = conns + 1
  <2>1. CASE UserLogin
    BY <2>1, NeededBeforeLogin DEF UserLogin
  <2>2. CASE LogicCreate
    BY <2>2, NeededBeforeCreate
  <2>3. CASE ~ UserLogin /\ ~ LogicCreate
    BY <2>3, UsersGo, ActorsStayOn, NeededBefore
  <2> QED  BY <2>1, <2>2, <2>3
<1>2. \A a \in Account, k \in Key : k = conns + 1 => NotClosing(a, k)
  <2> SUFFICES ASSUME NEW a \in Account, NEW k \in Key, k = conns + 1 PROVE NotClosing(a, k)
    OBVIOUS
  <2>1. ~ (k <= conns)
    BY DEF Base, Types
  <2>2. \A b : <<b, k>> \notin granted \cup closeReqs
    <3>1. \A b : <<b, k>>[2] = k
      OBVIOUS
    <3> QED  BY <2>1, <3>1 DEF GrantedOnce
  <2>3. <<a, k>> \notin ssCloses
    BY <2>2 DEF AllGranted
  <2>4. \A i \in DOMAIN fromSS : fromSS[i].key # k
    BY <2>2 DEF AllGranted
  <2> QED  BY <2>2, <2>3, <2>4 DEF NotClosing
<1>3. again \subseteq again'
  BY NotesGrow
<1> QED  BY <1>1, <1>2, <1>3 DEF SessionsKept

\* An actor that is closed needed its session, and nobody else does.
LEMMA ClosedNotNeeded ==
  ASSUME LoginAssumption, Base, LoginsOnce, NEW closed \in SUBSET actors, NEW x \in closed,
         NEW a \in Account, NEW k \in Key, x.account = a, x.key = k, k \notin again,
         users' = users, logicMsgs' = logicMsgs \/ (logicMsgs # << >> /\ logicMsgs' = Tail(logicMsgs)),
         \A y \in actors' : y \in actors \ closed \/ y.key # k
  PROVE  ~ Needed(a, k)'
<1>1. \A y \in actors' : y.key # k
  BY DEF LoginsOnce
<1>2. \A i \in DOMAIN logicMsgs : IsCreate(i) => logicMsgs[i].key # k
  BY DEF LoginsOnce
<1>3. \A p \in Present : users[p].key = k => users[p].char # NoChar
  BY DEF LoginsOnce, LoggingIn, HasKey
<1>4. Present' = Present
  BY DEF Present
<1>5. \A i \in DOMAIN logicMsgs' : IsCreate(i)' => logicMsgs'[i].key # k
  <2>1. CASE logicMsgs' = logicMsgs
    BY <1>2, <2>1 DEF IsCreate
  <2>2. CASE logicMsgs # << >> /\ logicMsgs' = Tail(logicMsgs)
    <3>1. \A i \in DOMAIN logicMsgs' : i + 1 \in DOMAIN logicMsgs /\ logicMsgs'[i] = logicMsgs[i + 1]
      <4>1. /\ logicMsgs' \in Seq(LogicMsg) /\ Len(logicMsgs) \in Nat
            /\ Len(logicMsgs') = Len(logicMsgs) - 1
            /\ \A i \in 1 .. Len(logicMsgs) - 1 : logicMsgs'[i] = logicMsgs[i + 1]
        BY <2>2, LogicHead
      <4>2. logicMsgs \in Seq(LogicMsg)
        BY DEF Base, Types
      <4>3. DOMAIN logicMsgs = 1 .. Len(logicMsgs) /\ DOMAIN logicMsgs' = 1 .. Len(logicMsgs) - 1
        BY <4>1, <4>2
      <4> QED  BY <4>1, <4>3
    <3> QED  BY <1>2, <3>1 DEF IsCreate
  <2> QED  BY <2>1, <2>2
<1> QED  BY <1>1, <1>3, <1>4, <1>5 DEF Needed, HasKey

\* Nothing but a request to close sessions is new.
LEMMA RequestsNotClosing ==
  ASSUME NEW a \in Account, NEW k \in Key, NotClosing(a, k), <<a, k>> \notin closeReqs',
         ssCloses' = ssCloses, opened' = opened, fromSS' = fromSS
  PROVE  NotClosing(a, k)'
BY DEF NotClosing

LEMMA ClosingNotClosing ==
  ASSUME LoginAssumption, Base, LoginsOnce, NEW closed \in SUBSET actors, Closing(closed),
         users' = users, logicMsgs' = logicMsgs \/ (logicMsgs # << >> /\ logicMsgs' = Tail(logicMsgs)),
         \A y \in actors' :
           y \in actors \ closed \/ y.key \in again \/ \A x \in actors : y.key # x.key,
         ssCloses' = ssCloses, opened' = opened, fromSS' = fromSS,
         NEW a \in Account, NEW k \in Key, k \notin again, Needed(a, k)', NotClosing(a, k)
  PROVE  NotClosing(a, k)'
<1>1. <<a, k>> \notin closeReqs'
  <2> SUFFICES ASSUME <<a, k>> \in closeReqs' PROVE FALSE
    OBVIOUS
  <2>1. <<a, k>> \notin closeReqs
    BY DEF NotClosing
  <2>2. PICK x \in closed : <<a, k>> = <<x.account, x.key>>
    BY <2>1 DEF Closing
  <2>3. x.account = a /\ x.key = k
    BY <2>2
  <2>4. \A y \in actors' : y \in actors \ closed \/ y.key # k
    BY <2>3
  <2> QED  BY <2>3, <2>4, ClosedNotNeeded
<1> QED  BY <1>1, RequestsNotClosing


LEMMA CreateNotClosing ==
  ASSUME LoginAssumption, Base, LoginsOnce, LogicCreate,
         NEW a \in Account, NEW k \in Key, k \notin again, Needed(a, k)', NotClosing(a, k)
  PROVE  NotClosing(a, k)'
<1> DEFINE m == Head(logicMsgs)
<1>1. /\ m.key \in again \/ \A x \in actors : x.key # m.key
      /\ users' = users /\ opened' = opened /\ fromSS' = fromSS /\ ssCloses' = ssCloses
  BY CreateHead DEF gateVars, serverVars
<1>2. logicMsgs # << >> /\ logicMsgs' = Tail(logicMsgs)
  BY DEF LogicCreate, IsNext
<1>3. PICK closed \in SUBSET actors : Handled(m, closed)
  BY CreateHead
<1>4. Closing(closed) /\ \A x \in actors' : x \in actors \ closed \/ x = Made(m)
  BY <1>3, CreateActors, MadeBy
<1>5. Made(m).key = m.key
  BY DEF Made
<1> HIDE DEF m
<1>6. \A y \in actors' :
        y \in actors \ closed \/ y.key \in again \/ \A x \in actors : y.key # x.key
  BY <1>1, <1>4, <1>5
<1> QED  BY <1>1, <1>2, <1>4, <1>6, ClosingNotClosing

LEMMA LogoutNotClosing ==
  ASSUME LoginAssumption, Base, LoginsOnce, LogicLogout,
         NEW a \in Account, NEW k \in Key, k \notin again, Needed(a, k)', NotClosing(a, k)
  PROVE  NotClosing(a, k)'
<1> DEFINE m == Head(logicMsgs)
<1>1. /\ m \in LogoutMsg
      /\ logicMsgs # << >> /\ logicMsgs' = Tail(logicMsgs)
      /\ \/ /\ \A x \in actors : x.account # m.account
            /\ actors' = actors /\ closeReqs' = closeReqs \cup {<<m.account, m.key>>}
         \/ \E closed \in SUBSET actors : Closing(closed) /\ actors' = actors \ closed
  BY LogoutHandled
<1>2. users' = users /\ opened' = opened /\ fromSS' = fromSS /\ ssCloses' = ssCloses
  BY DEF LogicLogout, gateVars, serverVars
<1>3. CASE \E closed \in SUBSET actors : Closing(closed) /\ actors' = actors \ closed
  BY <1>1, <1>2, <1>3, ClosingNotClosing
<1>4. CASE /\ \A x \in actors : x.account # m.account
           /\ actors' = actors /\ closeReqs' = closeReqs \cup {<<m.account, m.key>>}
  <2>1. CASE a # m.account \/ k # m.key
    <3>1. <<a, k>> \notin closeReqs'
      BY <1>4, <2>1 DEF NotClosing
    <3> QED  BY <1>2, <3>1, RequestsNotClosing
  <2>2. CASE a = m.account /\ k = m.key
    <3>1. /\ logicMsgs' \in Seq(LogicMsg) /\ Len(logicMsgs) \in Nat /\ Len(logicMsgs) > 0
          /\ Len(logicMsgs') = Len(logicMsgs) - 1 /\ logicMsgs[1] = m
          /\ \A i \in 1 .. Len(logicMsgs) - 1 : logicMsgs'[i] = logicMsgs[i + 1]
      BY <1>1, LogicHead
    <3>2. logicMsgs \in Seq(LogicMsg)
      BY DEF Base, Types
    <3>3. DOMAIN logicMsgs = 1 .. Len(logicMsgs) /\ DOMAIN logicMsgs' = 1 .. Len(logicMsgs) - 1
      BY <3>1, <3>2
    <3>4. m.type = "logout"
      BY <1>1 DEF LogoutMsg
    <3>5. 1 \in DOMAIN logicMsgs /\ IsLogout(1)
      BY <3>1, <3>3, <3>4 DEF IsLogout
    <3> HIDE DEF m
    <3>6. /\ \A p \in Present : users[p].key # k
          /\ \A j \in 1 + 1 .. Len(logicMsgs) : IsCreate(j) => logicMsgs[j].key # k
      BY <2>2, <3>1, <3>5 DEF LoginsOnce, HasKey
    <3>7. \A i \in DOMAIN logicMsgs' : i + 1 \in 1 + 1 .. Len(logicMsgs) /\ logicMsgs'[i] = logicMsgs[i + 1]
      BY <3>1, <3>3
    <3>8. \A i \in DOMAIN logicMsgs' : IsCreate(i)' => logicMsgs'[i].key # k
      <4>1. \A i \in DOMAIN logicMsgs' : i + 1 \in DOMAIN logicMsgs
        BY <3>1, <3>3
      <4> QED  BY <3>6, <3>7, <4>1 DEF IsCreate
    <3>9. Present' = Present
      BY <1>2 DEF Present
    <3>10. ~ Needed(a, k)'
      BY <1>2, <1>4, <2>2, <3>6, <3>8, <3>9 DEF Needed, HasKey
    <3> QED  BY <3>10
  <2> QED  BY <2>1, <2>2
<1> QED  BY <1>1, <1>3, <1>4

LEMMA OpenNotClosing ==
  ASSUME LoginAssumption, Base, GrantedOnce, AllGranted, NEW s \in checks, ServerOpen(s[1], s[2]),
         NEW a \in Account, NEW k \in Key, NotClosing(a, k)
  PROVE  NotClosing(a, k)'
<1>1. /\ s[1] \in Account /\ s[2] \in Key
      /\ DOMAIN fromSS = 1 .. Len(fromSS) /\ DOMAIN fromSS' = 1 .. Len(fromSS) + 1 /\ Len(fromSS) \in Nat
      /\ \A i \in DOMAIN fromSS : fromSS'[i] = fromSS[i]
      /\ fromSS'[Len(fromSS) + 1].open
      /\ opened' = [opened EXCEPT ![s[1]] = s[2]]
      /\ ssCloses' = IF opened[s[1]] = 0 THEN ssCloses ELSE ssCloses \cup {<<s[1], opened[s[1]]>>}
      /\ closeReqs' = closeReqs
  BY OpenAppends
<1>2. opened \in [Account -> 0 .. MaxConns]
  BY DEF Base, Types
<1>3. <<s[1], s[2]>> \notin ssCloses /\ opened[s[1]] # s[2]
  <2>1. <<s[1], s[2]>> \notin granted
    BY KeyFields DEF GrantedOnce
  <2>2. s[2] # 0
    BY <1>1, KeyFields
  <2> QED  BY <1>1, <2>1, <2>2 DEF AllGranted
<1>4. <<a, k>> \in ssCloses' => opened'[a] # k
  <2>1. CASE a = s[1]
    <3>1. opened'[a] = s[2]
      BY <1>1, <1>2, <2>1
    <3>2. <<s[1], s[2]>> \notin ssCloses'
      BY <1>1, <1>3
    <3> QED  BY <2>1, <3>1, <3>2
  <2>2. CASE a # s[1]
    <3>1. opened'[a] = opened[a]
      BY <1>1, <1>2, <2>2
    <3>2. <<a, k>> \in ssCloses' => <<a, k>> \in ssCloses
      BY <1>1, <2>2
    <3> QED  BY <3>1, <3>2 DEF NotClosing
  <2> QED  BY <2>1, <2>2
<1>5. \A i \in DOMAIN fromSS' : fromSS'[i].open \/ fromSS'[i].account # a \/ fromSS'[i].key # k
  BY <1>1 DEF NotClosing
<1> QED  BY <1>1, <1>4, <1>5 DEF NotClosing

LEMMA CloseNotClosing ==
  ASSUME LoginAssumption, Base, NEW s \in ssCloses, ServerClose(s),
         NEW a \in Account, NEW k \in Key, NotClosing(a, k)
  PROVE  NotClosing(a, k)'
<1>1. /\ s[1] \in Account /\ s[2] \in Key /\ s = <<s[1], s[2]>>
      /\ ssCloses' = ssCloses \ {s} /\ closeReqs' = closeReqs
      /\ DOMAIN fromSS = 1 .. Len(fromSS) /\ Len(fromSS) \in Nat
  BY CloseAppends
<1>2. CASE opened' = opened /\ fromSS' = fromSS
  BY <1>1, <1>2 DEF NotClosing
<1>3. CASE /\ opened[s[1]] = s[2] /\ opened' = [opened EXCEPT ![s[1]] = 0]
           /\ DOMAIN fromSS' = 1 .. Len(fromSS) + 1
           /\ \A i \in DOMAIN fromSS : fromSS'[i] = fromSS[i]
           /\ fromSS'[Len(fromSS) + 1].account = s[1] /\ fromSS'[Len(fromSS) + 1].key = s[2]
  <2>1. opened \in [Account -> 0 .. MaxConns] /\ k # 0
    BY KeyFields DEF Base, Types
  <2>2. a # s[1] \/ k # s[2]
    BY <1>1, <1>3 DEF NotClosing
  <2>3. opened'[a] = opened[a] \/ opened'[a] = 0
    BY <1>3, <2>1
  <2>4. <<a, k>> \in ssCloses' => opened'[a] # k
    BY <1>1, <2>1, <2>3 DEF NotClosing
  <2>5. \A i \in DOMAIN fromSS' : fromSS'[i].open \/ fromSS'[i].account # a \/ fromSS'[i].key # k
    BY <1>1, <1>3, <2>2 DEF NotClosing
  <2> QED  BY <1>1, <2>4, <2>5 DEF NotClosing
<1> QED  BY <1>2, <1>3, CloseAppends

LEMMA ReceiveNotClosing ==
  ASSUME LoginAssumption, Base, ClientReceive, NEW a \in Account, NEW k \in Key, NotClosing(a, k)
  PROVE  NotClosing(a, k)'
<1>1. /\ \A i \in DOMAIN fromSS' : i + 1 \in DOMAIN fromSS /\ fromSS'[i] = fromSS[i + 1]
      /\ opened' = opened /\ ssCloses' = ssCloses /\ closeReqs' = closeReqs
  BY ReceiveMoves
<1> QED  BY <1>1 DEF NotClosing

LEMMA RequestNotClosing ==
  ASSUME LoginAssumption, Base, NEW s \in closeReqs, ClientClose(s), NEW a \in Account, NEW k \in Key,
         NotClosing(a, k)
  PROVE  NotClosing(a, k)'
<1>1. /\ opened' = opened /\ fromSS' = fromSS /\ closeReqs' = closeReqs \ {s}
      /\ ssCloses' = IF s \in local THEN ssCloses \cup {s} ELSE ssCloses
  BY DEF ClientClose, serverVars
<1>2. s # <<a, k>>
  BY DEF NotClosing
<1> QED  BY <1>1, <1>2 DEF NotClosing

\* The sessions of the actors stay open.
LEMMA SessionsStay ==
  ASSUME LoginAssumption, Base, LoginsOnce, SessionsKept, [Next]_vars
  PROVE  ActorInSession'
<1>1. again \subseteq again'
  BY NotesGrow
<1>2. CASE LogicCreate
  <2> DEFINE m == Head(logicMsgs)
  <2>1. local' = local
    BY <1>2, CreateHead
  <2>2. PICK closed \in SUBSET actors : Handled(m, closed)
    BY <1>2, CreateHead
  <2>3. \A x \in actors' : x \in actors \/ (x = Made(m) /\ <<m.account, m.key>> \in local)
    BY <2>2, CreateActors
  <2>4. Made(m).account = m.account /\ Made(m).key = m.key
    BY DEF Made
  <2> HIDE DEF m
  <2> QED  BY <1>1, <2>1, <2>3, <2>4 DEF SessionsKept, ActorInSession
<1>3. CASE ~ LogicCreate
  <2>1. PICK f \in [actors' -> actors] : \A x \in actors' : x.account = f[x].account /\ x.key = f[x].key
    BY <1>3, ActorsStayOn DEF ActorsStay
  <2>2. \A y \in actors : y.key \notin again => <<y.account, y.key>> \in local'
    <3> SUFFICES ASSUME NEW y \in actors, y.key \notin again
                 PROVE  <<y.account, y.key>> \in local'
      OBVIOUS
    <3>1. <<y.account, y.key>> \in local
      BY DEF SessionsKept, ActorInSession
    <3>2. CASE ClientReceive
      <4> DEFINE m == fromSS[1]
      <4>1. /\ 1 \in DOMAIN fromSS
            /\ m.open => local' = local \cup {<<m.account, m.key>>}
            /\ ~ m.open => local' = local \ {<<m.account, m.key>>}
        BY <3>2, ReceiveMoves
      <4>2. y.account \in Account /\ y.key \in Key
        BY ActorFields
      <4>3. NotClosing(y.account, y.key)
        BY <4>2 DEF SessionsKept, Needed
      <4>4. m.open \/ m.account # y.account \/ m.key # y.key
        BY <4>1, <4>3 DEF NotClosing
      <4> HIDE DEF m
      <4> QED  BY <3>1, <4>1, <4>4
    <3>3. CASE local' = local
      BY <3>1, <3>3
    <3>4. ClientReceive \/ local' = local
      BY Steps DEF vars, GateOpen, GateClose, GateCheck, GateLogin, GateLost, GateChecked,
                   GateKick, GateCloseSock, GateSetHandle, LogicCreate, LogicLogout, LogicLoaded,
                   LogicClose, ClientClose, ServerOpen, ServerClose
    <3> QED  BY <3>2, <3>3, <3>4
  <2> QED  BY <1>1, <2>1, <2>2 DEF ActorInSession
<1> QED  BY <1>2, <1>3

LEMMA SessionsGoOn ==
  ASSUME LoginAssumption, Base, Base', LoginsOnce, GrantedOnce, AllGranted, SessionsKept, [Next]_vars
  PROVE  SessionsKept'
<1>1. ASSUME NEW a \in Account, NEW k \in Key, k \notin again', Needed(a, k)'
      PROVE  NotClosing(a, k)'
  <2>1. k \notin again /\ NotClosing(a, k)
    BY <1>1, NeededNotClosing, NotesGrow
  <2>2. CASE LogicCreate
    BY <1>1, <2>1, <2>2, CreateNotClosing
  <2>3. CASE LogicLogout
    BY <1>1, <2>1, <2>3, LogoutNotClosing
  <2>4. CASE \E x \in actors : LogicClose(x)
    <3>1. PICK x \in actors : LogicClose(x)
      BY <2>4
    <3>2. Closing({x}) /\ actors' = actors \ {x}
      BY <3>1, ActorCloses
    <3>3. /\ users' = users /\ logicMsgs' = logicMsgs
          /\ ssCloses' = ssCloses /\ opened' = opened /\ fromSS' = fromSS
      BY <3>1 DEF LogicClose, gateVars, serverVars
    <3> QED  BY <1>1, <2>1, <3>2, <3>3, ClosingNotClosing
  <2>5. CASE \E s \in closeReqs : ClientClose(s)
    BY <2>1, <2>5, RequestNotClosing
  <2>6. CASE ClientReceive
    BY <2>1, <2>6, ReceiveNotClosing
  <2>7. CASE \E s \in checks : ServerOpen(s[1], s[2])
    BY <2>1, <2>7, OpenNotClosing
  <2>8. CASE \E s \in ssCloses : ServerClose(s)
    BY <2>1, <2>8, CloseNotClosing
  <2>9. CASE closeReqs' = closeReqs /\ ssCloses' = ssCloses /\ opened' = opened /\ fromSS' = fromSS
    BY <2>1, <2>9 DEF NotClosing
  <2>10. \/ LogicCreate \/ LogicLogout \/ ClientReceive
         \/ \E x \in actors : LogicClose(x)
         \/ \E s \in closeReqs : ClientClose(s)
         \/ \E s \in checks : ServerOpen(s[1], s[2])
         \/ \E s \in ssCloses : ServerClose(s)
         \/ closeReqs' = closeReqs /\ ssCloses' = ssCloses /\ opened' = opened /\ fromSS' = fromSS
    BY Steps DEF vars, serverVars, GateOpen, GateClose, GateCheck, GateLogin, GateLost, GateChecked,
                 GateKick, GateCloseSock, GateSetHandle, LogicLoaded
  <2> QED  BY <2>2, <2>3, <2>4, <2>5, <2>6, <2>7, <2>8, <2>9, <2>10
<1> QED  BY <1>1, SessionsStay DEF SessionsKept


-----------------------------------------------------------------------------
(* The inductive invariant *)

LEMMA InitLogin ==
  ASSUME LoginAssumption, Init
  PROVE  LoginInv
<1>1. Base
  BY InitBase
<1>2. Present = {}
  BY DEF Init, Present
<1>3. /\ logicMsgs = << >> /\ gateMsgs = << >> /\ fromSS = << >> /\ actors = {} /\ local = {}
      /\ checks = {} /\ closeReqs = {} /\ ssCloses = {} /\ opened = [a \in Account |-> 0]
      /\ granted = {}
  BY DEF Init
<1>4. LoginsOnce
  BY <1>2, <1>3 DEF LoginsOnce, LoggingIn, HasKey
<1>5. OneActorWhenCalm /\ OneActorPerCharacter /\ OwnInv /\ ActorsAttached
  BY <1>3 DEF OneActorWhenCalm, OneActorPerCharacter, OwnInv, ActorsAttached
<1>6. \A a \in Account, k \in Key : ~ Needed(a, k)
  BY <1>2, <1>3 DEF Needed, HasKey
<1>7. SessionsKept
  BY <1>3, <1>6 DEF SessionsKept, ActorInSession
<1>8. GrantedOnce
  BY <1>2, <1>3 DEF GrantedOnce
<1>9. AllGranted
  BY <1>3 DEF AllGranted
<1>10. CreatesAttached
  BY <1>3 DEF CreatesAttached, IsLogin, IsCreate
<1> QED  BY <1>1, <1>4, <1>5, <1>7, <1>8, <1>9, <1>10 DEF LoginInv

LEMMA LoginKept ==
  ASSUME LoginAssumption, LoginInv, [Next]_vars
  PROVE  LoginInv'
<1>1. /\ Base /\ LoginsOnce /\ OneActorWhenCalm /\ OneActorPerCharacter
      /\ SessionsKept /\ GrantedOnce /\ AllGranted
      /\ CreatesAttached /\ ActorsAttached /\ OwnInv
  BY DEF LoginInv
<1>2. Base' /\ OneActorPerCharacter'
  BY <1>1, BaseKept, CharacterKept
<1>3. GrantedOnce' /\ AllGranted' /\ SessionsKept' /\ GateGoesOn
  BY <1>1, <1>2, GrantedKept, AllGrantedKept, SessionsGoOn, GateGo
<1>4. /\ \A a : Calm(a)' => Calm(a)
      /\ \A a, k : Single(a, k)' => Single(a, k)
      /\ CalmOn
  BY <1>1, <1>2, <1>3, NotesGrow, SingleBefore, CalmActors
<1>5. CASE UserLogin
  <2>1. PICK p \in DOMAIN users, a \in Account, c \in Character : GateLogin(p, a, c)
    BY <1>5 DEF UserLogin
  <2>2. OneActorWhenCalm'
    <3>1. actors' = actors
      BY <1>1, <2>1, LoginAppends
    <3> QED  BY <1>1, <1>4, <3>1 DEF OneActorWhenCalm
  <2>3. LoginsOnce'
    BY <1>1, <2>1, LoginLogins
  <2>4. CreatesAttached'
    BY <1>1, <1>4, <2>1, LoginCreates
  <2>5. ActorsAttached'
    BY <1>1, <1>2, <1>3, <1>4, <2>1, LoginActors
  <2>6. OwnInv'
    BY <1>1, <1>4, <2>1, LoginOwn
  <2> QED  BY <1>2, <1>3, <2>2, <2>3, <2>4, <2>5, <2>6 DEF LoginInv
<1>6. CASE ~ UserLogin
  <2>1. UsersQuiet
    BY <1>1, <1>6, UsersGo
  <2>2. LogicCreate \/ ActorsStay
    BY <1>1, ActorsStayOn
  <2>3. LoginsOnce' /\ OneActorWhenCalm'
    <3>1. CASE LogicCreate
      <4>1. local \subseteq granted
        BY <1>1 DEF AllGranted
      <4> QED  BY <1>1, <3>1, <4>1, CreateLogins, CreateAccounts
    <3>2. CASE ActorsStay
      BY <1>1, <1>2, <1>4, <2>1, <3>2, QuietLogins, QuietAccounts
    <3> QED  BY <2>2, <3>1, <3>2
  <2>4. CreatesAttached'
    BY <1>1, <1>2, <1>4, <2>1, QuietCreates
  <2>5. ActorsAttached'
    BY <1>1, <1>2, <1>3, <1>4, <2>1, <2>2, QuietActors
  <2>6. OwnInv'
    BY <1>1, <1>2, <1>4, <2>1, <2>2, QuietOwn
  <2> QED  BY <1>2, <1>3, <2>3, <2>4, <2>5, <2>6 DEF LoginInv
<1> QED  BY <1>5, <1>6

LEMMA LoginAlways == Spec => []LoginInv
<1>1. Init => LoginInv
  BY LoginAssumption, InitLogin
<1>2. LoginInv /\ [Next]_vars => LoginInv'
  BY LoginAssumption, LoginKept
<1> QED  BY <1>1, <1>2, PTL DEF Spec

\* Once the messages are handled, the user of an actor is there and has its handle.
LEMMA SettledActors ==
  ASSUME LoginAssumption, LoginInv
  PROVE  NoOrphanActor /\ OwnCharacter
<1>1. Base /\ ActorsAttached /\ OwnInv
  BY DEF LoginInv
<1>2. ASSUME Settled, NEW a \in Account, NEW k \in Key PROVE ~ LogoutAfter(0, a, k)
  BY <1>2 DEF Settled, LogoutAfter
<1>3. ASSUME Settled, NEW x \in actors, Calm(x.account)
      PROVE  \E p \in Present : users[p].key = x.key /\ users[p].handle = x.handle
  <2>1. x.account \in Account /\ x.key \in Key
    BY <1>1, ActorFields
  <2>2. \E p \in Present : UserAt(p, x.account, x.key, x.char) /\ HandleComes(p, x.handle, x.account)
    BY <1>1, <1>2, <1>3, <2>1 DEF ActorsAttached, ActorAttached
  <2>3. gateMsgs = << >>
    BY <1>3 DEF Settled
  <2> QED  BY <2>2, <2>3 DEF UserAt, HasKey, HandleComes
<1>4. ASSUME Settled, NEW x \in actors, Calm(x.account), x.inited PROVE Owner[x.char] = x.account
  <2>1. x.account \in Account /\ x.key \in Key
    BY <1>1, ActorFields
  <2> QED  BY <1>1, <1>2, <1>4, <2>1 DEF OwnInv
<1> QED  BY <1>3, <1>4 DEF NoOrphanActor, OwnCharacter

-----------------------------------------------------------------------------
(* Theorems *)

\* Every message names accounts, connections and handles that exist, so what the two threads,
\* the session client and the session server keep of them is of its type throughout.
THEOREM LoginTypes == Spec => []TypeOK
<1>1. Base => TypeOK
  BY DEF Base, Types, User, ActorRec, TypeOK
<1> QED  BY <1>1, BaseAlways, PTL

\* OnGateCreateActor of NetWorkMsgHandle.cpp never puts a character into the game twice,
\* whatever players ask for and in whichever order the threads get their messages.
THEOREM CharacterOnce == Spec => []OneActorPerCharacter
<1>1. Init => OneActorPerCharacter
  BY DEF Init, OneActorPerCharacter
<1>2. Base /\ OneActorPerCharacter /\ [Next]_vars => OneActorPerCharacter'
  BY LoginAssumption, CharacterKept
<1> QED  BY <1>1, <1>2, BaseAlways, PTL DEF Spec

\* The rivals of a login are closed before its actor is made: an account gets a second actor
\* only when a client logged in more than once over one of the account's connections.
THEOREM AccountOnce == Spec => []OneActorWhenCalm
<1>1. LoginInv => OneActorWhenCalm
  BY DEF LoginInv
<1> QED  BY <1>1, LoginAlways, PTL

\* The session of a connection with one login stays open at the session client for as long as
\* the actor lives: requests to close older sessions never hit it, however late they come.
THEOREM SessionStays == Spec => []ActorInSession
<1>1. LoginInv => ActorInSession
  BY DEF LoginInv, SessionsKept
<1> QED  BY <1>1, LoginAlways, PTL

\* However logins, logouts and SSM_GATE_CREATE_ACTOR cross each other, and even when the gate
\* server is lost, no actor of a calm account is left without its user once they are handled,
\* whatever the clients of other accounts do.
THEOREM NoActorLeft == Spec => []NoOrphanActor
<1>1. LoginInv => NoOrphanActor
  BY LoginAssumption, SettledActors
<1> QED  BY <1>1, LoginAlways, PTL

\* CActor::Init lets no calm account keep the character of another one, although the gate
\* thread believes the client and the data comes after the login.
THEOREM CharacterOwned == Spec => []OwnCharacter
<1>1. LoginInv => OwnCharacter
  BY LoginAssumption, SettledActors
<1> QED  BY <1>1, LoginAlways, PTL
=============================================================================
