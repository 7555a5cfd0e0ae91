------------------------------ MODULE GateLink ------------------------------
(***************************************************************************)
(* The gate server and the users its logic server keeps for it: the        *)
(* sessions of GateSessions, with CCustomServerGate (sdk/commonLib/cpp)    *)
(* at the other end of the link instead of an arbitrary server.            *)
(*                                                                         *)
(* The server is told of a client by GM_OPEN and GM_CLOSE.  It knows it by *)
(* its socket number, which the gate may have given to another client by   *)
(* the time a message is read, and by a position in its list of users,     *)
(* which the gate learns from the answer to GM_OPEN.                       *)
(***************************************************************************)
EXTENDS GateSessions, SequencesExt

-----------------------------------------------------------------------------
\* users is m_UserList of the gate object at the logic server, with gaps.
Gone == [sock |-> NoFd, slot |-> 0, conn |-> 0]
Present == {i \in DOMAIN users : users[i] # Gone}
HasSocket(f) == {i \in Present : users[i].sock = f}

\* SendGateCloseUser and SendAcceptUser: lost while there is no link.
Tell(type, i, u) ==
  toGate' = IF connected THEN Append(toGate, Message(type, u.slot, u.sock, u.conn, i)) ELSE toGate

MayRead(type) ==
  /\ toServer # << >> /\ Head(toServer).type = type
  /\ Len(toGate) < MaxQueue
  /\ toServer' = Tail(toServer)

\* OpenNewUser: into the last gap, or at the end; the gate is told the position.
ServerOpens ==
  LET m == Head(toServer)
      u == [sock |-> m.fd, slot |-> m.slot, conn |-> m.conn]
      gaps == DOMAIN users \ Present
      i == IF gaps = {} THEN Len(users) + 1 ELSE Max(gaps)
  IN  /\ MayRead("open")
      /\ users' = IF gaps = {} THEN Append(users, u) ELSE [users EXCEPT ![i] = u]
      /\ Tell("index", i, u)
      /\ UNCHANGED gateVars

\* CloseUser by the socket: the last user that has it, and the gate is not answered.
ServerCloses ==
  LET found == HasSocket(Head(toServer).fd)
  IN  /\ MayRead("close")
      /\ users' = IF found = {} THEN users ELSE [users EXCEPT ![Max(found)] = Gone]
      /\ UNCHANGED <<gateVars, toGate>>

\* Mutant: the position is taken without a look at the socket.
AtIndexAny(m) == {i \in Present : i = m.serverIdx}

\* PostUserData: the user at the position, when it has the socket, ...
AtIndex(m) == {i \in Present : i = m.serverIdx /\ users[i].sock = m.fd}

\* ... and otherwise the last user with the socket.
Receivers(m) == IF AtIndex(m) # {} THEN AtIndex(m) ELSE HasSocket(m.fd)

\* The gate is told the position when the user was not at the one it gave.
ServerHears ==
  LET m == Head(toServer)
  IN  /\ MayRead("data")
      /\ IF AtIndex(m) = {} /\ Receivers(m) # {}
         THEN Tell("index", Max(Receivers(m)), [sock |-> m.fd, slot |-> m.slot, conn |-> m.conn])
         ELSE UNCHANGED toGate
      /\ UNCHANGED <<gateVars, users>>

\* GateUserClosed for a user that is kicked, or silent for fifteen minutes; the gate is
\* told to close its session.
ServerKicks(i) ==
  /\ "dispatch" \in Closers
  /\ Len(toGate) < MaxQueue
  /\ users' = [users EXCEPT ![i] = Gone]
  /\ Tell("close", i, users[i])
  /\ UNCHANGED <<gateVars, toServer>>

Server ==
  \/ ServerOpens \/ ServerCloses \/ ServerHears
  \/ \E i \in Present : ServerKicks(i)

LinkNext == GateNext \/ Server

LinkSpec == Init /\ [][LinkNext]_vars

\* The gate object reads what was sent to it.
FairLinkSpec ==
  /\ LinkSpec /\ GateFairness
  /\ WF_vars(ServerOpens \/ ServerCloses \/ ServerHears)

-----------------------------------------------------------------------------
(* Correctness *)

\* File descriptors are alike.
FdSymmetry == Permutations(Fd)

Live == {sessions[s].verify : s \in Slot} \ {0}

\* What a client sent is never taken for data of another client that is there: a
\* socket number that was given to somebody else meanwhile, or a position that was,
\* never leads PostUserData (CustomServerGate.cpp:502) to a client with a session.
NoCrossTalk ==
  LET m == Head(toServer)
  IN  toServer # << >> /\ m.type = "data" /\ Receivers(m) # {} =>
        users[Max(Receivers(m))].conn \notin Live \ {m.conn}

-----------------------------------------------------------------------------
(* What one would expect, and this code does not keep *)

\* Nothing is on its way between a client, the gate and the server.
AtRest ==
  /\ toServer = << >> /\ toGate = << >> /\ recvQueue = << >> /\ working = Resting
  /\ accepting = Resting /\ \A t \in Thread : Rests(t)

\* Then every user of the server has its session: one that goes without GM_CLOSE never got
\* as far as the server (DataProcess.cpp:710-711).
NoUserLeftBehind == AtRest => \A i \in Present : users[i].conn \in Live

\* Then every session that got its key has its user: GM_CLOSE is about a session that is
\* closed, and needs no answer (CustomServerGate.cpp:213).
NoUserTakenAway ==
  AtRest => \A s \in Slot : Usable(s) /\ sessions[s].status = "commu" =>
              \E i \in Present : users[i].conn = sessions[s].verify

\* Who is kicked for fifteen silent minutes (LogicGate.cpp:1030) is the client that was
\* silent, not one that has its slot and its socket number by now.
KickHitsItsOwn ==
  LET m == Head(toGate)
  IN  toGate # << >> /\ m.type = "close" /\ Matches(m) => sessions[m.slot].verify = m.conn
=============================================================================
