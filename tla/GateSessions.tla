---------------------------- MODULE GateSessions ----------------------------
(***************************************************************************)
(* The session table of the gate server: CRunDataProcesser of              *)
(* server/GateServer/DataProcess.cpp and the socket threads that feed it.  *)
(*                                                                         *)
(* A session is a slot of a fixed array.  Six threads touch it:            *)
(*   accept    takes a socket, picks a slot, fills it, does the handshake  *)
(*   select    reads from the sockets of the slots that shook hands        *)
(*   process   handles what select read, closes idle sessions, recycles    *)
(*   dispatch  handles the messages of the logic server                    *)
(*   send      writes to the sockets                                       *)
(*   link      notices that the logic server is gone, closes everything    *)
(* m_SessionLock is held while a slot is picked, recycled, and while link  *)
(* closes; SendCloseSession runs without any lock, in every thread.        *)
(*                                                                         *)
(* A connection is named by its nVerifyIdx, which counts up.  The variable *)
(* peer is the kernel's: which connection a file descriptor belongs to.    *)
(* Every message carries the connection it is about, for the properties.   *)
(***************************************************************************)
EXTENDS Integers, Sequences, FiniteSets, FiniteSetsExt

CONSTANTS
  NumSlots,     \* m_nMaxSessionCount
  Fd, NoFd,     \* file descriptors, INVALID_SOCKET
  MaxConns,     \* bound: how many clients connect
  MaxQueue,     \* bound: how long the queues get
  Closers,      \* the threads that find a reason to close a session by themselves
  EarlyLeave,   \* may a client leave before it got its key?
  LinkMayFail   \* may the connection to the logic server be lost (once)?

Thread == {"accept", "select", "process", "dispatch", "send", "link"}

ASSUME GateAssumption ==
  /\ NumSlots \in Nat \ {0}
  /\ NoFd \notin Fd
  /\ MaxConns \in Nat
  /\ MaxQueue \in Nat \ {0}
  /\ Closers \subseteq Thread
  /\ EarlyLeave \in BOOLEAN
  /\ LinkMayFail \in BOOLEAN

VARIABLES
  sessions,    \* m_Sessions
  peer,        \* file descriptor -> its connection, 0 when it is closed
  userVerify,  \* m_nUserVerify
  activeUser,  \* m_nActiveUser
  accepting,   \* where the accept thread is in NewSession
  selected,    \* the slots in the fd set of the select thread
  recvQueue,   \* m_pRecvProcList and m_pRecvAppendList
  working,     \* where the process thread is in ProcessUserRecvPacket
  closing,     \* where each thread is in SendCloseSession
  dropping,    \* where the link thread is in CloseAllSessions
  connected,   \* m_bConnected
  lost,        \* has the connection been lost already?
  users,       \* the users the logic server keeps of this connection (GateLink)
  toServer,    \* messages to the logic server
  toGate       \* messages from the logic server

gateVars == <<sessions, peer, userVerify, activeUser, accepting, selected, recvQueue,
              working, closing, dropping, connected, lost>>
linkVars == <<connected, lost, users>>
vars == <<gateVars, users, toServer, toGate>>

-----------------------------------------------------------------------------
Slot == 1 .. NumSlots

FreeSession == [socket |-> NoFd, mark |-> FALSE, remote |-> FALSE, closeTick |-> FALSE,
                status |-> "idle", verify |-> 0, shaken |-> FALSE, serverIdx |-> 0]

\* Mutant: the socket is not looked at.
UsableNoSocket(s) == ~ sessions[s].mark /\ ~ sessions[s].remote

\* The check every thread makes before it uses a session.
Usable(s) ==
  /\ sessions[s].socket # NoFd
  /\ ~ sessions[s].mark
  /\ ~ sessions[s].remote

Resting == [pc |-> "none"]
Rests(t) == closing[t] = Resting
HoldsLock(t) == ~ Rests(t) /\ closing[t].locked
SessionLockFree == dropping.pc = "none" /\ ~ HoldsLock("process")

\* Is a thread in the middle of something with this slot?
InUse(s) ==
  \/ accepting.pc # "none" /\ accepting.slot = s
  \/ s \in selected
  \/ working.pc # "none" /\ working.slot = s
  \/ \E t \in Thread : ~ Rests(t) /\ closing[t].slot = s

Message(type, s, fd, conn, idx) ==
  [type |-> type, slot |-> s, fd |-> fd, conn |-> conn, serverIdx |-> idx]

\* SendServerMessage: dropped while there is no connection to the server.
SendServerMessage(m) == toServer' = IF connected THEN Append(toServer, m) ELSE toServer

Init ==
  /\ sessions = [s \in Slot |-> FreeSession]
  /\ peer = [f \in Fd |-> 0]
  /\ userVerify = 0
  /\ activeUser = 0
  /\ accepting = Resting
  /\ selected = {}
  /\ recvQueue = << >>
  /\ working = Resting
  /\ closing = [t \in Thread |-> Resting]
  /\ dropping = Resting
  /\ connected = TRUE
  /\ lost = FALSE
  /\ users = << >>
  /\ toServer = << >>
  /\ toGate = << >>

-----------------------------------------------------------------------------
(* SendCloseSession, step by step: no lock is held against other closers *)

\* The guard; tell is boCloseOnServer.
StartClose(t, s, tell, locked) ==
  closing' = IF ~ sessions[s].mark /\ sessions[s].socket # NoFd
             THEN [closing EXCEPT ![t] = [pc |-> "guarded", slot |-> s, fd |-> NoFd,
                                          conn |-> 0, inCommu |-> FALSE, tell |-> tell,
                                          locked |-> locked]]
             ELSE closing

CloseMark(t) ==
  LET s == closing[t].slot
  IN  /\ closing[t].pc = "guarded"
      /\ sessions' = [sessions EXCEPT ![s].mark = TRUE]
      /\ closing' = [closing EXCEPT ![t].pc = "marked",
                                    ![t].fd = sessions[s].socket,
                                    ![t].conn = sessions[s].verify]
      /\ UNCHANGED <<peer, userVerify, activeUser, accepting, selected, recvQueue,
                     working, dropping, linkVars, toServer, toGate>>

\* Mutants: the socket stays in the session; the tick is not set.
CloseClearKeepsSocket(t) ==
  /\ closing[t].pc = "marked"
  /\ sessions' = [sessions EXCEPT ![closing[t].slot].closeTick = TRUE,
                                  ![closing[t].slot].verify = 0]
  /\ closing' = [closing EXCEPT ![t].pc = "cleared"]
  /\ UNCHANGED <<peer, userVerify, activeUser, accepting, selected, recvQueue, working,
                 dropping, linkVars, toServer, toGate>>

CloseClearNoTick(t) ==
  /\ closing[t].pc = "marked"
  /\ sessions' = [sessions EXCEPT ![closing[t].slot].socket = NoFd,
                                  ![closing[t].slot].verify = 0]
  /\ closing' = [closing EXCEPT ![t].pc = "cleared"]
  /\ UNCHANGED <<peer, userVerify, activeUser, accepting, selected, recvQueue, working,
                 dropping, linkVars, toServer, toGate>>

\* Nobody but another closer looks at these fields of a marked session.
CloseClear(t) ==
  LET s == closing[t].slot
  IN  /\ closing[t].pc = "marked"
      /\ sessions' = [sessions EXCEPT ![s].socket = NoFd, ![s].closeTick = TRUE,
                                      ![s].verify = 0]
      /\ closing' = [closing EXCEPT ![t].pc = "cleared",
                                    ![t].inCommu = sessions[s].status = "commu"]
      /\ UNCHANGED <<peer, userVerify, activeUser, accepting, selected, recvQueue,
                     working, dropping, linkVars, toServer, toGate>>

\* Two closers may both have read the status before one of them writes it.
CloseIdle(t) ==
  /\ closing[t].pc = "cleared"
  /\ sessions' = [sessions EXCEPT ![closing[t].slot].status = "idle"]
  /\ closing' = [closing EXCEPT ![t].pc = "idle"]
  /\ UNCHANGED <<peer, userVerify, activeUser, accepting, selected, recvQueue, working,
                 dropping, linkVars, toServer, toGate>>

\* closesocket, whoever the descriptor belongs to by now.
CloseSocket(t) ==
  /\ closing[t].pc = "idle"
  /\ peer' = IF closing[t].fd = NoFd THEN peer ELSE [peer EXCEPT ![closing[t].fd] = 0]
  /\ closing' = [closing EXCEPT ![t].pc = "closed"]
  /\ UNCHANGED <<sessions, userVerify, activeUser, accepting, selected, recvQueue,
                 working, dropping, linkVars, toServer, toGate>>

\* Mutant: only what the server is told of counts down.
CloseTellCounted(t) ==
  LET c == closing[t]
      told == c.tell /\ c.inCommu
  IN  /\ c.pc = "closed"
      /\ IF told THEN SendServerMessage(Message("close", 0, c.fd, c.conn, 0)) ELSE UNCHANGED toServer
      /\ activeUser' = IF told THEN activeUser - 1 ELSE activeUser
      /\ closing' = [closing EXCEPT ![t] = Resting]
      /\ UNCHANGED <<sessions, peer, userVerify, accepting, selected, recvQueue,
                     working, dropping, linkVars, toGate>>

\* The server is told only about sessions that had their key.
CloseTell(t) ==
  LET c == closing[t]
  IN  /\ c.pc = "closed"
      /\ IF c.tell /\ c.inCommu
         THEN SendServerMessage(Message("close", 0, c.fd, c.conn, 0))
         ELSE UNCHANGED toServer
      /\ activeUser' = activeUser - 1
      /\ closing' = [closing EXCEPT ![t] = Resting]
      /\ UNCHANGED <<sessions, peer, userVerify, accepting, selected, recvQueue,
                     working, dropping, linkVars, toGate>>

CloseStep(t) ==
  CloseMark(t) \/ CloseClear(t) \/ CloseIdle(t) \/ CloseSocket(t) \/ CloseTell(t)

-----------------------------------------------------------------------------
(* The accept thread: NewSession *)

\* A slot is free when its fields say so, its status too; the first is taken.
FreeSlots ==
  {s \in Slot : /\ sessions[s].socket = NoFd
                /\ ~ sessions[s].mark
                /\ ~ sessions[s].remote
                /\ ~ sessions[s].closeTick
                /\ sessions[s].status = "idle"}

\* Mutant: connected() is not asked.
AcceptPickOffline(f) ==
  /\ accepting = Resting /\ Rests("accept")
  /\ userVerify < MaxConns
  /\ peer[f] = 0
  /\ SessionLockFree
  /\ FreeSlots # {}
  /\ sessions' = [sessions EXCEPT ![Min(FreeSlots)].status = "conn"]
  /\ accepting' = [pc |-> "init", slot |-> Min(FreeSlots), fd |-> f]
  /\ peer' = [peer EXCEPT ![f] = userVerify + 1]
  /\ UNCHANGED <<userVerify, activeUser, selected, recvQueue, working, closing,
                 dropping, linkVars, toServer, toGate>>

\* accept() gives any descriptor that is not open.  Without a connection to the
\* server or a free slot the socket is closed again, and nothing changes.
AcceptPick(f) ==
  /\ accepting = Resting /\ Rests("accept")
  /\ userVerify < MaxConns
  /\ peer[f] = 0
  /\ connected
  /\ SessionLockFree
  /\ FreeSlots # {}
  /\ LET s == Min(FreeSlots)
     IN  /\ sessions' = [sessions EXCEPT ![s].status = "conn"]
         /\ accepting' = [pc |-> "init", slot |-> s, fd |-> f]
  /\ peer' = [peer EXCEPT ![f] = userVerify + 1]
  /\ UNCHANGED <<userVerify, activeUser, selected, recvQueue, working, closing,
                 dropping, linkVars, toServer, toGate>>

\* Mutant: the number is counted up once more for the session.
AcceptInitTwice ==
  LET s == accepting.slot
  IN  /\ accepting.pc = "init"
      /\ userVerify' = userVerify + 1
      /\ sessions' = [sessions EXCEPT ![s] = [FreeSession EXCEPT !.socket = accepting.fd,
                                                                 !.status = "conn",
                                                                 !.verify = userVerify + 2]]
      /\ activeUser' = activeUser + 1
      /\ accepting' = [accepting EXCEPT !.pc = "recv"]
      /\ UNCHANGED <<peer, selected, recvQueue, working, closing, dropping, linkVars,
                     toServer, toGate>>

\* The fields are filled outside the lock, nSocket last.
AcceptInit ==
  LET s == accepting.slot
  IN  /\ accepting.pc = "init"
      /\ userVerify' = userVerify + 1
      /\ sessions' = [sessions EXCEPT ![s] = [FreeSession EXCEPT !.socket = accepting.fd,
                                                                 !.status = "conn",
                                                                 !.verify = userVerify + 1]]
      /\ activeUser' = activeUser + 1
      /\ accepting' = [accepting EXCEPT !.pc = "recv"]
      /\ UNCHANGED <<peer, selected, recvQueue, working, closing, dropping, linkVars,
                     toServer, toGate>>

\* The first data is the handshake.
AcceptHandshake ==
  LET s == accepting.slot
  IN  /\ accepting.pc = "recv"
      /\ IF Usable(s)
         THEN /\ sessions' = [sessions EXCEPT ![s].shaken = TRUE]
              /\ accepting' = [accepting EXCEPT !.pc = "open"]
         ELSE /\ accepting' = Resting
              /\ UNCHANGED sessions
      /\ UNCHANGED <<peer, userVerify, activeUser, selected, recvQueue, working,
                     closing, dropping, linkVars, toServer, toGate>>

\* SendOpenSession reads the socket of the session once more.
AcceptOpen ==
  LET s == accepting.slot
  IN  /\ accepting.pc = "open"
      /\ SendServerMessage(Message("open", s, sessions[s].socket, sessions[s].verify, 0))
      /\ accepting' = Resting
      /\ UNCHANGED <<sessions, peer, userVerify, activeUser, selected, recvQueue,
                     working, closing, dropping, linkVars, toGate>>

\* Nothing arrived within 10 s, or the connection is broken.
AcceptError ==
  LET s == accepting.slot
  IN  /\ accepting.pc = "recv"
      /\ sessions' = [sessions EXCEPT ![s].remote = TRUE]
      /\ StartClose("accept", s, TRUE, FALSE)
      /\ accepting' = Resting
      /\ UNCHANGED <<peer, userVerify, activeUser, selected, recvQueue, working,
                     dropping, linkVars, toServer, toGate>>

\* The client closed its end at once: recv returns 0, which is no error.
AcceptEof ==
  /\ accepting.pc = "recv"
  /\ accepting' = Resting
  /\ UNCHANGED <<sessions, peer, userVerify, activeUser, selected, recvQueue, working,
                 closing, dropping, linkVars, toServer, toGate>>

Accept ==
  \/ \E f \in Fd : AcceptPick(f)
  \/ AcceptInit \/ AcceptHandshake \/ AcceptOpen \/ AcceptError \/ AcceptEof

-----------------------------------------------------------------------------
(* The select thread *)

SelectPick ==
  LET ready == {s \in Slot : sessions[s].shaken /\ Usable(s)}
  IN  /\ selected = {} /\ Rests("select")
      /\ ready # {}
      /\ selected' = ready
      /\ UNCHANGED <<sessions, peer, userVerify, activeUser, accepting, recvQueue,
                     working, closing, dropping, linkVars, toServer, toGate>>

\* Data of the connection the socket belongs to, under the session's nVerifyIdx.
SelectRecv(s, good) ==
  LET fd == sessions[s].socket
  IN  /\ s \in selected /\ Rests("select")
      /\ fd # NoFd /\ peer[fd] # 0
      /\ Len(recvQueue) < MaxQueue
      /\ good \/ "process" \in Closers
      /\ selected' = selected \ {s}
      /\ recvQueue' = IF Usable(s) /\ sessions[s].verify # 0
                      THEN Append(recvQueue, [slot |-> s, verify |-> sessions[s].verify,
                                              conn |-> peer[fd], good |-> good])
                      ELSE recvQueue
      /\ UNCHANGED <<sessions, peer, userVerify, activeUser, accepting, working,
                     closing, dropping, linkVars, toServer, toGate>>

\* Nothing to read, or the client closed its end.
SelectNothing(s) ==
  /\ s \in selected /\ Rests("select")
  /\ selected' = selected \ {s}
  /\ UNCHANGED <<sessions, peer, userVerify, activeUser, accepting, recvQueue, working,
                 closing, dropping, linkVars, toServer, toGate>>

\* A client may leave early only when the instance says so.
MayLeave(s) ==
  EarlyLeave \/ (sessions[s].status = "commu" /\ ~ (accepting.pc # "none" /\ accepting.slot = s))

\* recv fails: the client is gone, or another thread closed the socket meanwhile.
SelectError(s) ==
  LET fd == sessions[s].socket
  IN  /\ s \in selected /\ Rests("select")
      /\ \/ fd = NoFd
         \/ fd # NoFd /\ peer[fd] = 0
         \/ "select" \in Closers /\ MayLeave(s)
      /\ selected' = selected \ {s}
      /\ sessions' = [sessions EXCEPT ![s].remote = TRUE]
      /\ StartClose("select", s, TRUE, FALSE)
      /\ UNCHANGED <<peer, userVerify, activeUser, accepting, recvQueue, working,
                     dropping, linkVars, toServer, toGate>>

Select ==
  \/ SelectPick
  \/ \E s \in Slot : \/ \E good \in BOOLEAN : SelectRecv(s, good)
                     \/ SelectNothing(s)
                     \/ SelectError(s)

-----------------------------------------------------------------------------
(* The process thread *)

ProcessFree == working = Resting /\ Rests("process")

\* Mutant: a buffer of an earlier session is not told from one of this session.
ProcessTakeAny ==
  /\ ProcessFree
  /\ recvQueue # << >>
  /\ recvQueue' = Tail(recvQueue)
  /\ LET b == Head(recvQueue)
     IN  working' = IF Usable(b.slot)
                    THEN [pc |-> "packet", slot |-> b.slot, verify |-> b.verify,
                          conn |-> b.conn, good |-> b.good]
                    ELSE Resting
  /\ UNCHANGED <<sessions, peer, userVerify, activeUser, accepting, selected, closing,
                 dropping, linkVars, toServer, toGate>>

\* A buffer of a session that is closed, or of an earlier session, is dropped.
ProcessTake ==
  /\ ProcessFree
  /\ recvQueue # << >>
  /\ recvQueue' = Tail(recvQueue)
  /\ LET b == Head(recvQueue)
     IN  working' = IF Usable(b.slot) /\ sessions[b.slot].verify = b.verify
                    THEN [pc |-> "packet", slot |-> b.slot, verify |-> b.verify,
                          conn |-> b.conn, good |-> b.good]
                    ELSE Resting
  /\ UNCHANGED <<sessions, peer, userVerify, activeUser, accepting, selected, closing,
                 dropping, linkVars, toServer, toGate>>

\* The packet: ignored when the session was closed meanwhile; refused; the first
\* one, which is answered with a key; or data for the server.
ProcessIgnore ==
  /\ working.pc = "packet"
  /\ sessions[working.slot].mark \/ sessions[working.slot].remote
  /\ working' = Resting
  /\ UNCHANGED <<sessions, peer, userVerify, activeUser, accepting, selected,
                 recvQueue, closing, dropping, linkVars, toServer, toGate>>

ProcessBad ==
  /\ working.pc = "packet"
  /\ ~ working.good
  /\ ~ sessions[working.slot].mark /\ ~ sessions[working.slot].remote
  /\ StartClose("process", working.slot, TRUE, FALSE)
  /\ working' = Resting
  /\ UNCHANGED <<sessions, peer, userVerify, activeUser, accepting, selected,
                 recvQueue, dropping, linkVars, toServer, toGate>>

ProcessFirst ==
  /\ working.pc = "packet"
  /\ working.good
  /\ ~ sessions[working.slot].mark /\ ~ sessions[working.slot].remote
  /\ sessions[working.slot].status = "conn"
  /\ working' = [working EXCEPT !.pc = "key"]
  /\ UNCHANGED <<sessions, peer, userVerify, activeUser, accepting, selected,
                 recvQueue, closing, dropping, linkVars, toServer, toGate>>

\* The status is set after the key is made and sent, without a second look.
ProcessKey ==
  /\ working.pc = "key"
  /\ sessions' = [sessions EXCEPT ![working.slot].status = "commu"]
  /\ working' = Resting
  /\ UNCHANGED <<peer, userVerify, activeUser, accepting, selected, recvQueue, closing,
                 dropping, linkVars, toServer, toGate>>

ProcessData ==
  LET s == working.slot
  IN  /\ working.pc = "packet"
      /\ working.good
      /\ sessions[s].status = "commu"
      /\ Len(toServer) < MaxQueue
      /\ SendServerMessage(Message("data", s, sessions[s].socket, working.conn,
                                   sessions[s].serverIdx))
      /\ working' = Resting
      /\ UNCHANGED <<sessions, peer, userVerify, activeUser, accepting, selected,
                     recvQueue, closing, dropping, linkVars, toGate>>

\* Mutant: the slot is recycled at once.
TenSecondsLaterAtOnce(s) == s \in Slot

\* Ten seconds are long: what the threads were doing with the slot when it was
\* closed is over, and so are the messages about it that were on their way.
TenSecondsLater(s) ==
  /\ ~ InUse(s)
  /\ \A i \in DOMAIN toGate : toGate[i].slot # s
  /\ \A i \in DOMAIN toServer : toServer[i].type # "close"

\* CheckCloseSessions, for a session closed ten seconds ago: the status stays.
CheckRecycle(s) ==
  /\ ProcessFree
  /\ SessionLockFree
  /\ sessions[s].mark \/ sessions[s].remote
  /\ sessions[s].closeTick
  /\ TenSecondsLater(s)
  /\ sessions' = [sessions EXCEPT ![s].socket = NoFd, ![s].verify = 0, ![s].mark = FALSE,
                                  ![s].remote = FALSE, ![s].closeTick = FALSE]
  /\ UNCHANGED <<peer, userVerify, activeUser, accepting, selected, recvQueue, working,
                 closing, dropping, linkVars, toServer, toGate>>

Process ==
  \/ ProcessTake \/ ProcessIgnore \/ ProcessBad \/ ProcessFirst \/ ProcessKey \/ ProcessData
  \/ \E s \in Slot : CheckRecycle(s)

-----------------------------------------------------------------------------
(* The dispatch thread, closing without a reason from outside, the link thread *)

\* A message of the server is about this session: DispathRecvMessage.
Matches(m) == Usable(m.slot) /\ sessions[m.slot].socket = m.fd

DispatchClose ==
  /\ Rests("dispatch")
  /\ toGate # << >> /\ Head(toGate).type = "close"
  /\ IF Matches(Head(toGate))
     THEN StartClose("dispatch", Head(toGate).slot, FALSE, FALSE)
     ELSE UNCHANGED closing
  /\ toGate' = Tail(toGate)
  /\ UNCHANGED <<sessions, peer, userVerify, activeUser, accepting, selected,
                 recvQueue, working, dropping, linkVars, toServer>>

DispatchIndex ==
  /\ Rests("dispatch")
  /\ toGate # << >> /\ Head(toGate).type = "index"
  /\ sessions' = IF Matches(Head(toGate))
                 THEN [sessions EXCEPT ![Head(toGate).slot].serverIdx = Head(toGate).serverIdx]
                 ELSE sessions
  /\ toGate' = Tail(toGate)
  /\ UNCHANGED <<peer, userVerify, activeUser, accepting, selected, recvQueue, working,
                 closing, dropping, linkVars, toServer>>

\* GM_DATA goes into the send buffer of the session and changes nothing that is modelled;
\* the server is therefore not made to send it.
Dispatch == DispatchClose \/ DispatchIndex

\* A session was idle for ten minutes (CheckCloseSessions of the process thread, with
\* the lock), or its send buffer grew over 4 MB (the send thread, without it).
CloseByItself(t, s) ==
  /\ t \in Closers
  /\ Rests(t)
  /\ Usable(s)
  /\ t = "process" => /\ working = Resting /\ SessionLockFree
                      /\ accepting.pc # "none" => accepting.slot # s
  /\ t = "send" => sessions[s].shaken
  /\ StartClose(t, s, TRUE, t = "process")
  /\ UNCHANGED <<sessions, peer, userVerify, activeUser, accepting, selected,
                 recvQueue, working, dropping, linkVars, toServer, toGate>>

\* CCustomGateClient::Close: what the server sent is thrown away; of what was
\* to be sent, the first k messages are gone and the rest waits in m_SendMsgList.  The
\* logic server closes its users; another gate object, or the same with an empty list,
\* serves the next connection.
LinkLost ==
  /\ LinkMayFail /\ ~ lost
  /\ dropping = Resting
  /\ ~ HoldsLock("process")
  /\ connected' = FALSE
  /\ lost' = TRUE
  /\ users' = << >>
  /\ toGate' = << >>
  /\ \E k \in 0 .. Len(toServer) : toServer' = SubSeq(toServer, k + 1, Len(toServer))
  /\ dropping' = [pc |-> "next", slot |-> 1]
  /\ UNCHANGED <<sessions, peer, userVerify, activeUser, accepting, selected,
                 recvQueue, working, closing>>

\* CloseAllSessions(true) goes over all slots and skips those without a socket.
DropNext ==
  /\ dropping.pc = "next"
  /\ IF dropping.slot > NumSlots
     THEN dropping' = Resting /\ UNCHANGED closing
     ELSE IF sessions[dropping.slot].socket # NoFd
     THEN /\ StartClose("link", dropping.slot, TRUE, FALSE)
          /\ dropping' = [dropping EXCEPT !.pc = "force"]
     ELSE dropping' = [dropping EXCEPT !.slot = @ + 1] /\ UNCHANGED closing
  /\ UNCHANGED <<sessions, peer, userVerify, activeUser, accepting, selected,
                 recvQueue, working, linkVars, toServer, toGate>>

\* After SendCloseSession the fields are set again, and the count goes down again.
DropForce ==
  /\ dropping.pc = "force" /\ Rests("link")
  /\ sessions' = [sessions EXCEPT ![dropping.slot].mark = TRUE,
                                  ![dropping.slot].remote = TRUE,
                                  ![dropping.slot].closeTick = FALSE,
                                  ![dropping.slot].socket = NoFd,
                                  ![dropping.slot].verify = 0]
  /\ activeUser' = activeUser - 1
  /\ dropping' = [pc |-> "next", slot |-> dropping.slot + 1]
  /\ UNCHANGED <<peer, userVerify, accepting, selected, recvQueue, working, closing,
                 linkVars, toServer, toGate>>

\* ConnectToServerRoutine connects again, whether or not the closing is done.
Reconnect ==
  /\ ~ connected
  /\ connected' = TRUE
  /\ UNCHANGED <<sessions, peer, userVerify, activeUser, accepting, selected,
                 recvQueue, working, closing, dropping, lost, users, toServer, toGate>>

Link == LinkLost \/ DropNext \/ DropForce \/ Reconnect

GateNext ==
  \/ \E t \in Thread : CloseStep(t)
  \/ Accept
  \/ Select
  \/ Process
  \/ Dispatch
  \/ \E t \in {"process", "send"}, s \in Slot : CloseByItself(t, s)
  \/ Link

\* The server is an environment here: it reads, and sends what it likes about any
\* session, also one that is long gone.
ServerReads ==
  /\ toServer # << >>
  /\ toServer' = Tail(toServer)
  /\ UNCHANGED <<gateVars, users, toGate>>

ServerSends(type, s, f) ==
  /\ connected
  /\ "dispatch" \in Closers
  /\ Len(toGate) < MaxQueue
  /\ toGate' = Append(toGate, Message(type, s, f, 0, 0))
  /\ UNCHANGED <<gateVars, users, toServer>>

Next ==
  \/ GateNext
  \/ ServerReads
  \/ \E type \in {"close", "index"}, s \in Slot, f \in Fd : ServerSends(type, s, f)

Spec == Init /\ [][Next]_vars

\* Every thread goes on; CheckCloseSessions runs every five seconds.
GateFairness ==
  /\ \A t \in Thread : WF_vars(CloseStep(t))
  /\ WF_vars(AcceptInit \/ AcceptHandshake \/ AcceptOpen \/ AcceptError \/ AcceptEof)
  /\ WF_vars(\E s \in Slot : \/ \E good \in BOOLEAN : SelectRecv(s, good)
                            \/ SelectNothing(s) \/ SelectError(s))
  /\ WF_vars(ProcessTake \/ ProcessIgnore \/ ProcessBad \/ ProcessFirst \/ ProcessKey \/ ProcessData)
  /\ WF_vars(Dispatch)
  /\ \A s \in Slot : SF_vars(CheckRecycle(s))

-----------------------------------------------------------------------------
(* Correctness *)

TypeOK ==
  /\ sessions \in [Slot -> [socket : Fd \cup {NoFd}, mark : BOOLEAN, remote : BOOLEAN,
                            closeTick : BOOLEAN, status : {"idle", "conn", "commu"},
                            verify : 0 .. MaxConns, shaken : BOOLEAN, serverIdx : Nat]]
  /\ peer \in [Fd -> 0 .. MaxConns]
  /\ userVerify \in 0 .. MaxConns
  /\ activeUser \in Int
  /\ accepting.pc \in {"none", "init", "recv", "open"}
  /\ selected \subseteq Slot
  /\ \A i \in DOMAIN recvQueue : recvQueue[i].slot \in Slot
  /\ working.pc \in {"none", "packet", "key"}
  /\ \A t \in Thread : closing[t].pc \in {"none", "guarded", "marked", "cleared", "idle", "closed"}
  /\ dropping.pc \in {"none", "next", "force"}

\* nSocket is set last so that no thread works on a session that is not
\* initialised yet (DataProcess.cpp:2023).
NotBeforeInit ==
  accepting.pc = "init" =>
    /\ accepting.slot \notin selected
    /\ working.pc # "none" => working.slot # accepting.slot
    /\ \A t \in Thread : ~ Rests(t) => closing[t].slot # accepting.slot

\* The socket of a session is open, and still that of the connection the session
\* was made for: no thread closed it behind the session's back.
SocketOwned ==
  \A s \in Slot : sessions[s].socket # NoFd => peer[sessions[s].socket] = sessions[s].verify

\* Data queued under an earlier session of the slot is never processed for the present
\* one, whichever threads close it meanwhile (DataProcess.cpp:105).
VerifyHolds ==
  working.pc # "none" => sessions[working.slot].verify \in {working.verify, 0}

HasSession == {s \in Slot : sessions[s].socket # NoFd}

\* m_nActiveUser keeps no session that is gone, whenever no thread is in the middle of
\* closing one: every close counts down, whichever thread was first (DataProcess.cpp:694-717, 757).
NoGhostCounted ==
  (\A t \in Thread : Rests(t)) /\ dropping = Resting =>
    activeUser <= Cardinality(HasSession)

\* When CloseAllSessions is done, and as long as there is no new connection to the
\* server, at most one session is left: the one NewSession was about to fill.
LossSparesOne ==
  ~ connected /\ dropping = Resting =>
    Cardinality(HasSession) <= 1

\* The mark of a closed session is taken away in the end (DataProcess.cpp:866-893),
\* unless the link was lost, whose CloseAllSessions clears the close tick (754).
SlotComesBack == \A s \in Slot : sessions[s].mark ~> (~ sessions[s].mark \/ lost)

-----------------------------------------------------------------------------
(* What one would expect, and this code does not keep *)

\* m_nActiveUser is the number of sessions in use (DataProcess.h:60), whenever no
\* thread is in the middle of closing one: two threads count down for one session.
ActiveUserExact ==
  (\A t \in Thread : Rests(t)) /\ dropping = Resting =>
    activeUser = Cardinality(HasSession)

\* A session that was closed and recycled is idle again (DataProcess.cpp:706), so that
\* NewSession, which looks at the status too, can take its slot.
RecycledIsIdle ==
  \A s \in Slot :
    (/\ ~ sessions[s].mark /\ ~ sessions[s].remote /\ ~ sessions[s].closeTick
     /\ sessions[s].socket = NoFd
     /\ accepting # Resting => accepting.slot # s)
    => sessions[s].status = "idle"
=============================================================================
