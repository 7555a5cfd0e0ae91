------------------------------ MODULE GateProofs ------------------------------
(***************************************************************************)
(* Proofs about GateSessions and GateLink for any number of slots,         *)
(* descriptors and connections, with threads that close whatever they      *)
(* like at the same time, a link that is lost, and either the server of    *)
(* GateLink or one that sends anything: a session is not touched before it *)
(* is filled, a buffer is not taken for a later session's, and the loss of *)
(* the link spares one session at most.                                    *)
(***************************************************************************)
EXTENDS GateLink, FiniteSetTheorems, TLAPS

Session == [socket : Fd \cup {NoFd}, mark : BOOLEAN, remote : BOOLEAN, closeTick : BOOLEAN,
            status : {"idle", "conn", "commu"}, verify : Nat, shaken : BOOLEAN,
            serverIdx : Nat]
Acceptance == [pc : {"init", "recv", "open"}, slot : Slot, fd : Fd]
Buffer == [slot : Slot, verify : Nat, conn : Nat, good : BOOLEAN]
Work == [pc : {"packet", "key"}, slot : Slot, verify : Nat, conn : Nat, good : BOOLEAN]
Closing == [pc : {"guarded", "marked", "cleared", "idle", "closed"}, slot : Slot,
            fd : Fd \cup {NoFd}, conn : Nat, inCommu : BOOLEAN, tell : BOOLEAN,
            locked : BOOLEAN]
Order == [type : {"close", "index"}, slot : Slot, fd : Fd \cup {NoFd}, conn : Nat, serverIdx : Nat]

Types ==
  /\ sessions \in [Slot -> Session]
  /\ peer \in [Fd -> Nat]
  /\ userVerify \in Nat
  /\ accepting \in {Resting} \cup Acceptance
  /\ selected \subseteq Slot
  /\ recvQueue \in Seq(Buffer)
  /\ working \in {Resting} \cup Work
  /\ closing \in [Thread -> {Resting} \cup Closing]
  /\ dropping \in {Resting} \cup [pc : {"next"}, slot : Nat \ {0}]
                            \cup [pc : {"force"}, slot : Slot]
  /\ toGate \in Seq(Order)

\* A thread is in the middle of something with this slot, other than filling it.
Busy(s) ==
  \/ s \in selected
  \/ working.pc # "none" /\ working.slot = s
  \/ \E t \in Thread : ~ Rests(t) /\ closing[t].slot = s
  \/ dropping.pc = "force" /\ dropping.slot = s

\* Such a slot has its socket, or the mark of the thread that took it away.
BusyNotFree ==
  \A s \in Slot : Busy(s) => sessions[s].socket # NoFd \/ sessions[s].mark

\* The mark stays as long as the thread that made it is not done.
ClosersMark ==
  \A t \in Thread : closing[t].pc \in {"marked", "cleared", "idle", "closed"} =>
                      sessions[closing[t].slot].mark

\* The slot that is to be filled has neither.
FilledWasFree ==
  accepting.pc = "init" =>
    sessions[accepting.slot].socket = NoFd /\ ~ sessions[accepting.slot].mark

RaceInv == Types /\ BusyNotFree /\ ClosersMark /\ FilledWasFree /\ VerifyHolds

-----------------------------------------------------------------------------
(* Types *)

\* A set of numbers below a bound has a least element, and Min returns it.
LEMMA MinIsLeast ==
  ASSUME NEW n \in Nat, NEW S \in SUBSET (0 .. n), S # {}
  PROVE  Min(S) \in S /\ \A y \in S : Min(S) <= y
<1> DEFINE upTo(x) == {y \in S : y <= x}
           T == {upTo(x) : x \in S}
<1>1. IsFiniteSet(S)
  <2>1. IsFiniteSet(0 .. n)
    BY FS_Interval
  <2> QED
    BY <2>1, FS_Subset
<1>2. IsWellFoundedOn(StrictSubsetOrdering(S), FiniteSubsetsOf(S))
  BY FS_StrictSubsetOrderingWellFounded
<1>3. T \subseteq FiniteSubsetsOf(S)
  <2> SUFFICES ASSUME NEW x \in S PROVE upTo(x) \in FiniteSubsetsOf(S)
    OBVIOUS
  <2> QED
    BY <1>1, FS_Subset DEF FiniteSubsetsOf
<1>4. PICK U \in T : \A V \in T : ~ (<<V, U>> \in StrictSubsetOrdering(S))
  <2>1. T # {}
    OBVIOUS
  <2> HIDE DEF T
  <2>2. \E U \in T : \A V \in T : ~ (<<V, U>> \in StrictSubsetOrdering(S))
    BY <1>2, <1>3, <2>1, WFMin
  <2> QED
    BY <2>2
<1>5. PICK x \in S : U = upTo(x)
  OBVIOUS
<1>6. \A y \in S : x <= y
  <2> SUFFICES ASSUME NEW y \in S, y < x PROVE FALSE
    OBVIOUS
  <2>1. upTo(y) \in T /\ upTo(y) \in SUBSET S /\ upTo(x) \in SUBSET S
    OBVIOUS
  <2>2. upTo(y) \subseteq upTo(x) /\ x \in upTo(x) /\ x \notin upTo(y)
    <3>1. x \in Int /\ y \in Int /\ ~ (x <= y) /\ x <= x
      OBVIOUS
    <3>2. \A z \in S : z <= y => z <= x
      OBVIOUS
    <3> QED
      BY <3>1, <3>2
  <2>3. <<upTo(y), upTo(x)>> \in StrictSubsetOrdering(S)
    BY <2>1, <2>2 DEF StrictSubsetOrdering
  <2> QED
    BY <1>4, <1>5, <2>1, <2>3
<1> QED
  BY <1>6 DEF Min

LEMMA FirstFreeSlot ==
  ASSUME GateAssumption, FreeSlots # {}
  PROVE  Min(FreeSlots) \in Slot /\ Min(FreeSlots) \in FreeSlots
<1>1. NumSlots \in Nat /\ FreeSlots \in SUBSET (0 .. NumSlots) /\ FreeSlots \subseteq Slot
  BY DEF GateAssumption, FreeSlots, Slot
<1> QED  BY <1>1, MinIsLeast

\* What the threads write into a session leaves it one.
LEMMA SessionWrites ==
  ASSUME GateAssumption, NEW x \in Session, NEW n \in Nat
  PROVE  /\ [x EXCEPT !.mark = TRUE] \in Session
         /\ [x EXCEPT !.remote = TRUE] \in Session
         /\ [x EXCEPT !.status = "conn"] \in Session
         /\ [x EXCEPT !.status = "commu"] \in Session
         /\ [x EXCEPT !.shaken = TRUE] \in Session
         /\ [x EXCEPT !.serverIdx = n] \in Session
         /\ [x EXCEPT !.socket = NoFd, !.verify = 0, !.mark = FALSE,
                      !.remote = FALSE, !.closeTick = FALSE] \in Session
         /\ [x EXCEPT !.mark = TRUE, !.remote = TRUE, !.closeTick = FALSE,
                      !.socket = NoFd, !.verify = 0] \in Session
  BY DEF Session

LEMMA FreshSession ==
  ASSUME NEW f \in Fd, NEW n \in Nat
  PROVE  [FreeSession EXCEPT !.socket = f, !.status = "conn", !.verify = n] \in Session
  BY DEF FreeSession, Session

LEMMA ClosingTypes ==
  ASSUME Types, NEW t \in Thread, NEW s \in Slot, NEW tell \in BOOLEAN, NEW locked \in BOOLEAN,
         StartClose(t, s, tell, locked)
  PROVE  closing' \in [Thread -> {Resting} \cup Closing]
  BY DEF Types, StartClose, Closing

LEMMA InitTypes ==
  ASSUME GateAssumption, Init
  PROVE  Types
<1>1. FreeSession \in Session
  BY DEF FreeSession, Session
<1> QED  BY <1>1 DEF Init, Types

LEMMA CloseTypes ==
  ASSUME GateAssumption, Types, NEW t \in Thread, CloseStep(t)
  PROVE  Types'
<1> USE DEF Types
<1>1. closing[t].pc # "none" => closing[t] \in Closing /\ closing[t].slot \in Slot
  BY DEF Closing, Resting
<1>2. CASE CloseMark(t)
  <2>1. closing[t] \in Closing /\ sessions[closing[t].slot] \in Session
    BY <1>1, <1>2 DEF CloseMark
  <2>2. [closing[t] EXCEPT !.pc = "marked", !.fd = sessions[closing[t].slot].socket,
                           !.conn = sessions[closing[t].slot].verify] \in Closing
    BY <2>1 DEF Closing, Session
  <2>3. [sessions[closing[t].slot] EXCEPT !.mark = TRUE] \in Session
    BY <2>1 DEF Session
  <2> QED  BY <1>2, <2>1, <2>2, <2>3 DEF CloseMark, linkVars, Closing
<1>3. CASE CloseClear(t)
  <2>1. closing[t] \in Closing /\ sessions[closing[t].slot] \in Session
    BY <1>1, <1>3 DEF CloseClear
  <2>2. [closing[t] EXCEPT !.pc = "cleared",
                           !.inCommu = sessions[closing[t].slot].status = "commu"] \in Closing
    BY <2>1 DEF Closing
  <2>3. [sessions[closing[t].slot] EXCEPT !.socket = NoFd, !.closeTick = TRUE,
                                          !.verify = 0] \in Session
    BY <2>1 DEF Session
  <2> QED  BY <1>3, <2>1, <2>2, <2>3 DEF CloseClear, linkVars, Closing
<1>6. CASE CloseIdle(t)
  <2>1. closing[t] \in Closing /\ sessions[closing[t].slot] \in Session
    BY <1>1, <1>6 DEF CloseIdle
  <2>2. [closing[t] EXCEPT !.pc = "idle"] \in Closing
    BY <2>1 DEF Closing
  <2>3. [sessions[closing[t].slot] EXCEPT !.status = "idle"] \in Session
    BY <2>1 DEF Session
  <2> QED  BY <1>6, <2>1, <2>2, <2>3 DEF CloseIdle, linkVars, Closing
<1>4. CASE CloseSocket(t)
  <2>1. closing[t] \in Closing
    BY <1>1, <1>4 DEF CloseSocket
  <2>2. [closing[t] EXCEPT !.pc = "closed"] \in Closing /\ closing[t].fd \in Fd \cup {NoFd}
    BY <2>1 DEF Closing
  <2> QED  BY <1>4, <2>2 DEF CloseSocket, linkVars
<1>5. CASE CloseTell(t)
  BY <1>5 DEF CloseTell, linkVars
<1> QED  BY <1>2, <1>3, <1>4, <1>5, <1>6 DEF CloseStep

LEMMA AcceptTypes ==
  ASSUME GateAssumption, Types, Accept
  PROVE  Types'
<1> USE DEF Types
<1>1. accepting.pc # "none" => accepting \in Acceptance /\ accepting.slot \in Slot /\ accepting.fd \in Fd
  BY DEF Acceptance, Resting
<1>2. CASE \E f \in Fd : AcceptPick(f)
  <2>1. PICK f \in Fd : AcceptPick(f)
    BY <1>2
  <2> DEFINE s == Min(FreeSlots)
  <2>2. s \in Slot
    BY <2>1, FirstFreeSlot DEF AcceptPick
  <2>3. /\ sessions' = [sessions EXCEPT ![s].status = "conn"]
        /\ accepting' = [pc |-> "init", slot |-> s, fd |-> f]
        /\ peer' = [peer EXCEPT ![f] = userVerify + 1]
        /\ UNCHANGED <<userVerify, selected, recvQueue, working, closing, dropping, toGate>>
    BY <2>1 DEF AcceptPick, linkVars
  <2> HIDE DEF s
  <2>4. [sessions[s] EXCEPT !.status = "conn"] \in Session
    <3>1. sessions[s] \in Session
      BY <2>2
    <3> QED  BY <3>1, SessionWrites
  <2> QED  BY <2>2, <2>3, <2>4 DEF Acceptance
<1>3. CASE AcceptInit
  <2>1. accepting \in Acceptance /\ accepting.slot \in Slot /\ accepting.fd \in Fd
    BY <1>1, <1>3 DEF AcceptInit
  <2>2. [FreeSession EXCEPT !.socket = accepting.fd, !.status = "conn",
                            !.verify = userVerify + 1] \in Session
    <3>1. userVerify + 1 \in Nat
      OBVIOUS
    <3> QED  BY <2>1, <3>1, FreshSession
  <2>3. [accepting EXCEPT !.pc = "recv"] \in Acceptance
    BY <2>1 DEF Acceptance
  <2> QED  BY <1>3, <2>1, <2>2, <2>3 DEF AcceptInit, linkVars
<1>4. CASE AcceptHandshake
  <2>1. accepting \in Acceptance /\ accepting.slot \in Slot
    BY <1>1, <1>4 DEF AcceptHandshake
  <2>2. [sessions[accepting.slot] EXCEPT !.shaken = TRUE] \in Session
    <3>1. sessions[accepting.slot] \in Session
      BY <2>1
    <3> QED  BY <3>1, SessionWrites
  <2>3. [accepting EXCEPT !.pc = "open"] \in Acceptance
    BY <2>1 DEF Acceptance
  <2>4. CASE Usable(accepting.slot)
    <3>1. /\ sessions' = [sessions EXCEPT ![accepting.slot].shaken = TRUE]
          /\ accepting' = [accepting EXCEPT !.pc = "open"]
      BY <1>4, <2>4 DEF AcceptHandshake
    <3>2. sessions' \in [Slot -> Session]
      BY <2>1, <2>2, <3>1
    <3> QED  BY <1>4, <2>3, <3>1, <3>2 DEF AcceptHandshake, linkVars
  <2>5. CASE ~ Usable(accepting.slot)
    BY <1>4, <2>5 DEF AcceptHandshake, linkVars
  <2> QED  BY <2>4, <2>5
<1>5. CASE AcceptOpen
  BY <1>5 DEF AcceptOpen, linkVars
<1>6. CASE AcceptError
  <2>1. accepting.slot \in Slot
    BY <1>1, <1>6 DEF AcceptError
  <2>2. [sessions[accepting.slot] EXCEPT !.remote = TRUE] \in Session
    <3>1. sessions[accepting.slot] \in Session
      BY <2>1
    <3> QED  BY <3>1, SessionWrites
  <2>3. closing' \in [Thread -> {Resting} \cup Closing]
    BY <1>6, <2>1, ClosingTypes DEF AcceptError, Thread
  <2> QED  BY <1>6, <2>1, <2>2, <2>3 DEF AcceptError, linkVars
<1>7. CASE AcceptEof
  BY <1>7 DEF AcceptEof, linkVars
<1> QED  BY <1>2, <1>3, <1>4, <1>5, <1>6, <1>7 DEF Accept

LEMMA SelectTypes ==
  ASSUME GateAssumption, Types, Select
  PROVE  Types'
<1> USE DEF Types
<1>1. CASE SelectPick
  BY <1>1 DEF SelectPick, linkVars
<1>2. CASE \E s \in Slot, good \in BOOLEAN : SelectRecv(s, good)
  <2>1. PICK s \in Slot, good \in BOOLEAN : SelectRecv(s, good)
    BY <1>2
  <2> DEFINE x == [slot |-> s, verify |-> sessions[s].verify,
                   conn |-> peer[sessions[s].socket], good |-> good]
  <2>2. sessions[s].socket \in Fd /\ sessions[s].verify \in Nat
    BY <2>1 DEF SelectRecv, Session
  <2>3. x \in Buffer
    BY <2>2 DEF Buffer
  <2>4. recvQueue' \in Seq(Buffer)
    <3>1. recvQueue' = Append(recvQueue, x) \/ recvQueue' = recvQueue
      BY <2>1 DEF SelectRecv
    <3> HIDE DEF x
    <3> QED  BY <2>3, <3>1, SMTT(30)
  <2> QED  BY <2>1, <2>4 DEF SelectRecv, linkVars
<1>3. CASE \E s \in Slot : SelectNothing(s)
  BY <1>3 DEF SelectNothing, linkVars
<1>4. CASE \E s \in Slot : SelectError(s)
  <2>1. PICK s \in Slot : SelectError(s)
    BY <1>4
  <2>2. [sessions[s] EXCEPT !.remote = TRUE] \in Session
    <3>1. sessions[s] \in Session
      OBVIOUS
    <3> QED  BY <3>1, SessionWrites
  <2>3. closing' \in [Thread -> {Resting} \cup Closing]
    BY <2>1, ClosingTypes DEF SelectError, Thread
  <2> QED  BY <2>1, <2>2, <2>3 DEF SelectError, linkVars
<1> QED  BY <1>1, <1>2, <1>3, <1>4 DEF Select

LEMMA ProcessTypes ==
  ASSUME GateAssumption, Types, Process
  PROVE  Types'
<1> USE DEF Types
<1>1. working.pc # "none" => working \in Work /\ working.slot \in Slot
  BY DEF Work, Resting
<1>2. CASE ProcessTake
  <2> DEFINE b == Head(recvQueue)
  <2>1. b \in Buffer /\ Tail(recvQueue) \in Seq(Buffer)
    BY <1>2 DEF ProcessTake
  <2>2. [pc |-> "packet", slot |-> b.slot, verify |-> b.verify,
         conn |-> b.conn, good |-> b.good] \in Work
    BY <2>1 DEF Buffer, Work
  <2> QED  BY <1>2, <2>1, <2>2 DEF ProcessTake, linkVars
<1>3. CASE ProcessIgnore \/ ProcessData
  BY <1>3 DEF ProcessIgnore, ProcessData, linkVars
<1>4. CASE ProcessBad
  <2>1. working.slot \in Slot
    BY <1>1, <1>4 DEF ProcessBad
  <2>2. closing' \in [Thread -> {Resting} \cup Closing]
    BY <1>4, <2>1, ClosingTypes DEF ProcessBad, Thread
  <2> QED  BY <1>4, <2>2 DEF ProcessBad, linkVars
<1>5. CASE ProcessFirst
  <2>1. [working EXCEPT !.pc = "key"] \in Work
    BY <1>1, <1>5 DEF ProcessFirst, Work
  <2> QED  BY <1>5, <2>1 DEF ProcessFirst, linkVars
<1>6. CASE ProcessKey
  <2>1. working.slot \in Slot
    BY <1>1, <1>6 DEF ProcessKey
  <2>2. [sessions[working.slot] EXCEPT !.status = "commu"] \in Session
    <3>1. sessions[working.slot] \in Session
      BY <2>1
    <3> QED  BY <3>1, SessionWrites
  <2> QED  BY <1>6, <2>1, <2>2 DEF ProcessKey, linkVars
<1>7. CASE \E s \in Slot : CheckRecycle(s)
  <2>1. PICK s \in Slot : CheckRecycle(s)
    BY <1>7
  <2>2. [sessions[s] EXCEPT !.socket = NoFd, !.verify = 0, !.mark = FALSE,
                            !.remote = FALSE, !.closeTick = FALSE] \in Session
    <3>1. sessions[s] \in Session
      OBVIOUS
    <3> QED  BY <3>1, SessionWrites
  <2> QED  BY <2>1, <2>2 DEF CheckRecycle, linkVars
<1> QED  BY <1>2, <1>3, <1>4, <1>5, <1>6, <1>7 DEF Process

LEMMA DispatchTypes ==
  ASSUME GateAssumption, Types, Dispatch
  PROVE  Types'
<1> USE DEF Types
<1> DEFINE m == Head(toGate)
<1>1. toGate # << >> => /\ m \in Order /\ m.slot \in Slot /\ m.serverIdx \in Nat
                        /\ Tail(toGate) \in Seq(Order)
  <2> SUFFICES ASSUME toGate # << >>
               PROVE  /\ m \in Order /\ m.slot \in Slot /\ m.serverIdx \in Nat
                      /\ Tail(toGate) \in Seq(Order)
    OBVIOUS
  <2>1. m \in Order /\ Tail(toGate) \in Seq(Order)
    OBVIOUS
  <2> HIDE DEF m
  <2> QED  BY <2>1 DEF Order
<1>2. CASE DispatchClose
  <2>1. toGate # << >>
    BY <1>2 DEF DispatchClose
  <2>2. closing' \in [Thread -> {Resting} \cup Closing]
    <3>1. closing' = closing \/ StartClose("dispatch", m.slot, FALSE, FALSE)
      BY <1>2 DEF DispatchClose
    <3> HIDE DEF m
    <3> QED  BY <1>1, <2>1, <3>1, ClosingTypes DEF Thread
  <2> QED  BY <1>1, <1>2, <2>1, <2>2 DEF DispatchClose, linkVars
<1>3. CASE DispatchIndex
  <2>1. toGate # << >>
    BY <1>3 DEF DispatchIndex
  <2>2. [sessions[m.slot] EXCEPT !.serverIdx = m.serverIdx] \in Session
    <3>1. sessions[m.slot] \in Session /\ m.serverIdx \in Nat
      BY <1>1, <2>1
    <3> HIDE DEF m
    <3> QED  BY <3>1, SessionWrites
  <2>3. sessions' \in [Slot -> Session]
    <3>1. sessions' = sessions \/ sessions' = [sessions EXCEPT ![m.slot].serverIdx = m.serverIdx]
      BY <1>3 DEF DispatchIndex
    <3> HIDE DEF m
    <3> QED  BY <1>1, <2>1, <2>2, <3>1
  <2> QED  BY <1>1, <1>3, <2>1, <2>3 DEF DispatchIndex, linkVars
<1> QED  BY <1>2, <1>3 DEF Dispatch

LEMMA LinkTypes ==
  ASSUME GateAssumption, Types, Link
  PROVE  Types'
<1> USE DEF Types
<1>1. CASE LinkLost
  <2>1. dropping' = [pc |-> "next", slot |-> 1] /\ toGate' = << >>
    BY <1>1 DEF LinkLost
  <2> QED  BY <1>1, <2>1 DEF LinkLost
<1>2. CASE DropNext
  <2>1. dropping.pc = "next" /\ dropping \in [pc : {"next"}, slot : Nat \ {0}]
    BY <1>2 DEF DropNext, Resting
  <2>2. CASE dropping.slot > NumSlots
    BY <1>2, <2>2 DEF DropNext, linkVars
  <2>3. CASE ~ dropping.slot > NumSlots
    <3>1. dropping.slot \in Slot
      BY <2>1, <2>3 DEF GateAssumption, Slot
    <3>2. CASE sessions[dropping.slot].socket # NoFd
      <4>1. /\ StartClose("link", dropping.slot, TRUE, FALSE)
            /\ dropping' = [dropping EXCEPT !.pc = "force"]
        BY <1>2, <2>3, <3>2 DEF DropNext
      <4>2. closing' \in [Thread -> {Resting} \cup Closing]
        BY <3>1, <4>1, ClosingTypes DEF Thread
      <4>3. dropping' \in [pc : {"force"}, slot : Slot]
        BY <2>1, <3>1, <4>1
      <4> QED  BY <1>2, <4>2, <4>3 DEF DropNext, linkVars
    <3>3. CASE ~ sessions[dropping.slot].socket # NoFd
      <4>1. dropping' = [dropping EXCEPT !.slot = @ + 1] /\ closing' = closing
        BY <1>2, <2>3, <3>3 DEF DropNext
      <4>2. dropping' \in [pc : {"next"}, slot : Nat \ {0}]
        BY <2>1, <4>1
      <4> QED  BY <1>2, <4>1, <4>2 DEF DropNext, linkVars
    <3> QED  BY <3>2, <3>3
  <2> QED  BY <2>2, <2>3
<1>3. CASE DropForce
  <2>1. dropping.slot \in Slot
    BY <1>3 DEF DropForce, Resting
  <2>2. [sessions[dropping.slot] EXCEPT !.mark = TRUE, !.remote = TRUE, !.closeTick = FALSE,
                                        !.socket = NoFd, !.verify = 0] \in Session
    <3>1. sessions[dropping.slot] \in Session
      BY <2>1
    <3> QED  BY <3>1, SessionWrites
  <2>3. dropping.slot + 1 \in Nat \ {0}
    BY <2>1 DEF Slot, GateAssumption
  <2>4. dropping' \in [pc : {"next"}, slot : Nat \ {0}]
    BY <1>3, <2>3 DEF DropForce
  <2> QED  BY <1>3, <2>1, <2>2, <2>4 DEF DropForce, linkVars
<1>4. CASE Reconnect
  BY <1>4 DEF Reconnect
<1> QED  BY <1>1, <1>2, <1>3, <1>4 DEF Link

LEMMA NextTypes ==
  ASSUME GateAssumption, Types, [Next]_vars
  PROVE  Types'
<1>1. CASE \E t \in {"process", "send"}, s \in Slot : CloseByItself(t, s)
  <2>1. PICK t \in {"process", "send"}, s \in Slot : CloseByItself(t, s)
    BY <1>1
  <2>2. closing' \in [Thread -> {Resting} \cup Closing]
    <3>1. t \in Thread /\ (t = "process") \in BOOLEAN /\ StartClose(t, s, TRUE, t = "process")
      BY <2>1 DEF CloseByItself, Thread
    <3> QED  BY <3>1, ClosingTypes
  <2> QED  BY <2>1, <2>2 DEF CloseByItself, linkVars, Types
<1>2. CASE ServerReads
  BY <1>2 DEF ServerReads, gateVars, Types
<1>3. CASE \E type \in {"close", "index"}, s \in Slot, f \in Fd : ServerSends(type, s, f)
  <2>1. PICK type \in {"close", "index"}, s \in Slot, f \in Fd : ServerSends(type, s, f)
    BY <1>3
  <2>2. Message(type, s, f, 0, 0) \in Order
    BY DEF Message, Order
  <2> QED  BY <2>1, <2>2 DEF ServerSends, gateVars, Types
<1>4. CASE UNCHANGED vars
  BY <1>4 DEF vars, gateVars, Types
<1> QED  BY <1>1, <1>2, <1>3, <1>4, CloseTypes, AcceptTypes, SelectTypes, ProcessTypes,
            DispatchTypes, LinkTypes DEF Next, GateNext

-----------------------------------------------------------------------------
(* The races *)

LEMMA InitRace ==
  ASSUME GateAssumption, Init
  PROVE  RaceInv
<1>1. Types
  BY InitTypes
<1>2. BusyNotFree /\ ClosersMark /\ FilledWasFree /\ VerifyHolds
  BY DEF Init, BusyNotFree, Busy, Rests, Resting, ClosersMark, FilledWasFree, VerifyHolds
<1> QED  BY <1>1, <1>2 DEF RaceInv

\* A slot some thread works with, or that a thread closes, and what is known of it.
LEMMA BusySlots ==
  ASSUME GateAssumption, Types
  PROVE  /\ \A t \in Thread : ~ Rests(t) => closing[t].slot \in Slot /\ Busy(closing[t].slot)
         /\ \A t \in Thread : closing[t].pc # "none" <=> ~ Rests(t)
         /\ working.pc # "none" => working.slot \in Slot /\ Busy(working.slot)
         /\ accepting.pc # "none" => accepting.slot \in Slot
         /\ dropping.pc = "force" => dropping.slot \in Slot /\ Busy(dropping.slot)
         /\ DOMAIN sessions = Slot /\ DOMAIN closing = Thread
<1>1. \A t \in Thread : closing[t].pc # "none" <=> ~ Rests(t)
  <2> SUFFICES ASSUME NEW t \in Thread PROVE closing[t].pc # "none" <=> ~ Rests(t)
    OBVIOUS
  <2>1. CASE closing[t] = Resting
    BY <2>1 DEF Rests, Resting
  <2>2. CASE closing[t] \in Closing
    BY <2>2 DEF Rests, Resting, Closing
  <2> QED  BY <2>1, <2>2 DEF Types
<1>2. \A t \in Thread : ~ Rests(t) => closing[t].slot \in Slot /\ Busy(closing[t].slot)
  BY DEF Types, Rests, Resting, Closing, Busy
<1>3. working.pc # "none" => working.slot \in Slot /\ Busy(working.slot)
  BY DEF Types, Work, Resting, Busy
<1>4. accepting.pc # "none" => accepting.slot \in Slot
  BY DEF Types, Acceptance, Resting
<1>5. dropping.pc = "force" => dropping.slot \in Slot /\ Busy(dropping.slot)
  BY DEF Types, Resting, Busy
<1> QED  BY <1>1, <1>2, <1>3, <1>4, <1>5 DEF Types

\* No thread works with the slot that is to be filled.
LEMMA NotBusyBeforeInit ==
  ASSUME GateAssumption, RaceInv, accepting.pc = "init"
  PROVE  accepting.slot \in Slot /\ ~ Busy(accepting.slot)
<1>1. accepting.slot \in Slot
  BY BusySlots DEF RaceInv
<1> QED  BY <1>1 DEF RaceInv, BusyNotFree, FilledWasFree

LEMMA CloseRace ==
  ASSUME GateAssumption, RaceInv, NEW t \in Thread, CloseStep(t)
  PROVE  BusyNotFree' /\ ClosersMark' /\ FilledWasFree' /\ VerifyHolds'
<1> DEFINE s == closing[t].slot
<1>1. s \in Slot /\ Busy(s) /\ ~ Rests(t) /\ closing[t].pc # "none"
  BY BusySlots DEF RaceInv, CloseStep, CloseMark, CloseClear, CloseIdle, CloseSocket, CloseTell
<1>2. accepting.pc = "init" => accepting.slot # s
  BY <1>1, NotBusyBeforeInit
<1>3. /\ DOMAIN sessions = Slot /\ DOMAIN closing = Thread
      /\ working.pc # "none" => working.slot \in Slot
      /\ \A u \in Thread : ~ Rests(u) => closing[u].slot \in Slot
      /\ \A u \in Thread : closing[u].pc # "none" <=> ~ Rests(u)
  BY BusySlots DEF RaceInv
<1>4. /\ DOMAIN sessions[s] = {"socket", "mark", "remote", "closeTick", "status", "verify",
                               "shaken", "serverIdx"}
      /\ {"pc", "slot"} \subseteq DOMAIN closing[t]
  <2>1. sessions[s] \in Session /\ closing[t] \in Closing
    BY <1>1 DEF RaceInv, Types, Rests, Resting
  <2> QED  BY <2>1 DEF Session, Closing
<1> HIDE DEF s
<1>5. /\ \A u \in Thread : closing[u].pc \in {"marked", "cleared", "idle", "closed"} =>
                             sessions[closing[u].slot].mark
      /\ \A x \in Slot : Busy(x) => sessions[x].socket # NoFd \/ sessions[x].mark
      /\ accepting.pc = "init" => /\ sessions[accepting.slot].socket = NoFd
                                  /\ ~ sessions[accepting.slot].mark
                                  /\ accepting.slot \in Slot
      /\ VerifyHolds
  BY NotBusyBeforeInit DEF RaceInv, ClosersMark, BusyNotFree, FilledWasFree
<1>6. CASE CloseMark(t)
  <2>1. /\ sessions' = [sessions EXCEPT ![s].mark = TRUE]
        /\ UNCHANGED <<accepting, selected, working, dropping>>
        /\ \E fd, conn : closing' = [closing EXCEPT ![t].pc = "marked", ![t].fd = fd, ![t].conn = conn]
    BY <1>6 DEF CloseMark, s
  <2>2. /\ sessions'[s].mark /\ sessions'[s].socket = sessions[s].socket
        /\ sessions'[s].verify = sessions[s].verify
        /\ \A x \in Slot : x # s => sessions'[x] = sessions[x]
        /\ \A x \in Slot : sessions[x].mark => sessions'[x].mark
    BY <2>1, <1>1, <1>3, <1>4
  <2>3. /\ \A u \in Thread : closing'[u].slot = closing[u].slot
        /\ \A u \in Thread : u # t => closing'[u] = closing[u]
    BY <2>1, <1>1, <1>3, <1>4
  <2>4. \A x \in Slot : Busy(x)' => Busy(x)
    BY <2>1, <2>3, <1>1 DEF Busy, Rests
  <2>5. BusyNotFree'
    BY <2>2, <2>4, <1>5 DEF BusyNotFree
  <2>6. ClosersMark'
    BY <2>2, <2>3, <1>3, <1>5, <1>1 DEF ClosersMark, s
  <2>7. FilledWasFree' /\ VerifyHolds'
    BY <2>1, <2>2, <1>2, <1>3, <1>5 DEF FilledWasFree, VerifyHolds
  <2> QED  BY <2>5, <2>6, <2>7
<1>7. CASE CloseClear(t)
  <2>1. /\ sessions' = [sessions EXCEPT ![s].socket = NoFd, ![s].closeTick = TRUE,
                                        ![s].verify = 0]
        /\ UNCHANGED <<accepting, selected, working, dropping>>
        /\ \E b : closing' = [closing EXCEPT ![t].pc = "cleared", ![t].inCommu = b]
        /\ closing[t].pc = "marked"
    BY <1>7 DEF CloseClear, s
  <2>2. /\ sessions'[s].mark = sessions[s].mark
        /\ sessions'[s].verify = 0
        /\ \A x \in Slot : x # s => sessions'[x] = sessions[x]
        /\ sessions[s].mark
        /\ \A x \in Slot : sessions[x].mark => sessions'[x].mark
    BY <2>1, <1>1, <1>3, <1>4, <1>5 DEF s
  <2>3. /\ \A u \in Thread : closing'[u].slot = closing[u].slot
        /\ \A u \in Thread : u # t => closing'[u] = closing[u]
    BY <2>1, <1>1, <1>3, <1>4
  <2>4. \A x \in Slot : Busy(x)' => Busy(x)
    BY <2>1, <2>3, <1>1 DEF Busy, Rests
  <2>5. BusyNotFree'
    BY <2>2, <2>4, <1>5 DEF BusyNotFree
  <2>6. ClosersMark'
    BY <2>2, <2>3, <1>3, <1>5, <1>1 DEF ClosersMark, s
  <2>7. FilledWasFree' /\ VerifyHolds'
    BY <2>1, <2>2, <1>2, <1>3, <1>5 DEF FilledWasFree, VerifyHolds
  <2> QED  BY <2>5, <2>6, <2>7
<1>8. CASE CloseSocket(t)
  <2>1. /\ UNCHANGED <<sessions, accepting, selected, working, dropping>>
        /\ closing' = [closing EXCEPT ![t].pc = "closed"]
        /\ closing[t].pc = "idle"
    BY <1>8 DEF CloseSocket
  <2>2. /\ \A u \in Thread : closing'[u].slot = closing[u].slot
        /\ \A u \in Thread : u # t => closing'[u] = closing[u]
    BY <2>1, <1>1, <1>3, <1>4
  <2>3. \A x \in Slot : Busy(x)' => Busy(x)
    BY <2>1, <2>2, <1>1 DEF Busy, Rests
  <2> QED  BY <2>1, <2>2, <2>3, <1>5 DEF BusyNotFree, ClosersMark, FilledWasFree, VerifyHolds
<1>9. CASE CloseTell(t)
  <2>1. /\ UNCHANGED <<sessions, accepting, selected, working, dropping>>
        /\ closing' = [closing EXCEPT ![t] = Resting]
    BY <1>9 DEF CloseTell
  <2>2. /\ \A u \in Thread : u # t => closing'[u] = closing[u]
        /\ closing'[t] = Resting
    BY <2>1, <1>3
  <2>3. \A x \in Slot : Busy(x)' => Busy(x)
    BY <2>1, <2>2 DEF Busy, Rests
  <2>4. ClosersMark'
    BY <2>1, <2>2, <1>5 DEF ClosersMark, Resting
  <2> QED  BY <2>1, <2>3, <2>4, <1>5 DEF BusyNotFree, FilledWasFree, VerifyHolds
<1>10. CASE CloseIdle(t)
  <2>1. /\ sessions' = [sessions EXCEPT ![s].status = "idle"]
        /\ UNCHANGED <<accepting, selected, working, dropping>>
        /\ closing' = [closing EXCEPT ![t].pc = "idle"]
        /\ closing[t].pc = "cleared"
    BY <1>10 DEF CloseIdle, s
  <2>2. /\ sessions'[s].mark = sessions[s].mark
        /\ sessions'[s].verify = sessions[s].verify
        /\ sessions'[s].socket = sessions[s].socket
        /\ \A x \in Slot : x # s => sessions'[x] = sessions[x]
        /\ sessions[s].mark
        /\ \A x \in Slot : sessions[x].mark => sessions'[x].mark
    BY <2>1, <1>1, <1>3, <1>4, <1>5 DEF s
  <2>3. /\ \A u \in Thread : closing'[u].slot = closing[u].slot
        /\ \A u \in Thread : u # t => closing'[u] = closing[u]
    BY <2>1, <1>1, <1>3, <1>4
  <2>4. \A x \in Slot : Busy(x)' => Busy(x)
    BY <2>1, <2>3, <1>1 DEF Busy, Rests
  <2>5. BusyNotFree'
    BY <2>2, <2>4, <1>5 DEF BusyNotFree
  <2>6. ClosersMark'
    BY <2>2, <2>3, <1>3, <1>5, <1>1 DEF ClosersMark, s
  <2>7. FilledWasFree' /\ VerifyHolds'
    BY <2>1, <2>2, <1>2, <1>3, <1>5 DEF FilledWasFree, VerifyHolds
  <2> QED  BY <2>5, <2>6, <2>7
<1> QED  BY <1>6, <1>7, <1>8, <1>9, <1>10 DEF CloseStep

\* A step that leaves the sessions and the closing threads alone, and begins nothing
\* with a slot that has neither socket nor mark.
LEMMA QuietRace ==
  ASSUME GateAssumption, RaceInv, UNCHANGED <<sessions, closing>>,
         \A x \in Slot : Busy(x)' => Busy(x) \/ sessions[x].socket # NoFd \/ sessions[x].mark,
         accepting' = accepting \/ accepting'.pc # "init",
         working' = working \/ VerifyHolds'
  PROVE  BusyNotFree' /\ ClosersMark' /\ FilledWasFree' /\ VerifyHolds'
  BY DEF RaceInv, BusyNotFree, ClosersMark, FilledWasFree, VerifyHolds

\* A thread starts to close a slot that has its socket, and nothing else begins.
LEMMA StartRace ==
  ASSUME GateAssumption, RaceInv, NEW t \in Thread, NEW s \in Slot,
         NEW tell \in BOOLEAN, NEW locked \in BOOLEAN, StartClose(t, s, tell, locked),
         \A x \in Slot : \/ sessions'[x] = sessions[x]
                         \/ \E b \in BOOLEAN : sessions'[x] = [sessions[x] EXCEPT !.remote = b],
         selected' \subseteq selected,
         working' = working \/ working' = Resting,
         dropping' = dropping \/ (dropping'.pc = "force" => dropping'.slot = s
                                                           /\ sessions[s].socket # NoFd),
         accepting' = accepting \/ accepting' = Resting
  PROVE  BusyNotFree' /\ ClosersMark' /\ FilledWasFree' /\ VerifyHolds'
<1>1. /\ DOMAIN closing = Thread
      /\ accepting.pc = "init" => accepting.slot \in Slot
      /\ working.pc # "none" => working.slot \in Slot
      /\ \A u \in Thread : ~ Rests(u) => closing[u].slot \in Slot
      /\ \A u \in Thread : closing[u].pc # "none" <=> ~ Rests(u)
  BY BusySlots DEF RaceInv
<1>2. \A x \in Slot : /\ sessions'[x].socket = sessions[x].socket
                      /\ sessions'[x].mark = sessions[x].mark
                      /\ sessions'[x].verify = sessions[x].verify
  <2> TAKE x \in Slot
  <2>1. sessions[x] \in Session
    BY DEF RaceInv, Types
  <2> QED  BY <2>1 DEF Session
<1>3. /\ \A u \in Thread : u # t => closing'[u] = closing[u]
      /\ closing'[t] # closing[t] => /\ closing'[t].pc = "guarded" /\ closing'[t].slot = s
                                     /\ sessions[s].socket # NoFd
  BY <1>1 DEF StartClose
<1>4. \A x \in Slot : Busy(x)' => Busy(x) \/ (x = s /\ sessions[s].socket # NoFd)
  BY <1>3 DEF Busy, Rests, Resting
<1>5. BusyNotFree'
  BY <1>2, <1>4 DEF RaceInv, BusyNotFree
<1>6. ClosersMark'
  BY <1>1, <1>2, <1>3 DEF RaceInv, ClosersMark
<1>7. FilledWasFree'
  BY <1>1, <1>2 DEF RaceInv, FilledWasFree, Resting
<1>8. VerifyHolds'
  BY <1>1, <1>2 DEF RaceInv, VerifyHolds, Resting
<1> QED  BY <1>5, <1>6, <1>7, <1>8

LEMMA AcceptRace ==
  ASSUME GateAssumption, RaceInv, Accept
  PROVE  BusyNotFree' /\ ClosersMark' /\ FilledWasFree' /\ VerifyHolds'
<1>1. CASE \E f \in Fd : AcceptPick(f)
  <2>1. PICK f \in Fd : AcceptPick(f)
    BY <1>1
  <2> DEFINE s == Min(FreeSlots)
  <2>2. s \in Slot /\ s \in FreeSlots
    BY <2>1, FirstFreeSlot DEF AcceptPick
  <2>3. sessions[s].socket = NoFd /\ ~ sessions[s].mark
    BY <2>2 DEF FreeSlots
  <2>4. /\ sessions' = [sessions EXCEPT ![s].status = "conn"]
        /\ accepting' = [pc |-> "init", slot |-> s, fd |-> f]
        /\ UNCHANGED <<selected, working, closing, dropping>>
    BY <2>1 DEF AcceptPick
  <2> HIDE DEF s
  <2>5. \A x \in Slot : /\ sessions'[x].socket = sessions[x].socket
                        /\ sessions'[x].mark = sessions[x].mark
                        /\ sessions'[x].verify = sessions[x].verify
    BY <2>4, <2>2 DEF RaceInv, Types, Session
  <2>6. \A x \in Slot : Busy(x)' = Busy(x)
    BY <2>4 DEF Busy, Rests
  <2>7. /\ working.pc # "none" => working.slot \in Slot
        /\ \A u \in Thread : closing[u].pc # "none" => closing[u].slot \in Slot
    BY BusySlots DEF RaceInv
  <2>8. BusyNotFree'
    BY <2>5, <2>6 DEF RaceInv, BusyNotFree
  <2>9. FilledWasFree' /\ ClosersMark' /\ VerifyHolds'
    BY <2>2, <2>3, <2>4, <2>5, <2>7 DEF RaceInv, FilledWasFree, ClosersMark, VerifyHolds
  <2> QED  BY <2>8, <2>9
<1>2. CASE AcceptInit
  <2> DEFINE s == accepting.slot
  <2>1. /\ s \in Slot /\ ~ Busy(s)
        /\ DOMAIN sessions = Slot
        /\ working.pc # "none" => working.slot \in Slot /\ Busy(working.slot)
        /\ \A u \in Thread : closing[u].pc # "none" => closing[u].slot \in Slot
                                                      /\ Busy(closing[u].slot)
    BY <1>2, NotBusyBeforeInit, BusySlots DEF AcceptInit, RaceInv
  <2>2. /\ \A x \in Slot : x # s => sessions'[x] = sessions[x]
        /\ UNCHANGED <<selected, working, closing, dropping>>
        /\ accepting'.pc = "recv"
    <3>1. accepting \in Acceptance
      BY <1>2 DEF AcceptInit, RaceInv, Types, Resting
    <3> QED  BY <1>2, <2>1, <3>1 DEF AcceptInit, Acceptance
  <2>3. \A x \in Slot : Busy(x)' = Busy(x)
    BY <2>2 DEF Busy, Rests
  <2> HIDE DEF s
  <2>4. BusyNotFree'
    BY <2>1, <2>2, <2>3 DEF RaceInv, BusyNotFree
  <2>5. ClosersMark' /\ VerifyHolds'
    BY <2>1, <2>2 DEF RaceInv, ClosersMark, VerifyHolds
  <2>6. FilledWasFree'
    BY <2>2 DEF FilledWasFree
  <2> QED  BY <2>4, <2>5, <2>6
<1>3. CASE AcceptHandshake
  <2>1. /\ accepting.slot \in Slot
        /\ working.pc # "none" => working.slot \in Slot
        /\ \A u \in Thread : closing[u].pc # "none" => closing[u].slot \in Slot
    BY <1>3, BusySlots DEF AcceptHandshake, RaceInv
  <2>2. /\ accepting'.pc # "init"
        /\ UNCHANGED <<selected, working, closing, dropping>>
        /\ sessions' = sessions \/ sessions' = [sessions EXCEPT ![accepting.slot].shaken = TRUE]
    <3>1. accepting \in Acceptance
      BY <1>3 DEF AcceptHandshake, RaceInv, Types, Resting
    <3> QED  BY <1>3, <3>1 DEF AcceptHandshake, Acceptance, Resting
  <2>3. \A x \in Slot : /\ sessions'[x].socket = sessions[x].socket
                        /\ sessions'[x].mark = sessions[x].mark
                        /\ sessions'[x].verify = sessions[x].verify
    <3> SUFFICES ASSUME NEW x \in Slot
                 PROVE  /\ sessions'[x].socket = sessions[x].socket
                        /\ sessions'[x].mark = sessions[x].mark
                        /\ sessions'[x].verify = sessions[x].verify
      OBVIOUS
    <3>1. DOMAIN sessions = Slot /\ sessions[x] \in Session
      BY DEF RaceInv, Types
    <3>2. DOMAIN sessions[x] = {"socket", "mark", "remote", "closeTick", "status", "verify",
                                "shaken", "serverIdx"}
      BY <3>1 DEF Session
    <3>3. sessions'[x] = sessions[x] \/ sessions'[x] = [sessions[x] EXCEPT !.shaken = TRUE]
      BY <2>1, <2>2, <3>1
    <3> QED  BY <3>2, <3>3
  <2>4. \A x \in Slot : Busy(x)' = Busy(x)
    BY <2>2 DEF Busy, Rests
  <2>5. BusyNotFree'
    BY <2>3, <2>4 DEF RaceInv, BusyNotFree
  <2>6. FilledWasFree' /\ ClosersMark' /\ VerifyHolds'
    BY <2>1, <2>2, <2>3 DEF RaceInv, FilledWasFree, ClosersMark, VerifyHolds
  <2> QED  BY <2>5, <2>6
<1>4. CASE AcceptOpen \/ AcceptEof
  <2>1. /\ UNCHANGED <<sessions, closing, selected, working, dropping>>
        /\ accepting'.pc # "init"
    BY <1>4 DEF AcceptOpen, AcceptEof, Resting
  <2>2. \A x \in Slot : Busy(x)' = Busy(x)
    BY <2>1 DEF Busy, Rests
  <2> QED  BY <2>1, <2>2, QuietRace
<1>5. CASE AcceptError
  <2>1. accepting.slot \in Slot
    BY <1>5, BusySlots DEF AcceptError, RaceInv
  <2>2. \A x \in Slot : \/ sessions'[x] = sessions[x]
                        \/ \E b \in BOOLEAN : sessions'[x] = [sessions[x] EXCEPT !.remote = b]
    BY <1>5, <2>1 DEF AcceptError, RaceInv, Types
  <2> QED  BY <1>5, <2>1, <2>2, StartRace DEF AcceptError, Thread
<1> QED  BY <1>1, <1>2, <1>3, <1>4, <1>5 DEF Accept

LEMMA SelectRace ==
  ASSUME GateAssumption, RaceInv, Select
  PROVE  BusyNotFree' /\ ClosersMark' /\ FilledWasFree' /\ VerifyHolds'
<1>1. CASE SelectPick
  <2>1. /\ UNCHANGED <<sessions, closing, accepting, working, dropping>>
        /\ \A x \in selected' : sessions[x].socket # NoFd
    BY <1>1 DEF SelectPick, Usable
  <2>2. \A x \in Slot : Busy(x)' => Busy(x) \/ sessions[x].socket # NoFd \/ sessions[x].mark
    BY <2>1 DEF Busy, Rests
  <2> QED  BY <2>1, <2>2, QuietRace
<1>2. CASE \E s \in Slot : SelectNothing(s) \/ \E good \in BOOLEAN : SelectRecv(s, good)
  <2>1. /\ UNCHANGED <<sessions, closing, accepting, working, dropping>>
        /\ selected' \subseteq selected
    BY <1>2 DEF SelectNothing, SelectRecv
  <2>2. \A x \in Slot : Busy(x)' => Busy(x)
    BY <2>1 DEF Busy, Rests
  <2> QED  BY <2>1, <2>2, QuietRace
<1>3. CASE \E s \in Slot : SelectError(s)
  <2>1. PICK s \in Slot : SelectError(s)
    BY <1>3
  <2>2. \A x \in Slot : \/ sessions'[x] = sessions[x]
                        \/ \E b \in BOOLEAN : sessions'[x] = [sessions[x] EXCEPT !.remote = b]
    BY <2>1 DEF SelectError, RaceInv, Types
  <2>3. /\ StartClose("select", s, TRUE, FALSE)
        /\ selected' \subseteq selected
        /\ UNCHANGED <<accepting, working, dropping>>
    BY <2>1 DEF SelectError
  <2> QED  BY <2>2, <2>3, StartRace DEF Thread
<1> QED  BY <1>1, <1>2, <1>3 DEF Select

LEMMA ProcessRace ==
  ASSUME GateAssumption, RaceInv, Process
  PROVE  BusyNotFree' /\ ClosersMark' /\ FilledWasFree' /\ VerifyHolds'
<1>1. CASE ProcessTake
  <2> DEFINE b == Head(recvQueue)
  <2>1. UNCHANGED <<sessions, closing, accepting, selected, dropping>>
    BY <1>1 DEF ProcessTake
  <2>2. \/ working' = Resting
        \/ /\ working'.slot = b.slot /\ working'.verify = b.verify
           /\ sessions[b.slot].socket # NoFd /\ sessions[b.slot].verify = b.verify
    BY <1>1 DEF ProcessTake, Usable
  <2> HIDE DEF b
  <2>3. VerifyHolds'
    BY <2>1, <2>2 DEF VerifyHolds, Resting
  <2>4. \A x \in Slot : Busy(x)' => Busy(x) \/ sessions[x].socket # NoFd \/ sessions[x].mark
    BY <2>1, <2>2 DEF Busy, Rests, Resting
  <2> QED  BY <2>1, <2>3, <2>4, QuietRace
<1>2. CASE ProcessIgnore \/ ProcessData \/ ProcessFirst
  <2>1. /\ UNCHANGED <<sessions, closing, accepting, selected, dropping>>
        /\ \/ working' = Resting
           \/ working.pc # "none" /\ working'.slot = working.slot /\ working'.verify = working.verify
    <3>1. CASE ProcessIgnore \/ ProcessData
      BY <3>1 DEF ProcessIgnore, ProcessData
    <3>2. CASE ProcessFirst
      <4>1. working \in Work
        BY <3>2 DEF ProcessFirst, RaceInv, Types, Resting
      <4> QED  BY <3>2, <4>1 DEF ProcessFirst, Work
    <3> QED  BY <1>2, <3>1, <3>2
  <2>2. VerifyHolds'
    BY <2>1 DEF RaceInv, VerifyHolds, Resting
  <2>3. \A x \in Slot : Busy(x)' => Busy(x)
    BY <2>1 DEF Busy, Rests, Resting
  <2> QED  BY <2>1, <2>2, <2>3, QuietRace
<1>3. CASE ProcessBad
  <2>1. working.slot \in Slot
    BY <1>3, BusySlots DEF ProcessBad, RaceInv
  <2> QED  BY <1>3, <2>1, StartRace DEF ProcessBad, Thread
<1>4. CASE ProcessKey
  <2> DEFINE s == working.slot
  <2>1. /\ s \in Slot
        /\ accepting.pc # "none" => accepting.slot \in Slot
        /\ \A u \in Thread : closing[u].pc # "none" => closing[u].slot \in Slot
    BY <1>4, BusySlots DEF ProcessKey, RaceInv
  <2>2. /\ sessions' = [sessions EXCEPT ![s].status = "commu"]
        /\ working' = Resting
        /\ UNCHANGED <<closing, accepting, selected, dropping>>
    BY <1>4 DEF ProcessKey
  <2> HIDE DEF s
  <2>3. \A x \in Slot : /\ sessions'[x].socket = sessions[x].socket
                        /\ sessions'[x].mark = sessions[x].mark
    <3> TAKE x \in Slot
    <3>1. DOMAIN sessions = Slot /\ sessions[x] \in Session
      BY DEF RaceInv, Types
    <3> QED  BY <2>1, <2>2, <3>1 DEF Session
  <2>4. \A x \in Slot : Busy(x)' => Busy(x)
    BY <2>2 DEF Busy, Rests, Resting
  <2>5. BusyNotFree'
    BY <2>3, <2>4 DEF RaceInv, BusyNotFree
  <2>6. FilledWasFree' /\ ClosersMark' /\ VerifyHolds'
    BY <2>1, <2>2, <2>3 DEF RaceInv, FilledWasFree, ClosersMark, VerifyHolds, Resting
  <2> QED  BY <2>5, <2>6
<1>5. CASE \E s \in Slot : CheckRecycle(s)
  <2>1. PICK s \in Slot : CheckRecycle(s)
    BY <1>5
  <2>2. /\ ~ InUse(s) /\ dropping.pc = "none"
        /\ sessions' = [sessions EXCEPT ![s].socket = NoFd, ![s].verify = 0, ![s].mark = FALSE,
                                        ![s].remote = FALSE, ![s].closeTick = FALSE]
        /\ UNCHANGED <<closing, accepting, selected, working, dropping>>
    BY <2>1 DEF CheckRecycle, TenSecondsLater, SessionLockFree
  <2>3. ~ Busy(s) /\ (accepting.pc = "init" => accepting.slot # s)
    BY <2>2 DEF InUse, Busy
  <2>4. /\ DOMAIN sessions = Slot
        /\ accepting.pc # "none" => accepting.slot \in Slot
        /\ working.pc # "none" => working.slot \in Slot /\ working.slot # s
        /\ \A u \in Thread : closing[u].pc # "none" => closing[u].slot \in Slot
                                                      /\ closing[u].slot # s
    BY <2>3, BusySlots DEF RaceInv
  <2>5. \A x \in Slot : x # s => sessions'[x] = sessions[x]
    BY <2>2, <2>4
  <2>6. \A x \in Slot : Busy(x)' = Busy(x)
    BY <2>2 DEF Busy, Rests
  <2>7. BusyNotFree'
    BY <2>3, <2>5, <2>6 DEF RaceInv, BusyNotFree
  <2>8. FilledWasFree' /\ ClosersMark' /\ VerifyHolds'
    BY <2>2, <2>3, <2>4, <2>5 DEF RaceInv, FilledWasFree, ClosersMark, VerifyHolds
  <2> QED  BY <2>7, <2>8
<1> QED  BY <1>1, <1>2, <1>3, <1>4, <1>5 DEF Process

LEMMA DispatchRace ==
  ASSUME GateAssumption, RaceInv, Dispatch
  PROVE  BusyNotFree' /\ ClosersMark' /\ FilledWasFree' /\ VerifyHolds'
<1> DEFINE m == Head(toGate)
<1>1. toGate # << >> => m.slot \in Slot
  <2> SUFFICES ASSUME toGate # << >> PROVE m.slot \in Slot
    OBVIOUS
  <2>1. m \in Order
    BY DEF RaceInv, Types
  <2> QED  BY <2>1 DEF Order
<1>2. CASE DispatchClose
  <2>1. m.slot \in Slot
    BY <1>1, <1>2 DEF DispatchClose
  <2>2. /\ closing' = closing \/ StartClose("dispatch", m.slot, FALSE, FALSE)
        /\ UNCHANGED <<sessions, accepting, selected, working, dropping>>
    BY <1>2 DEF DispatchClose
  <2> HIDE DEF m
  <2>3. CASE closing' = closing
    <3>1. \A x \in Slot : Busy(x)' => Busy(x)
      BY <2>2, <2>3 DEF Busy, Rests
    <3> QED  BY <2>2, <2>3, <3>1, QuietRace
  <2>4. CASE StartClose("dispatch", m.slot, FALSE, FALSE)
    BY <2>1, <2>2, <2>4, StartRace DEF Thread
  <2> QED  BY <2>2, <2>3, <2>4
<1>3. CASE DispatchIndex
  <2>1. m.slot \in Slot
    BY <1>1, <1>3 DEF DispatchIndex
  <2>2. /\ \/ sessions' = sessions
           \/ \E n : sessions' = [sessions EXCEPT ![m.slot].serverIdx = n]
        /\ UNCHANGED <<closing, accepting, selected, working, dropping>>
    BY <1>3 DEF DispatchIndex
  <2> HIDE DEF m
  <2>3. \A x \in Slot : /\ sessions'[x].socket = sessions[x].socket
                        /\ sessions'[x].mark = sessions[x].mark
                        /\ sessions'[x].verify = sessions[x].verify
    <3> TAKE x \in Slot
    <3>1. DOMAIN sessions = Slot /\ sessions[x] \in Session
      BY DEF RaceInv, Types
    <3>2. \/ sessions'[x] = sessions[x]
          \/ \E n : sessions'[x] = [sessions[x] EXCEPT !.serverIdx = n]
      BY <2>1, <2>2, <3>1
    <3>3. DOMAIN sessions[x] = {"socket", "mark", "remote", "closeTick", "status", "verify",
                                "shaken", "serverIdx"}
      BY <3>1 DEF Session
    <3> QED  BY <3>2, <3>3
  <2>4. /\ accepting.pc # "none" => accepting.slot \in Slot
        /\ working.pc # "none" => working.slot \in Slot
        /\ \A u \in Thread : closing[u].pc # "none" => closing[u].slot \in Slot
    BY BusySlots DEF RaceInv
  <2>5. \A x \in Slot : Busy(x)' = Busy(x)
    BY <2>2 DEF Busy, Rests
  <2>6. BusyNotFree'
    BY <2>3, <2>5 DEF RaceInv, BusyNotFree
  <2>7. FilledWasFree' /\ ClosersMark' /\ VerifyHolds'
    BY <2>2, <2>3, <2>4 DEF RaceInv, FilledWasFree, ClosersMark, VerifyHolds
  <2> QED  BY <2>6, <2>7
<1> QED  BY <1>2, <1>3 DEF Dispatch

LEMMA LinkRace ==
  ASSUME GateAssumption, RaceInv, Link
  PROVE  BusyNotFree' /\ ClosersMark' /\ FilledWasFree' /\ VerifyHolds'
<1>1. CASE LinkLost \/ Reconnect
  <2>1. /\ UNCHANGED <<sessions, closing, accepting, selected, working>>
        /\ dropping' = dropping \/ dropping'.pc # "force"
    BY <1>1 DEF LinkLost, Reconnect
  <2>2. \A x \in Slot : Busy(x)' => Busy(x)
    BY <2>1 DEF Busy, Rests
  <2> QED  BY <2>1, <2>2, QuietRace
<1>2. CASE DropNext
  <2>1. /\ UNCHANGED <<sessions, accepting, selected, working>>
        /\ dropping.pc = "next" /\ dropping \in [pc : {"next"}, slot : Nat \ {0}]
    BY <1>2 DEF DropNext, RaceInv, Types, Resting
  <2>2. CASE closing' = closing /\ dropping'.pc # "force"
    <3>1. \A x \in Slot : Busy(x)' => Busy(x)
      BY <2>1, <2>2 DEF Busy, Rests
    <3> QED  BY <2>1, <2>2, <3>1, QuietRace
  <2>3. CASE /\ dropping.slot \in Slot /\ sessions[dropping.slot].socket # NoFd
             /\ StartClose("link", dropping.slot, TRUE, FALSE)
             /\ dropping' = [dropping EXCEPT !.pc = "force"]
    <3>1. dropping'.slot = dropping.slot
      BY <2>1, <2>3
    <3> QED  BY <2>1, <2>3, <3>1, StartRace DEF Thread
  <2>4. \/ dropping.slot > NumSlots
        \/ dropping.slot \in Slot
    BY <2>1 DEF Slot, GateAssumption
  <2>5. CASE dropping.slot > NumSlots
    <3>1. closing' = closing /\ dropping' = Resting
      BY <1>2, <2>5 DEF DropNext
    <3> QED  BY <2>2, <3>1 DEF Resting
  <2>6. CASE ~ dropping.slot > NumSlots /\ sessions[dropping.slot].socket # NoFd
    BY <1>2, <2>3, <2>4, <2>6 DEF DropNext
  <2>7. CASE ~ dropping.slot > NumSlots /\ ~ sessions[dropping.slot].socket # NoFd
    <3>1. closing' = closing /\ dropping' = [dropping EXCEPT !.slot = @ + 1]
      BY <1>2, <2>7 DEF DropNext
    <3>2. dropping'.pc = "next"
      BY <2>1, <3>1
    <3> QED  BY <2>2, <3>1, <3>2
  <2> QED  BY <2>5, <2>6, <2>7
<1>3. CASE DropForce
  <2> DEFINE s == dropping.slot
  <2>1. s \in Slot /\ Busy(s)
    BY <1>3, BusySlots DEF DropForce, RaceInv
  <2>2. /\ sessions' = [sessions EXCEPT ![s].mark = TRUE, ![s].remote = TRUE,
                                        ![s].closeTick = FALSE, ![s].socket = NoFd,
                                        ![s].verify = 0]
        /\ UNCHANGED <<closing, accepting, selected, working>>
        /\ dropping'.pc = "next"
    BY <1>3 DEF DropForce
  <2>3. accepting.pc = "init" => accepting.slot # s
    BY <2>1, NotBusyBeforeInit
  <2> HIDE DEF s
  <2>4. /\ DOMAIN sessions = Slot
        /\ accepting.pc # "none" => accepting.slot \in Slot
        /\ working.pc # "none" => working.slot \in Slot
        /\ \A u \in Thread : closing[u].pc # "none" => closing[u].slot \in Slot
    BY BusySlots DEF RaceInv
  <2>5. /\ \A x \in Slot : x # s => sessions'[x] = sessions[x]
        /\ sessions'[s].mark /\ sessions'[s].verify = 0
    <3>1. sessions[s] \in Session
      BY <2>1 DEF RaceInv, Types
    <3> QED  BY <2>1, <2>2, <2>4, <3>1 DEF Session
  <2>6. \A x \in Slot : Busy(x)' => Busy(x)
    BY <2>2 DEF Busy, Rests
  <2>7. BusyNotFree'
    BY <2>5, <2>6 DEF RaceInv, BusyNotFree
  <2>8. ClosersMark' /\ VerifyHolds'
    BY <2>2, <2>4, <2>5 DEF RaceInv, ClosersMark, VerifyHolds
  <2>9. FilledWasFree'
    BY <2>2, <2>3, <2>4, <2>5 DEF RaceInv, FilledWasFree
  <2> QED  BY <2>7, <2>8, <2>9
<1> QED  BY <1>1, <1>2, <1>3 DEF Link

LEMMA NextRace ==
  ASSUME GateAssumption, RaceInv, [Next]_vars
  PROVE  RaceInv'
<1>1. Types'
  BY NextTypes DEF RaceInv
<1>2. CASE \E t \in {"process", "send"}, s \in Slot : CloseByItself(t, s)
  <2>1. PICK t \in {"process", "send"}, s \in Slot : CloseByItself(t, s)
    BY <1>2
  <2>2. /\ t \in Thread /\ (t = "process") \in BOOLEAN
        /\ StartClose(t, s, TRUE, t = "process")
        /\ UNCHANGED <<sessions, accepting, selected, working, dropping>>
    BY <2>1 DEF CloseByItself, Thread
  <2>3. BusyNotFree' /\ ClosersMark' /\ FilledWasFree' /\ VerifyHolds'
    BY <2>2, StartRace
  <2> QED  BY <1>1, <2>3 DEF RaceInv
<1>3. CASE \/ ServerReads
           \/ \E type \in {"close", "index"}, s \in Slot, f \in Fd : ServerSends(type, s, f)
           \/ UNCHANGED vars
  <2>1. UNCHANGED <<sessions, closing, accepting, selected, working, dropping>>
    BY <1>3 DEF ServerReads, ServerSends, vars, gateVars
  <2>2. \A x \in Slot : Busy(x)' = Busy(x)
    BY <2>1 DEF Busy, Rests
  <2>3. BusyNotFree' /\ ClosersMark' /\ FilledWasFree' /\ VerifyHolds'
    BY <2>1, <2>2, QuietRace
  <2> QED  BY <1>1, <2>3 DEF RaceInv
<1> QED  BY <1>1, <1>2, <1>3, CloseRace, AcceptRace, SelectRace, ProcessRace, DispatchRace,
            LinkRace DEF Next, GateNext, RaceInv

-----------------------------------------------------------------------------
(* The link to the logic server *)

\* What the gate posts to the server, and the users the server keeps.
Post == [type : {"open", "data"}, slot : Slot, fd : Fd \cup {NoFd}, conn : Nat, serverIdx : Nat]
   \cup [type : {"close"}, slot : {0}, fd : Fd \cup {NoFd}, conn : Nat, serverIdx : Nat]
User == [sock : Fd \cup {NoFd}, slot : Slot, conn : Nat] \cup {Gone}

PostTypes == toServer \in Seq(Post) /\ users \in Seq(User)

\* The gate with whatever server: that of GateLink, or one that sends anything.
AnyNext == Next \/ LinkNext

\* The slots the threads and the queue name are slots.
LEMMA Places ==
  ASSUME GateAssumption, Types
  PROVE  /\ selected \subseteq Slot
         /\ accepting.pc # "none" => accepting.slot \in Slot /\ accepting.fd \in Fd
         /\ working.pc # "none" => working.slot \in Slot /\ working \in Work
         /\ \A t \in Thread : ~ Rests(t) => closing[t].slot \in Slot
         /\ \A i \in DOMAIN recvQueue : recvQueue[i] \in Buffer /\ recvQueue[i].slot \in Slot
<1>1. \A i \in DOMAIN recvQueue : recvQueue[i] \in Buffer /\ recvQueue[i].slot \in Slot
  <2>1. recvQueue \in Seq(Buffer)
    BY DEF Types
  <2>2. \A i \in DOMAIN recvQueue : recvQueue[i] \in Buffer
    BY <2>1
  <2> QED  BY <2>2 DEF Buffer
<1>2. accepting.pc # "none" => accepting.slot \in Slot /\ accepting.fd \in Fd
  BY DEF Types, Acceptance, Resting
<1>3. working.pc # "none" => working.slot \in Slot /\ working \in Work
  BY DEF Types, Work, Resting
<1> QED  BY <1>1, <1>2, <1>3, BusySlots DEF Types

\* What is known of a thread that closes, and of the fields of its session.
LEMMA CloserFacts ==
  ASSUME GateAssumption, Types, NEW t \in Thread, closing[t].pc # "none"
  PROVE  /\ ~ Rests(t) /\ closing[t] \in Closing /\ closing[t].slot \in Slot
         /\ sessions[closing[t].slot] \in Session
<1>1. closing[t] \in Closing
  BY DEF Types, Resting
<1>2. ~ Rests(t)
  BY DEF Rests, Resting
<1>3. closing[t].slot \in Slot
  BY <1>1 DEF Closing
<1> QED  BY <1>1, <1>2, <1>3 DEF Types

\* A set of numbers below a bound has a greatest element, and Max returns it.
LEMMA MaxIsGreatest ==
  ASSUME NEW n \in Nat, NEW S \in SUBSET (0 .. n), S # {}
  PROVE  Max(S) \in S /\ \A y \in S : y <= Max(S)
<1> DEFINE T == {n - x : x \in S}
<1>1. T \in SUBSET (0 .. n) /\ T # {}
  <2>1. \A x \in S : n - x \in 0 .. n
    OBVIOUS
  <2> QED  BY <2>1
<1>2. PICK t \in T : \A y \in T : t <= y
  <2> HIDE DEF T
  <2>1. Min(T) \in T /\ \A y \in T : Min(T) <= y
    BY <1>1, MinIsLeast
  <2> QED  BY <2>1
<1>3. PICK x \in S : t = n - x
  OBVIOUS
<1>4. \A y \in S : y <= x
  <2> TAKE y \in S
  <2>1. n - y \in T /\ x \in Nat /\ y \in Nat
    BY DEF T
  <2>2. n - x <= n - y
    BY <1>2, <1>3, <2>1
  <2> QED  BY <2>1, <2>2
<1> QED  BY <1>4 DEF Max

LEMMA ExceptInSeq ==
  ASSUME NEW S, NEW q \in Seq(S), NEW i, NEW x \in S
  PROVE  [q EXCEPT ![i] = x] \in Seq(S)
<1>1. q \in [1 .. Len(q) -> S] /\ Len(q) \in Nat
  OBVIOUS
<1>2. [q EXCEPT ![i] = x] \in [1 .. Len(q) -> S]
  BY <1>1
<1> QED  BY <1>1, <1>2

\* The server finds a position among those of its users.
LEMMA MaxOfUsers ==
  ASSUME PostTypes, NEW S \in SUBSET (DOMAIN users), S # {}
  PROVE  Max(S) \in S /\ Max(S) \in DOMAIN users /\ Max(S) \in Nat
<1>1. users \in Seq(User) /\ Len(users) \in Nat /\ DOMAIN users = 1 .. Len(users)
  BY DEF PostTypes
<1>2. S \in SUBSET (0 .. Len(users))
  BY <1>1
<1>3. Max(S) \in S
  BY <1>1, <1>2, MaxIsGreatest
<1> QED  BY <1>1, <1>3

\* Only these tell the server anything, and only the loss of the link closes its users.
LEMMA Unposted ==
  ASSUME GateNext, ~ AcceptOpen, ~ ProcessData, ~ LinkLost, \A t \in Thread : ~ CloseTell(t)
  PROVE  users' = users /\ toServer' = toServer
<1>1. CASE \E t \in Thread : CloseStep(t)
  BY <1>1 DEF CloseStep, CloseMark, CloseClear, CloseIdle, CloseSocket, linkVars
<1>2. CASE Accept
  BY <1>2 DEF Accept, AcceptPick, AcceptInit, AcceptHandshake, AcceptError, AcceptEof, linkVars
<1>3. CASE Select
  BY <1>3 DEF Select, SelectPick, SelectRecv, SelectNothing, SelectError, linkVars
<1>4. CASE Process
  BY <1>4 DEF Process, ProcessTake, ProcessIgnore, ProcessBad, ProcessFirst, ProcessKey, CheckRecycle, linkVars
<1>5. CASE Dispatch
  BY <1>5 DEF Dispatch, DispatchClose, DispatchIndex, linkVars, gateVars
<1>6. CASE \E t \in {"process", "send"}, s \in Slot : CloseByItself(t, s)
  BY <1>6 DEF CloseByItself, linkVars
<1>7. CASE Link
  BY <1>7 DEF Link, DropNext, DropForce, Reconnect, linkVars
<1> QED  BY <1>1, <1>2, <1>3, <1>4, <1>5, <1>6, <1>7 DEF GateNext

LEMMA SendPost ==
  ASSUME PostTypes, NEW m \in Post, SendServerMessage(m)
  PROVE  toServer' \in Seq(Post)
BY DEF PostTypes, SendServerMessage

\* What a message to the server says, by the step that sends it.
LEMMA OpenPost ==
  ASSUME GateAssumption, Types, AcceptOpen
  PROVE  LET s == accepting.slot
         IN  /\ s \in Slot
             /\ Message("open", s, sessions[s].socket, sessions[s].verify, 0) \in Post
<1>1. accepting.slot \in Slot
  BY Places DEF AcceptOpen
<1>2. sessions[accepting.slot] \in Session
  BY <1>1 DEF Types
<1> QED  BY <1>1, <1>2 DEF Message, Post, Session

LEMMA DataPost ==
  ASSUME GateAssumption, Types, ProcessData
  PROVE  LET s == working.slot
         IN  /\ s \in Slot /\ working \in Work
             /\ Message("data", s, sessions[s].socket, working.conn, sessions[s].serverIdx) \in Post
<1>1. working.slot \in Slot /\ working \in Work
  BY Places DEF ProcessData
<1>2. sessions[working.slot] \in Session
  BY <1>1 DEF Types
<1> QED  BY <1>1, <1>2 DEF Message, Post, Session, Work

LEMMA ClosePost ==
  ASSUME GateAssumption, Types, NEW t \in Thread, CloseTell(t)
  PROVE  Message("close", 0, closing[t].fd, closing[t].conn, 0) \in Post
<1>1. closing[t] \in Closing
  BY CloserFacts DEF CloseTell
<1> QED  BY <1>1 DEF Message, Post, Closing

LEMMA PostsTyped ==
  ASSUME GateAssumption, Types, PostTypes, [AnyNext]_vars
  PROVE  PostTypes'
<1>0. toServer \in Seq(Post) /\ users \in Seq(User)
  BY DEF PostTypes
<1>1. CASE AcceptOpen
  <2>1. toServer' \in Seq(Post)
    BY <1>1, OpenPost, SendPost DEF AcceptOpen
  <2> QED  BY <1>0, <1>1, <2>1 DEF AcceptOpen, linkVars, PostTypes
<1>2. CASE ProcessData
  <2>1. toServer' \in Seq(Post)
    BY <1>2, DataPost, SendPost DEF ProcessData
  <2> QED  BY <1>0, <1>2, <2>1 DEF ProcessData, linkVars, PostTypes
<1>3. CASE \E t \in Thread : CloseTell(t)
  <2>1. PICK t \in Thread : CloseTell(t)
    BY <1>3
  <2>2. toServer' \in Seq(Post)
    BY <1>0, <2>1, ClosePost, SendPost DEF CloseTell
  <2> QED  BY <1>0, <2>1, <2>2 DEF CloseTell, linkVars, PostTypes
<1>4. CASE LinkLost
  <2>1. PICK k \in 0 .. Len(toServer) : toServer' = SubSeq(toServer, k + 1, Len(toServer))
    BY <1>4 DEF LinkLost
  <2>2. toServer' \in Seq(Post)
    BY <1>0, <2>1
  <2> QED  BY <1>0, <1>4, <2>2 DEF LinkLost, PostTypes
<1>5. CASE ServerOpens \/ ServerCloses \/ ServerHears
  <2>1. toServer' = Tail(toServer) /\ toServer # << >>
    BY <1>5 DEF ServerOpens, ServerCloses, ServerHears, MayRead
  <2>2. toServer' \in Seq(Post) /\ Head(toServer) \in Post
    BY <1>0, <2>1
  <2>3. CASE users' = users
    BY <1>0, <2>2, <2>3 DEF PostTypes
  <2>4. CASE ServerOpens
    <3> DEFINE m == Head(toServer)
               u == [sock |-> m.fd, slot |-> m.slot, conn |-> m.conn]
    <3>1. u \in User
      <4>1. m.type = "open" /\ m \in Post
        BY <2>2, <2>4 DEF ServerOpens, MayRead
      <4> QED  BY <4>1 DEF Post, User
    <3>2. \/ users' = Append(users, u)
          \/ \E i : users' = [users EXCEPT ![i] = u]
      BY <2>4 DEF ServerOpens
    <3> HIDE DEF u
    <3>3. users' \in Seq(User)
      <4>1. CASE users' = Append(users, u)
        BY <1>0, <3>1, <4>1
      <4>2. CASE \E i : users' = [users EXCEPT ![i] = u]
        <5>1. PICK i : users' = [users EXCEPT ![i] = u]
          BY <4>2
        <5> QED  BY <1>0, <3>1, <5>1, ExceptInSeq
      <4> QED  BY <3>2, <4>1, <4>2
    <3> QED  BY <2>2, <3>3 DEF PostTypes
  <2>5. CASE ServerCloses
    <3>1. Gone \in User
      BY DEF Gone, User
    <3>2. users' = users \/ \E i : users' = [users EXCEPT ![i] = Gone]
      BY <2>5 DEF ServerCloses
    <3>3. CASE \E i : users' = [users EXCEPT ![i] = Gone]
      <4>1. PICK i : users' = [users EXCEPT ![i] = Gone]
        BY <3>3
      <4>2. users' \in Seq(User)
        BY <1>0, <3>1, <4>1, ExceptInSeq
      <4> QED  BY <2>2, <4>2 DEF PostTypes
    <3> QED  BY <2>3, <3>2, <3>3
  <2> QED  BY <1>5, <2>3, <2>4, <2>5 DEF ServerHears
<1>8. CASE \E i \in Present : ServerKicks(i)
  <2>1. PICK i \in Present : ServerKicks(i)
    BY <1>8
  <2>2. Gone \in User /\ users' = [users EXCEPT ![i] = Gone] /\ toServer' = toServer
    BY <2>1 DEF ServerKicks, User
  <2>3. users' \in Seq(User)
    BY <1>0, <2>2, ExceptInSeq
  <2> QED  BY <1>0, <2>2, <2>3 DEF PostTypes
<1>9. CASE ServerReads
  <2>1. toServer' = Tail(toServer) /\ toServer # << >> /\ users' = users
    BY <1>9 DEF ServerReads
  <2> QED  BY <1>0, <2>1 DEF PostTypes
<1>10. CASE \E type \in {"close", "index"}, s \in Slot, f \in Fd : ServerSends(type, s, f)
  BY <1>0, <1>10 DEF ServerSends, PostTypes
<1>6. CASE UNCHANGED vars
  BY <1>0, <1>6 DEF vars, PostTypes
<1>7. CASE GateNext /\ ~ AcceptOpen /\ ~ ProcessData /\ ~ LinkLost /\ \A t \in Thread : ~ CloseTell(t)
  BY <1>0, <1>7, Unposted DEF PostTypes
<1> QED  BY <1>1, <1>2, <1>3, <1>4, <1>5, <1>6, <1>7, <1>8, <1>9, <1>10
            DEF AnyNext, LinkNext, Next, Server

\* What the server sends is well formed.
LEMMA Answers ==
  ASSUME GateAssumption, Types, PostTypes, Server
  PROVE  \/ toGate' = toGate
         \/ \E m \in Order : toGate' = Append(toGate, m)
<1> DEFINE h == Head(toServer)
<1>1. ServerOpens \/ ServerHears => h \in Post
  <2> SUFFICES ASSUME ServerOpens \/ ServerHears PROVE h \in Post
    OBVIOUS
  <2>1. toServer \in Seq(Post) /\ toServer # << >>
    BY DEF PostTypes, ServerOpens, ServerHears, MayRead
  <2> QED  BY <2>1
<1> HIDE DEF h
<1>2. ASSUME NEW i \in Nat, NEW u, u.slot \in Slot, u.sock \in Fd \cup {NoFd}, u.conn \in Nat,
             NEW type \in {"close", "index"}, Tell(type, i, u)
      PROVE  \/ toGate' = toGate
             \/ \E m \in Order : toGate' = Append(toGate, m)
  <2> DEFINE m == Message(type, u.slot, u.sock, u.conn, i)
  <2>1. m \in Order
    BY <1>2 DEF Message, Order
  <2>2. toGate' = toGate \/ toGate' = Append(toGate, m)
    BY <1>2 DEF Tell
  <2> HIDE DEF m
  <2> QED  BY <2>1, <2>2
<1>3. CASE ServerOpens
  <2> DEFINE u == [sock |-> h.fd, slot |-> h.slot, conn |-> h.conn]
             gaps == DOMAIN users \ Present
             i == IF gaps = {} THEN Len(users) + 1 ELSE Max(gaps)
  <2>1. h.type = "open"
    BY <1>3 DEF ServerOpens, MayRead, h
  <2>2. u.slot \in Slot /\ u.sock \in Fd \cup {NoFd} /\ u.conn \in Nat
    BY <1>1, <1>3, <2>1 DEF Post
  <2>3. i \in Nat
    <3>1. gaps \in SUBSET (DOMAIN users) /\ Len(users) \in Nat
      BY DEF PostTypes
    <3> HIDE DEF gaps
    <3> QED  BY <3>1, MaxOfUsers
  <2>4. Tell("index", i, u)
    BY <1>3 DEF ServerOpens, h
  <2> HIDE DEF i, u
  <2> QED  BY <1>2, <2>2, <2>3, <2>4
<1>4. CASE ServerCloses
  BY <1>4 DEF ServerCloses
<1>5. CASE ServerHears
  <2> DEFINE u == [sock |-> h.fd, slot |-> h.slot, conn |-> h.conn]
             R == Receivers(h)
  <2>1. h.type = "data"
    BY <1>5 DEF ServerHears, MayRead, h
  <2>2. u.slot \in Slot /\ u.sock \in Fd \cup {NoFd} /\ u.conn \in Nat
    BY <1>1, <1>5, <2>1 DEF Post
  <2>3. R # {} => Max(R) \in Nat
    <3>1. R \in SUBSET (DOMAIN users)
      BY DEF Receivers, AtIndex, HasSocket, Present
    <3> HIDE DEF R
    <3> QED  BY <3>1, MaxOfUsers
  <2>4. toGate' = toGate \/ (R # {} /\ Tell("index", Max(R), u))
    BY <1>5 DEF ServerHears, h
  <2> HIDE DEF u, R
  <2> QED  BY <1>2, <2>2, <2>3, <2>4
<1>6. CASE \E i \in Present : ServerKicks(i)
  <2>1. PICK i \in Present : ServerKicks(i)
    BY <1>6
  <2>2. users \in Seq(User) /\ i \in DOMAIN users /\ users[i] # Gone
    BY DEF PostTypes, Present
  <2>3. i \in Nat /\ users[i] \in User
    BY <2>2
  <2>4. users[i].slot \in Slot /\ users[i].sock \in Fd \cup {NoFd} /\ users[i].conn \in Nat
    BY <2>2, <2>3 DEF User
  <2>5. Tell("close", i, users[i])
    BY <2>1 DEF ServerKicks
  <2> QED  BY <1>2, <2>3, <2>4, <2>5
<1> QED  BY <1>3, <1>4, <1>5, <1>6 DEF Server

LEMMA LinkRaceInv ==
  ASSUME GateAssumption, RaceInv, PostTypes, [AnyNext]_vars
  PROVE  RaceInv'
<1>1. CASE [Next]_vars
  BY <1>1, NextRace
<1>2. CASE Server
  <2>1. UNCHANGED gateVars
    BY <1>2 DEF Server, ServerOpens, ServerCloses, ServerHears, ServerKicks
  <2>2. Types
    BY DEF RaceInv
  <2>3. toGate \in Seq(Order)
    BY <2>2 DEF Types
  <2>4. toGate' \in Seq(Order)
    BY <1>2, <2>2, <2>3, Answers
  <2>5. Types'
    BY <2>1, <2>2, <2>4 DEF Types, gateVars
  <2>6. UNCHANGED <<sessions, closing, accepting, selected, working, dropping>>
    BY <2>1 DEF gateVars
  <2>7. \A x \in Slot : Busy(x)' = Busy(x)
    BY <2>6 DEF Busy, Rests
  <2>8. BusyNotFree' /\ ClosersMark' /\ FilledWasFree' /\ VerifyHolds'
    BY <2>6, <2>7, QuietRace
  <2> QED  BY <2>5, <2>8 DEF RaceInv
<1> QED  BY <1>1, <1>2 DEF AnyNext, LinkNext, Next

-----------------------------------------------------------------------------
(* What a step may do to the fields of a session *)

\* Only NewSession gives a session a socket and a number.
LEMMA OnlyAcceptFills ==
  ASSUME GateAssumption, Types, GateNext, ~ AcceptInit
  PROVE  \A x \in Slot : /\ sessions'[x].socket \in {sessions[x].socket, NoFd}
                          /\ sessions'[x].verify \in {sessions[x].verify, 0}
<1> DEFINE Kept(x) == /\ sessions'[x].socket \in {sessions[x].socket, NoFd}
                      /\ sessions'[x].verify \in {sessions[x].verify, 0}
<1>0. sessions \in [Slot -> Session]
  BY DEF Types
<1>1. ASSUME \/ sessions' = sessions
             \/ \E s : sessions' = [sessions EXCEPT ![s].mark = TRUE]
             \/ \E s : sessions' = [sessions EXCEPT ![s].remote = TRUE]
             \/ \E s : sessions' = [sessions EXCEPT ![s].shaken = TRUE]
             \/ \E s, v : sessions' = [sessions EXCEPT ![s].status = v]
             \/ \E s, n : sessions' = [sessions EXCEPT ![s].serverIdx = n]
      PROVE  \A x \in Slot : Kept(x)
  <2> SUFFICES ASSUME NEW x \in Slot
               PROVE  sessions'[x].socket = sessions[x].socket /\ sessions'[x].verify = sessions[x].verify
    OBVIOUS
  <2>1. sessions[x] \in Session
    BY <1>0
  <2> QED  BY <1>0, <1>1, <2>1 DEF Session
<1>2. ASSUME NEW s, \/ sessions' = [sessions EXCEPT ![s].socket = NoFd, ![s].closeTick = TRUE, ![s].verify = 0]
                    \/ sessions' = [sessions EXCEPT ![s].socket = NoFd, ![s].verify = 0, ![s].mark = FALSE,
                                                    ![s].remote = FALSE, ![s].closeTick = FALSE]
                    \/ sessions' = [sessions EXCEPT ![s].mark = TRUE, ![s].remote = TRUE,
                                                    ![s].closeTick = FALSE, ![s].socket = NoFd,
                                                    ![s].verify = 0]
      PROVE  \A x \in Slot : Kept(x)
  <2> SUFFICES ASSUME NEW x \in Slot PROVE Kept(x)
    OBVIOUS
  <2>1. sessions[x] \in Session
    BY <1>0
  <2> QED  BY <1>0, <1>2, <2>1 DEF Session
<1> SUFFICES \A x \in Slot : Kept(x)
  OBVIOUS
<1> HIDE DEF Kept
<1>3. CASE \E t \in Thread : CloseStep(t)
  BY <1>1, <1>2, <1>3 DEF CloseStep, CloseMark, CloseClear, CloseIdle, CloseSocket, CloseTell
<1>4. CASE Accept
  BY <1>1, <1>4 DEF Accept, AcceptPick, AcceptHandshake, AcceptOpen, AcceptError, AcceptEof
<1>5. CASE Select
  BY <1>1, <1>5 DEF Select, SelectPick, SelectRecv, SelectNothing, SelectError
<1>6. CASE Process
  BY <1>1, <1>2, <1>6 DEF Process, ProcessTake, ProcessIgnore, ProcessBad, ProcessFirst, ProcessKey,
                          ProcessData, CheckRecycle
<1>7. CASE Dispatch
  BY <1>1, <1>7 DEF Dispatch, DispatchClose, DispatchIndex, gateVars
<1>8. CASE \E t \in {"process", "send"}, s \in Slot : CloseByItself(t, s)
  BY <1>1, <1>8 DEF CloseByItself
<1>9. CASE Link
  BY <1>1, <1>2, <1>9 DEF Link, LinkLost, DropNext, DropForce, Reconnect
<1> QED  BY <1>3, <1>4, <1>5, <1>6, <1>7, <1>8, <1>9 DEF GateNext

\* ... and only it is in the middle of filling one; a connection to the server is lost or
\* regained, and CloseAllSessions goes on, in the link thread alone.
LEMMA OnlyLink ==
  ASSUME GateNext, ~ Link
  PROVE  UNCHANGED <<connected, lost, dropping>>
BY DEF GateNext, CloseStep, CloseMark, CloseClear, CloseIdle, CloseSocket, CloseTell,
       Accept, AcceptPick, AcceptInit, AcceptHandshake, AcceptOpen, AcceptError, AcceptEof,
       Select, SelectPick, SelectRecv, SelectNothing, SelectError,
       Process, ProcessTake, ProcessIgnore, ProcessBad, ProcessFirst, ProcessKey, ProcessData, CheckRecycle,
       Dispatch, DispatchClose, DispatchIndex, CloseByItself, linkVars, gateVars

LEMMA OnlyAccept ==
  ASSUME GateNext, ~ Accept
  PROVE  accepting' = accepting /\ userVerify' = userVerify
BY DEF GateNext, CloseStep, CloseMark, CloseClear, CloseIdle, CloseSocket, CloseTell,
       Select, SelectPick, SelectRecv, SelectNothing, SelectError,
       Process, ProcessTake, ProcessIgnore, ProcessBad, ProcessFirst, ProcessKey, ProcessData, CheckRecycle,
       Dispatch, DispatchClose, DispatchIndex, CloseByItself,
       Link, LinkLost, DropNext, DropForce, Reconnect, linkVars, gateVars

\* A session is about to be filled only after NewSession has picked it.
LEMMA FillingOnlyPicked ==
  ASSUME GateAssumption, Types, GateNext, \A f \in Fd : ~ AcceptPick(f)
  PROVE  accepting' = accepting \/ accepting'.pc # "init"
<1>1. CASE ~ Accept
  BY <1>1, OnlyAccept
<1>2. CASE AcceptInit \/ AcceptHandshake
  <2>1. /\ accepting.pc # "none"
        /\ \/ accepting' = Resting
           \/ accepting' = [accepting EXCEPT !.pc = "open"]
           \/ accepting' = [accepting EXCEPT !.pc = "recv"]
    BY <1>2 DEF AcceptInit, AcceptHandshake
  <2> QED  BY <2>1 DEF Types, Acceptance, Resting
<1>3. CASE AcceptOpen \/ AcceptError \/ AcceptEof
  <2>1. accepting' = Resting
    BY <1>3 DEF AcceptOpen, AcceptError, AcceptEof
  <2> QED  BY <2>1 DEF Resting
<1>4. Accept => AcceptInit \/ AcceptHandshake \/ AcceptOpen \/ AcceptError \/ AcceptEof
  BY DEF Accept
<1> QED  BY <1>1, <1>2, <1>3, <1>4

-----------------------------------------------------------------------------
(* The loss of the link *)

\* CloseAllSessions has been at this session, or is done; or NewSession is about to fill it.
Passed(s) == /\ sessions[s].socket # NoFd
             /\ dropping = Resting \/ s < dropping.slot
Filling(s) == accepting.pc = "init" /\ accepting.slot = s

\* As long as there is no new connection there is one such session at most: NewSession asks
\* for the connection before it takes a slot.
LossInv ==
  ~ connected => /\ lost
                 /\ \E x \in Slot : \A s \in Slot : Passed(s) \/ Filling(s) => s = x

\* Only CloseAllSessions and the accept thread disturb this.
LEMMA LossKept ==
  ASSUME LossInv, ~ connected' => ~ connected, lost' = lost, dropping' = dropping,
         accepting' = accepting \/ accepting'.pc # "init",
         \A x \in Slot : sessions'[x].socket \in {sessions[x].socket, NoFd}
  PROVE  LossInv'
<1> SUFFICES ASSUME ~ connected' PROVE lost' /\ \E x \in Slot : \A s \in Slot : Passed(s)' \/ Filling(s)' => s = x
  BY DEF LossInv
<1>1. \A s \in Slot : Passed(s)' => Passed(s)
  BY DEF Passed
<1>2. \A s \in Slot : Filling(s)' => Filling(s)
  BY DEF Filling
<1> QED  BY <1>1, <1>2 DEF LossInv

LEMMA NextLoss ==
  ASSUME GateAssumption, Types, LossInv, GateNext
  PROVE  LossInv'
<1>0. sessions \in [Slot -> Session] /\ NumSlots \in Nat
  BY DEF Types, GateAssumption
<1>1. CASE \E f \in Fd : AcceptPick(f)
  BY <1>1 DEF AcceptPick, linkVars, LossInv
<1>2. CASE AcceptInit
  <2> SUFFICES ASSUME ~ connected
               PROVE  lost /\ \E x \in Slot : \A s \in Slot : Passed(s)' \/ Filling(s)' => s = x
    BY <1>2 DEF AcceptInit, linkVars, LossInv
  <2>1. connected' = connected /\ lost' = lost /\ dropping' = dropping
    BY <1>2 DEF AcceptInit, linkVars
  <2>2. \A s \in Slot : s # accepting.slot => sessions'[s] = sessions[s]
    BY <1>2 DEF AcceptInit
  <2>3. accepting.pc = "init" /\ accepting'.pc = "recv"
    BY <1>2 DEF AcceptInit, Types, Acceptance, Resting
  <2>4. \A s \in Slot : Passed(s)' => Passed(s) \/ Filling(s)
    BY <2>1, <2>2, <2>3 DEF Passed, Filling
  <2>5. \A s \in Slot : ~ Filling(s)'
    BY <2>3 DEF Filling
  <2> QED  BY <2>4, <2>5 DEF LossInv
<1>3. CASE Link
  <2>1. CASE LinkLost
    <3>1. /\ lost' /\ dropping' = [pc |-> "next", slot |-> 1] /\ accepting' = accepting
          /\ sessions' = sessions
      BY <2>1 DEF LinkLost
    <3>2. \A s \in Slot : ~ Passed(s)'
      <4> TAKE s \in Slot
      <4>1. ~ (s < 1)
        BY DEF Slot
      <4>2. dropping'.slot = 1 /\ dropping' # Resting
        BY <3>1 DEF Resting
      <4> QED  BY <4>1, <4>2 DEF Passed
    <3>3. \E x \in Slot : \A s \in Slot : Filling(s)' => s = x
      <4>1. CASE accepting.pc = "init"
        <5>1. accepting.slot \in Slot
          BY <4>1, Places
        <5> QED  BY <3>1, <5>1 DEF Filling
      <4>2. CASE accepting.pc # "init"
        <5>1. 1 \in Slot
          BY DEF GateAssumption, Slot
        <5> QED  BY <3>1, <4>2, <5>1 DEF Filling
      <4> QED  BY <4>1, <4>2
    <3> QED  BY <3>1, <3>2, <3>3 DEF LossInv
  <2>2. CASE DropNext
    <3>1. /\ connected' = connected /\ lost' = lost /\ accepting' = accepting /\ sessions' = sessions
          /\ dropping.pc = "next"
      BY <2>2 DEF DropNext, linkVars
    <3>2. dropping \in [pc : {"next"}, slot : Nat \ {0}] /\ dropping # Resting
      BY <3>1 DEF Types, Resting
    <3>3. ASSUME NEW s \in Slot, Passed(s)'
          PROVE  Passed(s)
      <4>1. sessions[s].socket # NoFd /\ s \in Nat /\ s <= NumSlots
        BY <1>0, <3>1, <3>3 DEF Passed, Slot
      <4>2. CASE dropping.slot > NumSlots
        BY <1>0, <3>2, <4>1, <4>2 DEF Passed
      <4>3. CASE ~ (dropping.slot > NumSlots) /\ sessions[dropping.slot].socket # NoFd
        <5>1. dropping' = [dropping EXCEPT !.pc = "force"]
          BY <2>2, <4>3 DEF DropNext
        <5>2. dropping'.slot = dropping.slot /\ dropping' # Resting
          BY <3>2, <5>1 DEF Resting
        <5> QED  BY <3>3, <4>1, <5>2 DEF Passed
      <4>4. CASE ~ (dropping.slot > NumSlots) /\ sessions[dropping.slot].socket = NoFd
        <5>1. dropping' = [dropping EXCEPT !.slot = @ + 1]
          BY <2>2, <4>4 DEF DropNext
        <5>2. dropping'.slot = dropping.slot + 1 /\ dropping' # Resting
          BY <3>2, <5>1 DEF Resting
        <5>3. s < dropping.slot + 1 /\ s # dropping.slot
          BY <3>3, <4>1, <4>4, <5>2 DEF Passed
        <5> QED  BY <3>2, <4>1, <5>3 DEF Passed
      <4> QED  BY <4>2, <4>3, <4>4
    <3>4. \A s \in Slot : Filling(s)' => Filling(s)
      BY <3>1 DEF Filling
    <3> QED  BY <3>1, <3>3, <3>4 DEF LossInv
  <2>3. CASE DropForce
    <3> DEFINE d == dropping.slot
    <3>1. /\ connected' = connected /\ lost' = lost /\ accepting' = accepting
          /\ sessions' = [sessions EXCEPT ![d].mark = TRUE, ![d].remote = TRUE, ![d].closeTick = FALSE,
                                          ![d].socket = NoFd, ![d].verify = 0]
          /\ dropping' = [pc |-> "next", slot |-> d + 1] /\ dropping.pc = "force"
      BY <2>3 DEF DropForce, linkVars
    <3>2. d \in Slot /\ dropping # Resting /\ d \in Nat
      BY <1>0, <3>1, BusySlots DEF Resting, Slot
    <3>3. dropping'.slot = d + 1 /\ dropping' # Resting
      BY <3>1 DEF Resting
    <3> HIDE DEF d
    <3>4. /\ sessions'[d].socket = NoFd
          /\ \A s \in Slot \ {d} : sessions'[s] = sessions[s]
      BY <1>0, <3>1, <3>2 DEF Session
    <3>5. ASSUME NEW s \in Slot, Passed(s)'
          PROVE  Passed(s)
      <4>1. s # d /\ sessions[s].socket # NoFd /\ s < d + 1 /\ s \in Nat
        BY <1>0, <3>3, <3>4, <3>5 DEF Passed, Slot
      <4>2. s < d
        BY <3>2, <4>1
      <4> QED  BY <4>1, <4>2 DEF Passed, d
    <3>6. \A s \in Slot : Filling(s)' => Filling(s)
      BY <3>1 DEF Filling
    <3> QED  BY <3>1, <3>5, <3>6 DEF LossInv
  <2>4. CASE Reconnect
    BY <2>4 DEF Reconnect, LossInv
  <2> QED  BY <1>3, <2>1, <2>2, <2>3, <2>4 DEF Link
<1>4. CASE ~ AcceptInit /\ ~ Link /\ \A f \in Fd : ~ AcceptPick(f)
  BY <1>4, OnlyAcceptFills, OnlyLink, FillingOnlyPicked, LossKept
<1> QED  BY <1>1, <1>2, <1>3, <1>4

LEMMA LossSpares ==
  ASSUME LossInv
  PROVE  LossSparesOne
<1> SUFFICES ASSUME ~ connected, dropping = Resting
             PROVE  Cardinality(HasSession) <= 1
  BY DEF LossSparesOne, HasSession
<1>1. PICK x \in Slot : \A s \in Slot : Passed(s) \/ Filling(s) => s = x
  BY DEF LossInv
<1>2. HasSession = {} \/ HasSession = {x}
  BY <1>1 DEF HasSession, Passed
<1> QED  BY <1>2, FS_EmptySet, FS_Singleton

-----------------------------------------------------------------------------
(* The numbers *)

Numbers ==
  /\ userVerify \in 0 .. MaxConns
  /\ accepting.pc = "init" => userVerify < MaxConns
  /\ peer \in [Fd -> 0 .. MaxConns]
  /\ \A s \in Slot : sessions[s].verify \in 0 .. MaxConns
  /\ activeUser \in Int

LEMMA NumbersKept ==
  ASSUME GateAssumption, Numbers, userVerify' = userVerify,
         accepting' = accepting \/ accepting'.pc # "init",
         peer' = peer \/ \E f : peer' = [peer EXCEPT ![f] = 0],
         \A s \in Slot : sessions'[s].verify \in {sessions[s].verify, 0},
         activeUser' \in {activeUser, activeUser - 1}
  PROVE  Numbers'
<1>1. userVerify \in 0 .. MaxConns /\ peer \in [Fd -> 0 .. MaxConns] /\ MaxConns \in Nat
  BY DEF Numbers, GateAssumption
<1>2. 0 \in 0 .. MaxConns
  BY <1>1
<1>3. peer' \in [Fd -> 0 .. MaxConns]
  BY <1>1, <1>2
<1>4. \A s \in Slot : sessions'[s].verify \in 0 .. MaxConns
  BY <1>2 DEF Numbers
<1> QED  BY <1>1, <1>3, <1>4 DEF Numbers

\* No more clients connect than the bound says.
LEMMA NextNumbers ==
  ASSUME GateAssumption, Types, Numbers, GateNext
  PROVE  Numbers'
<1>1. CASE AcceptInit
  <2>1. /\ userVerify' = userVerify + 1 /\ peer' = peer /\ accepting.pc = "init"
        /\ accepting'.pc = "recv" /\ activeUser' = activeUser + 1
        /\ \A s \in Slot : \/ sessions'[s] = sessions[s]
                            \/ sessions'[s].verify = userVerify + 1
    BY <1>1 DEF AcceptInit, Types, Acceptance, Resting, FreeSession
  <2>2. userVerify + 1 \in 0 .. MaxConns
    BY <2>1 DEF Numbers, GateAssumption
  <2> QED  BY <2>1, <2>2 DEF Numbers
<1>2. CASE \E f \in Fd : AcceptPick(f)
  <2>1. PICK f \in Fd : AcceptPick(f)
    BY <1>2
  <2>2. /\ userVerify' = userVerify /\ userVerify < MaxConns /\ activeUser' = activeUser
        /\ peer' = [peer EXCEPT ![f] = userVerify + 1]
    BY <2>1 DEF AcceptPick
  <2>3. ~ AcceptInit
    BY <2>1 DEF AcceptPick, AcceptInit, Resting
  <2>4. \A s \in Slot : sessions'[s].verify \in {sessions[s].verify, 0}
    BY <2>3, OnlyAcceptFills
  <2>5. userVerify \in 0 .. MaxConns /\ peer \in [Fd -> 0 .. MaxConns] /\ MaxConns \in Nat
    BY DEF Numbers, GateAssumption
  <2>6. userVerify + 1 \in 0 .. MaxConns /\ 0 \in 0 .. MaxConns
    BY <2>2, <2>5
  <2>7. peer' \in [Fd -> 0 .. MaxConns]
    BY <2>2, <2>5, <2>6
  <2>8. \A s \in Slot : sessions'[s].verify \in 0 .. MaxConns
    BY <2>4, <2>6 DEF Numbers
  <2> QED  BY <2>2, <2>7, <2>8 DEF Numbers
<1>3. CASE ~ AcceptInit /\ \A f \in Fd : ~ AcceptPick(f)
  <2>1. \A s \in Slot : sessions'[s].verify \in {sessions[s].verify, 0}
    BY <1>3, OnlyAcceptFills
  <2>2. accepting' = accepting \/ accepting'.pc # "init"
    BY <1>3, FillingOnlyPicked
  <2>3. /\ userVerify' = userVerify
        /\ activeUser' \in {activeUser, activeUser - 1}
        /\ peer' = peer \/ \E f : peer' = [peer EXCEPT ![f] = 0]
    <3>1. CASE \E t \in Thread : CloseStep(t)
      BY <3>1 DEF CloseStep, CloseMark, CloseClear, CloseIdle, CloseSocket, CloseTell
    <3>2. CASE Accept
      BY <1>3, <3>2 DEF Accept, AcceptHandshake, AcceptOpen, AcceptError, AcceptEof
    <3>3. CASE Select
      BY <3>3 DEF Select, SelectPick, SelectRecv, SelectNothing, SelectError
    <3>4. CASE Process
      BY <3>4 DEF Process, ProcessTake, ProcessIgnore, ProcessBad, ProcessFirst, ProcessKey, ProcessData,
                  CheckRecycle
    <3>5. CASE Dispatch
      BY <3>5 DEF Dispatch, DispatchClose, DispatchIndex, gateVars
    <3>6. CASE \E t \in {"process", "send"}, s \in Slot : CloseByItself(t, s)
      BY <3>6 DEF CloseByItself
    <3>7. CASE Link
      BY <3>7 DEF Link, LinkLost, DropNext, DropForce, Reconnect
    <3> QED  BY <3>1, <3>2, <3>3, <3>4, <3>5, <3>6, <3>7 DEF GateNext
  <2> QED  BY <2>1, <2>2, <2>3, NumbersKept
<1> QED  BY <1>1, <1>2, <1>3

-----------------------------------------------------------------------------
(* The theorems *)

\* The invariant: a slot some thread works with has its socket, or the mark of the thread
\* that took the socket away, which stays until that thread is done; the slot that is to
\* be filled has neither; and after the loss of the link one session is ahead of
\* CloseAllSessions at most.
IInv == RaceInv /\ PostTypes /\ Numbers /\ LossInv

LEMMA InitIInv ==
  ASSUME Init
  PROVE  IInv
<1>1. RaceInv
  BY GateAssumption, InitRace
<1>2. PostTypes /\ LossInv
  BY DEF Init, PostTypes, LossInv
<1>3. Numbers
  <2>1. MaxConns \in Nat /\ 0 \in 0 .. MaxConns
    BY GateAssumption DEF GateAssumption
  <2> QED  BY <2>1 DEF Init, Numbers, Resting, FreeSession
<1> QED  BY <1>1, <1>2, <1>3 DEF IInv

LEMMA NextIInv ==
  ASSUME IInv, [AnyNext]_vars
  PROVE  IInv'
<1>1. Types /\ RaceInv /\ PostTypes /\ Numbers /\ LossInv
  BY DEF IInv, RaceInv
<1>2. RaceInv' /\ PostTypes'
  BY <1>1, GateAssumption, LinkRaceInv, PostsTyped
<1>3. CASE GateNext
  BY <1>1, <1>2, <1>3, GateAssumption, NextLoss, NextNumbers DEF IInv
<1>4. CASE ~ GateNext
  <2>1. UNCHANGED <<connected, lost, dropping, accepting, sessions, userVerify, peer, activeUser>>
    BY <1>4 DEF AnyNext, Next, LinkNext, ServerReads, ServerSends, Server, ServerOpens, ServerCloses,
                ServerHears, ServerKicks, vars, gateVars
  <2>2. LossInv'
    BY <1>1, <2>1, LossKept
  <2>3. Numbers'
    BY <1>1, <2>1 DEF Numbers
  <2> QED  BY <1>2, <2>2, <2>3 DEF IInv
<1> QED  BY <1>3, <1>4

THEOREM GateInvariant == Spec \/ LinkSpec => []IInv
<1>1. IInv /\ [Next]_vars => IInv'
  BY NextIInv DEF AnyNext
<1>2. IInv /\ [LinkNext]_vars => IInv'
  BY NextIInv DEF AnyNext
<1> QED  BY <1>1, <1>2, InitIInv, PTL DEF Spec, LinkSpec

\* The tables keep their types whatever the threads and the server do; the count of users
\* is an integer and no more, for it may fall below zero (DataProcess.cpp:757).
THEOREM GateTyped == Spec \/ LinkSpec => []TypeOK
<1>1. IInv => TypeOK
  <2> SUFFICES ASSUME IInv PROVE TypeOK
    OBVIOUS
  <2>0. Types /\ Numbers
    BY DEF IInv, RaceInv
  <2>1. sessions \in [Slot -> [socket : Fd \cup {NoFd}, mark : BOOLEAN, remote : BOOLEAN,
                               closeTick : BOOLEAN, status : {"idle", "conn", "commu"},
                               verify : 0 .. MaxConns, shaken : BOOLEAN, serverIdx : Nat]]
    <3>1. \A s \in Slot : sessions[s] \in Session /\ sessions[s].verify \in 0 .. MaxConns
      BY <2>0 DEF Types, Numbers
    <3> QED  BY <2>0, <3>1 DEF Types, Session
  <2>3. accepting.pc \in {"none", "init", "recv", "open"} /\ working.pc \in {"none", "packet", "key"}
    BY <2>0 DEF Types, Acceptance, Work, Resting
  <2>4. dropping.pc \in {"none", "next", "force"}
    BY <2>0 DEF Types, Resting
  <2>5. \A t \in Thread : closing[t].pc \in {"none", "guarded", "marked", "cleared", "idle", "closed"}
    BY <2>0 DEF Types, Closing, Resting
  <2>6. \A i \in DOMAIN recvQueue : recvQueue[i].slot \in Slot
    BY <2>0, GateAssumption, Places
  <2> QED  BY <2>0, <2>1, <2>3, <2>4, <2>5, <2>6 DEF TypeOK, Types, Numbers
<1> QED  BY <1>1, GateInvariant, PTL

\* No thread works with a session before the accept thread has filled it, as the comment
\* at the assignment of nSocket (DataProcess.cpp:2023) has it.
THEOREM NothingBeforeInit == Spec \/ LinkSpec => []NotBeforeInit
<1>1. IInv => NotBeforeInit
  <2> SUFFICES ASSUME RaceInv, accepting.pc = "init"
               PROVE  /\ accepting.slot \notin selected
                      /\ working.pc # "none" => working.slot # accepting.slot
                      /\ \A t \in Thread : ~ Rests(t) => closing[t].slot # accepting.slot
    BY DEF IInv, NotBeforeInit
  <2> QED  BY GateAssumption, NotBusyBeforeInit DEF Busy
<1> QED  BY <1>1, GateInvariant, PTL

\* What the process thread works on was received under the session's present number, or
\* the session has been closed meanwhile (DataProcess.cpp:105).
THEOREM BuffersOfThisSession == Spec \/ LinkSpec => []VerifyHolds
<1>1. IInv => VerifyHolds
  BY DEF IInv, RaceInv
<1> QED  BY <1>1, GateInvariant, PTL

\* However many threads close sessions, and whatever the server does: when CloseAllSessions
\* (DataProcess.cpp:754) is done and there is no new connection yet, one session is left at
\* most.
THEOREM LossSparesOneSession == Spec \/ LinkSpec => []LossSparesOne
<1>1. IInv => LossSparesOne
  BY LossSpares DEF IInv
<1> QED  BY <1>1, GateInvariant, PTL
=============================================================================
