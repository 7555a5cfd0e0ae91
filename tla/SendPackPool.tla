---------------------------- MODULE SendPackPool ----------------------------
(***************************************************************************)
(* CSendPacketPool of sdk/srvlib: the packets a socket has to send.        *)
(*                                                                         *)
(* A packet goes round: a writer takes it from the free list, fills it and *)
(* submits it to the list of appended packets; the thread that owns the    *)
(* socket flushes that list into its own, sends the packets one by one,    *)
(* and gives them all back when the last of them is sent.  Writers are     *)
(* threads of other parts of the server.  Messages are numbered in the     *)
(* order in which they are submitted.                                      *)
(***************************************************************************)
EXTENDS Integers, Sequences, Functions

CONSTANTS
  NumPackets,  \* bound: the block allocSendPacketList gets; it is never used up
  Writer,      \* threads that submit packets
  Ex,          \* sendToSocketEx of the gates: flush only into an empty list
  MaxMsgs      \* bound: how many messages are submitted

ASSUME PoolAssumption == NumPackets \in Nat /\ MaxMsgs \in Nat /\ Ex \in BOOLEAN

VARIABLES
  free,       \* m_FreeSendPackList, taken from at the end
  appended,   \* the append list of m_SendingPacketList
  sending,    \* m_SendingPacketList
  sent,       \* m_nSendingPacketIdx
  holds,      \* the message in a packet, 0 when its length is 0
  taken,      \* the packet a writer is filling
  submitted,  \* how many messages were submitted
  cleared,    \* how many of them when the list was last cleared
  out,        \* the messages the socket took
  busy        \* is the thread of the socket in sendToSocket?

poolVars == <<free, appended, sending, sent, holds, taken, submitted, cleared, out, busy>>

-----------------------------------------------------------------------------
Packet == 1 .. NumPackets
NoPacket == 0

PoolInit ==
  /\ free = [i \in Packet |-> i]
  /\ appended = << >>
  /\ sending = << >>
  /\ sent = 0
  /\ holds = [p \in Packet |-> 0]
  /\ taken = [w \in Writer |-> NoPacket]
  /\ submitted = 0
  /\ cleared = 0
  /\ out = << >>
  /\ busy = FALSE

-----------------------------------------------------------------------------
(* The writers *)

\* allocSendPacket: the last free packet, emptied.
Alloc(w) ==
  LET p == free[Len(free)]
  IN  /\ taken[w] = NoPacket
      /\ free # << >>
      /\ free' = SubSeq(free, 1, Len(free) - 1)
      /\ taken' = [taken EXCEPT ![w] = p]
      /\ holds' = [holds EXCEPT ![p] = 0]
      /\ UNCHANGED <<appended, sending, sent, submitted, cleared, out, busy>>

\* The writer fills its packet, and flushSendPacket appends it.
SubmitPacket(w) ==
  /\ taken[w] # NoPacket
  /\ submitted < MaxMsgs
  /\ submitted' = submitted + 1
  /\ holds' = [holds EXCEPT ![taken[w]] = submitted + 1]
  /\ appended' = Append(appended, taken[w])
  /\ taken' = [taken EXCEPT ![w] = NoPacket]
  /\ UNCHANGED <<free, sending, sent, cleared, out, busy>>

\* flushSendPacket of a packet without contents.
GiveBack(w) ==
  /\ taken[w] # NoPacket
  /\ free' = Append(free, taken[w])
  /\ taken' = [taken EXCEPT ![w] = NoPacket]
  /\ UNCHANGED <<appended, sending, sent, holds, submitted, cleared, out, busy>>

-----------------------------------------------------------------------------
(* sendToSocket *)

\* Mutant: what was appended comes before what is still to be sent.
FlushFirst ==
  /\ ~ busy
  /\ busy' = TRUE
  /\ sending' = appended \o sending
  /\ appended' = << >>
  /\ UNCHANGED <<free, sent, holds, taken, submitted, cleared, out>>

Flush ==
  /\ ~ busy
  /\ busy' = TRUE
  /\ IF Ex /\ sending # << >> THEN UNCHANGED <<sending, appended>>
     ELSE sending' = sending \o appended /\ appended' = << >>
  /\ UNCHANGED <<free, sent, holds, taken, submitted, cleared, out>>

IsSending == busy /\ sent < Len(sending)
Turn == sending[sent + 1]

\* The socket takes all of a packet, which is emptied; an empty one is passed over.
PacketDone ==
  /\ IsSending
  /\ sent' = sent + 1
  /\ out' = IF holds[Turn] = 0 THEN out ELSE Append(out, holds[Turn])
  /\ holds' = [holds EXCEPT ![Turn] = 0]
  /\ UNCHANGED <<free, appended, sending, taken, submitted, cleared, busy>>

\* The socket took nothing: the packet keeps its place.
GiveUp ==
  /\ IsSending
  /\ busy' = FALSE
  /\ UNCHANGED <<free, appended, sending, sent, holds, taken, submitted, cleared, out>>

\* Mutants: the packets stay in the list; the index stays where it is.
ReclaimKept ==
  /\ busy /\ sent >= Len(sending)
  /\ busy' = FALSE
  /\ sent' = 0
  /\ free' = free \o sending
  /\ UNCHANGED <<appended, sending, holds, taken, submitted, cleared, out>>

ReclaimIndexKept ==
  /\ busy /\ sent >= Len(sending)
  /\ busy' = FALSE
  /\ free' = free \o sending
  /\ sending' = << >>
  /\ UNCHANGED <<appended, sent, holds, taken, submitted, cleared, out>>

\* All is sent: every packet of the list is free again.
Reclaim ==
  /\ busy /\ sent >= Len(sending)
  /\ busy' = FALSE
  /\ sent' = 0
  /\ free' = free \o sending
  /\ sending' = << >>
  /\ UNCHANGED <<appended, holds, taken, submitted, cleared, out>>

\* clearSendList, for sockets that do not keep what is unsent: the packets are
\* emptied and free, and still in the list.
Clear ==
  /\ ~ busy
  /\ cleared' = submitted
  /\ sending' = sending \o appended
  /\ appended' = << >>
  /\ sent' = 0
  /\ free' = free \o sending'
  /\ holds' = [p \in Packet |-> IF p \in Range(sending') THEN 0 ELSE holds[p]]
  /\ UNCHANGED <<taken, submitted, out, busy>>

Write(w) == Alloc(w) \/ SubmitPacket(w) \/ GiveBack(w)

PoolNext ==
  \/ \E w \in Writer : Write(w)
  \/ Flush \/ PacketDone \/ GiveUp \/ Reclaim

\* The pool of a socket that keeps what is unsent, and of one that does not.
PoolSpec == PoolInit /\ [][PoolNext]_poolVars
ClearingSpec == PoolInit /\ [][PoolNext \/ Clear]_poolVars

-----------------------------------------------------------------------------
(* Correctness *)

PoolTypeOK ==
  /\ free \in Seq(Packet) /\ appended \in Seq(Packet) /\ sending \in Seq(Packet)
  /\ sent \in 0 .. Len(sending)
  /\ holds \in [Packet -> 0 .. MaxMsgs]
  /\ taken \in [Writer -> Packet \cup {NoPacket}]
  /\ submitted \in 0 .. MaxMsgs
  /\ cleared \in 0 .. submitted
  /\ busy \in BOOLEAN

\* A packet is in one list only and there only once, or with one writer: nobody
\* writes into a packet that is free, to be sent, or somebody else's
\* (SendPackPool.cpp:183-188, 297-305).
OneHome ==
  /\ IsInjective(free) /\ IsInjective(appended) /\ IsInjective(sending)
  /\ Range(free) \cap Range(appended) = {}
  /\ Range(free) \cap Range(sending) = {}
  /\ Range(appended) \cap Range(sending) = {}
  /\ \A w \in Writer : taken[w] \notin Range(free) \cup Range(appended) \cup Range(sending)
  /\ \A v, w \in Writer : taken[v] = taken[w] => v = w \/ taken[v] = NoPacket

\* The packets that wait, and the messages in them.
Waiting == SubSeq(sending, sent + 1, Len(sending)) \o appended
Pending == [i \in DOMAIN Waiting |-> holds[Waiting[i]]]

\* Packets are sent in the order in which they are submitted (SendPackPool.h:7), each
\* once, and none is left out, but for those that were there when the list was cleared.
SentAsSubmitted ==
  /\ \A i, j \in DOMAIN out : i < j => out[i] < out[j]
  /\ Waiting = << >> => cleared + 1 .. submitted \subseteq Range(out)
=============================================================================
