----------------------------- MODULE ServerLink -----------------------------
(***************************************************************************)
(* One server as a client of another: CCustomClientSocket and              *)
(* CCustomJXClientSocket send, CCustomJXServerClientSocket receives.       *)
(*                                                                         *)
(* The client has one thread that connects, and sends what other threads   *)
(* put into its pool (SendPackPool).  What is unsent when the connection   *)
(* breaks stays there for the next one.  The server makes an object for    *)
(* every connection it accepts, and puts the messages together again from  *)
(* what arrives, which may be cut anywhere.                                *)
(*                                                                         *)
(* A message is MsgLen units long; a unit is <<message, position>>.  The   *)
(* registration is one unit, which the client sends past the pool.         *)
(***************************************************************************)
EXTENDS SendPackPool

CONSTANTS
  MsgLen,    \* how long a message is
  MaxConns   \* bound: how many connections are made

ASSUME LinkAssumption ==
  /\ MsgLen \in Nat \ {0}
  /\ MaxConns \in Nat

VARIABLES
  up,        \* the connection of the client, 0 when it has none
  made,      \* how many connections were made
  alive,     \* the connections that are not broken
  wire,      \* connection -> units on their way
  open,      \* the connections the server has an object for
  known,     \* those of them with m_boRegisted
  proc,      \* connection -> units received and not handled
  got        \* what was handled, as the units taken for a message

linkVars == <<up, made, alive, wire, open, known, proc, got>>
vars == <<poolVars, linkVars>>

-----------------------------------------------------------------------------
Conn == 1 .. MaxConns
Registration == <<0, 1>>
Units(m) == IF m = 0 THEN << >> ELSE [i \in 1 .. MsgLen |-> <<m, i>>]

Init ==
  /\ PoolInit
  /\ up = 0 /\ made = 0
  /\ alive = {} /\ open = {} /\ known = {}
  /\ wire = [c \in Conn |-> << >>]
  /\ proc = [c \in Conn |-> << >>]
  /\ got = << >>

-----------------------------------------------------------------------------
(* The client *)

\* ConnectToServer and SendRegisteClient.  The five seconds run from the last attempt to
\* connect, so after a connection that lived longer the next one is made at once,
\* whatever the server still has of the last.
Connect ==
  /\ up = 0 /\ ~ busy
  /\ made < MaxConns
  /\ made' = made + 1
  /\ up' = made + 1
  /\ alive' = alive \cup {made + 1}
  /\ open' = open \cup {made + 1}
  /\ wire' = [wire EXCEPT ![made + 1] = <<Registration>>]
  /\ UNCHANGED <<poolVars, known, proc, got>>

\* recv returns 0: close, and m_SendingPacketList is left as it is.
ClientNotices ==
  /\ up # 0 /\ up \notin alive /\ ~ busy
  /\ up' = 0
  /\ UNCHANGED <<poolVars, made, alive, wire, open, known, proc, got>>

\* The kernel takes a packet, also for a connection that is broken already.
SendPacket ==
  /\ up # 0
  /\ PacketDone
  /\ wire' = IF up \in alive THEN [wire EXCEPT ![up] = @ \o Units(holds[Turn])] ELSE wire
  /\ UNCHANGED <<up, made, alive, open, known, proc, got>>

\* send fails in the middle of a packet: it returns -1 however much was sent, and the
\* offset of the packet is not moved.
SendFails(k) ==
  /\ up # 0
  /\ GiveUp
  /\ alive' = alive \ {up}
  /\ wire' = IF up \in alive THEN [wire EXCEPT ![up] = @ \o SubSeq(Units(holds[Turn]), 1, k)] ELSE wire
  /\ UNCHANGED <<up, made, open, known, proc, got>>

\* The connection breaks; of what was on its way only the first k units arrive.
Break(c, k) ==
  /\ c \in alive
  /\ alive' = alive \ {c}
  /\ wire' = [wire EXCEPT ![c] = SubSeq(@, 1, k)]
  /\ UNCHANGED <<poolVars, up, made, open, known, proc, got>>

ClientStep ==
  \/ (\E w \in Writer : Write(w)) /\ UNCHANGED linkVars
  \/ up # 0 /\ Flush /\ UNCHANGED linkVars
  \/ Reclaim /\ UNCHANGED linkVars
  \/ Connect \/ ClientNotices \/ SendPacket
  \/ \E k \in 0 .. MsgLen - 1 : SendFails(k)

-----------------------------------------------------------------------------
(* The server *)

\* The messages that are complete in a buffer, and what is left after them: the loop
\* of ProcessRecvBuffers stops at a header or a packet that is not all there.
Complete(buf) == Len(buf) \div MsgLen
Segments(buf) ==
  [i \in 1 .. Complete(buf) |-> SubSeq(buf, (i - 1) * MsgLen + 1, i * MsgLen)]
Rest(buf) == SubSeq(buf, Complete(buf) * MsgLen + 1, Len(buf))

\* The numbers of messages that are given by their units.
Numbers(msgs) == [i \in DOMAIN msgs |-> msgs[i][1][1]]

\* The registration comes first.
Unregistered(c) == c \notin known /\ proc[c] # << >>
Body(c) == IF Unregistered(c) THEN Tail(proc[c]) ELSE proc[c]

\* Mutant: what is left is not moved to the head of what arrived.
RunDropsRest(c, k) ==
  /\ c \in open
  /\ k > 0 \/ Unregistered(c) \/ Complete(Body(c)) > 0
  /\ known' = IF Unregistered(c) THEN known \cup {c} ELSE known
  /\ got' = got \o Segments(Body(c))
  /\ proc' = [proc EXCEPT ![c] = IF k = 0 THEN Rest(Body(c)) ELSE SubSeq(wire[c], 1, k)]
  /\ wire' = [wire EXCEPT ![c] = SubSeq(@, k + 1, Len(@))]
  /\ UNCHANGED <<poolVars, up, made, alive, open>>

\* Mutant: what was read is handled only when more arrives.
RunOnArrival(c, k) ==
  /\ c \in open
  /\ k > 0
  /\ known' = IF Unregistered(c) THEN known \cup {c} ELSE known
  /\ got' = got \o Segments(Body(c))
  /\ proc' = [proc EXCEPT ![c] = Rest(Body(c)) \o SubSeq(wire[c], 1, k)]
  /\ wire' = [wire EXCEPT ![c] = SubSeq(@, k + 1, Len(@))]
  /\ UNCHANGED <<poolVars, up, made, alive, open>>

\* SingleRun: k units are read into one buffer while the other one is handled, and
\* SwapRecvProcessBuffers puts what is left and what was read together.
Run(c, k) ==
  /\ c \in open
  /\ k > 0 \/ Unregistered(c) \/ Complete(Body(c)) > 0
  /\ known' = IF Unregistered(c) THEN known \cup {c} ELSE known
  /\ got' = got \o Segments(Body(c))
  /\ proc' = [proc EXCEPT ![c] = Rest(Body(c)) \o SubSeq(wire[c], 1, k)]
  /\ wire' = [wire EXCEPT ![c] = SubSeq(@, k + 1, Len(@))]
  /\ UNCHANGED <<poolVars, up, made, alive, open>>

\* SingleRun, when recv comes to the end of the connection: what was read and what
\* was left is dropped before it is handled, and the object is destroyed.
RunToEnd(c) ==
  /\ c \in open \ alive
  /\ proc' = [proc EXCEPT ![c] = << >>]
  /\ wire' = [wire EXCEPT ![c] = << >>]
  /\ open' = open \ {c}
  /\ known' = known \ {c}
  /\ UNCHANGED <<poolVars, up, made, alive, got>>

ServerStep == \E c \in Conn : RunToEnd(c) \/ \E k \in 0 .. Len(wire[c]) : Run(c, k)

Next ==
  \/ ClientStep
  \/ ServerStep
  \/ \E c \in Conn : \E k \in 0 .. Len(wire[c]) : Break(c, k)

Spec == Init /\ [][Next]_vars

\* Both threads go on, and the client's reads before every sendToSocket (hence SF);
\* writers submit what they like, and connections break as they like.
FairSpec ==
  /\ Spec
  /\ WF_vars(up # 0 /\ Flush /\ UNCHANGED linkVars)
  /\ WF_vars(SendPacket \/ \E k \in 0 .. MsgLen - 1 : SendFails(k))
  /\ WF_vars(Reclaim /\ UNCHANGED linkVars)
  /\ WF_vars(Connect)
  /\ SF_vars(ClientNotices)
  /\ \A c \in Conn : WF_vars(RunToEnd(c)) /\ WF_vars(\E k \in 0 .. Len(wire[c]) : Run(c, k))

-----------------------------------------------------------------------------
(* Correctness *)

TypeOK ==
  /\ PoolTypeOK
  /\ up \in 0 .. made /\ made \in 0 .. MaxConns
  /\ alive \subseteq 1 .. made /\ open \subseteq 1 .. made /\ known \subseteq open
  /\ up # 0 => up = made
  /\ \A c \in Conn \ open : proc[c] = << >> /\ wire[c] = << >>

\* What is handled as a message is one, from its first to its last unit, wherever
\* connections broke: no message is put together from parts of two.
OnlyWhole == \A i \in DOMAIN got : got[i] = Units(got[i][1][1])

\* The messages of a connection that have all their units at the server or on the way.
Stream(c) == IF c \in known THEN proc[c] \o wire[c] ELSE Tail(proc[c] \o wire[c])
Ahead(c) == IF c \in open /\ proc[c] \o wire[c] # << >> THEN Numbers(Segments(Stream(c))) ELSE << >>

Link == INSTANCE Channel WITH
  broken <- 1 .. made \ alive, queue <- Pending, stream <- [c \in Conn |-> Ahead(c)],
  got <- Numbers(got)

\* The link keeps the promise of Channel, although packets are used again, a packet
\* that was cut is sent once more on the next connection, and messages are put together
\* from pieces: over a connection they come in order, at most once, and none is lost but
\* by a break (SendPackPool.cpp:259-307, CustomWorkSocket.cpp:119-197).
ImplementsChannel == Link!Spec

\* Messages are handled in the order in which they are submitted, over whatever
\* connections they went (SendPackPool.h:7, CustomWorkSocket.h:12-14).
HandledInOrder == \A i, j \in DOMAIN got : i < j => Numbers(got)[i] < Numbers(got)[j]

\* What was unsent when a connection broke goes over the next one
\* (CustomWorkSocket.h:12-14): in the end nothing waits, unless the last connection that
\* the bound allows is broken too.
Drains ==
  <>[] \/ Pending = << >> /\ \A c \in Conn : Ahead(c) = << >>
       \/ made = MaxConns /\ MaxConns \notin alive
=============================================================================
