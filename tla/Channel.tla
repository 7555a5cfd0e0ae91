------------------------------- MODULE Channel -------------------------------
(***************************************************************************)
(* What two servers promise each other about the messages between them,    *)
(* over the connections that one of them makes, one after another: what is *)
(* submitted waits for a connection, in its order; what is sent over one   *)
(* is handled in its order, each message at most once; and none is lost    *)
(* but at the end of what was sent over a connection that broke.  Nothing  *)
(* is promised of messages that went over two connections.                 *)
(***************************************************************************)
EXTENDS Naturals, Sequences

CONSTANT MaxConns  \* bound: how many connections are made

VARIABLES
  made,       \* how many connections were made; messages are sent over the last one
  broken,     \* those of them that are broken
  submitted,  \* how many messages were submitted; they are numbered in this order
  queue,      \* those that were not sent yet
  stream,     \* connection -> messages that are on their way
  got         \* handled by the receiver

vars == <<made, broken, submitted, queue, stream, got>>

-----------------------------------------------------------------------------
Init ==
  /\ made = 0 /\ broken = {}
  /\ submitted = 0 /\ queue = << >>
  /\ stream = [c \in 1 .. MaxConns |-> << >>]
  /\ got = << >>

Submit ==
  /\ submitted' = submitted + 1
  /\ queue' = Append(queue, submitted + 1)
  /\ UNCHANGED <<made, broken, stream, got>>

\* A connection is made when there is none, or when the last one is broken.
Connect ==
  /\ made < MaxConns
  /\ made > 0 => made \in broken
  /\ made' = made + 1
  /\ UNCHANGED <<broken, submitted, queue, stream, got>>

\* The first message that waits is sent, for nothing when the connection is broken.
Send ==
  /\ made > 0 /\ queue # << >>
  /\ queue' = Tail(queue)
  /\ stream' = IF made \in broken THEN stream ELSE [stream EXCEPT ![made] = Append(@, Head(queue))]
  /\ UNCHANGED <<made, broken, submitted, got>>

\* The first n messages of a connection are handled.
Deliver(c, n) ==
  /\ got' = got \o SubSeq(stream[c], 1, n)
  /\ stream' = [stream EXCEPT ![c] = SubSeq(@, n + 1, Len(@))]
  /\ UNCHANGED <<made, broken, submitted, queue>>

\* A connection breaks, or is found broken: only the first n messages arrive.
Break(c, n) ==
  /\ broken' = broken \cup {c}
  /\ stream' = [stream EXCEPT ![c] = SubSeq(@, 1, n)]
  /\ UNCHANGED <<made, submitted, queue, got>>

Next ==
  \/ Submit \/ Connect \/ Send
  \/ \E c \in 1 .. made : \E n \in 0 .. Len(stream[c]) : Deliver(c, n) \/ Break(c, n)

Spec == Init /\ [][Next]_vars
=============================================================================
