-------------------------- MODULE ServerLinkProofs --------------------------
(***************************************************************************)
(* A connection uses its pool as SendPackPool says: what is proved of the  *)
(* pool holds of the link, whatever becomes of the connections.  What is   *)
(* cut on its way is put together again or dropped: only whole messages    *)
(* are handled.  And the link is a channel: over each connection messages  *)
(* come in order, each at most once, and nothing is lost but by a break.   *)
(***************************************************************************)
EXTENDS ServerLink, SendPackPoolProofs

\* Every step of the link is a step of the pool, or does not touch it.
LEMMA LinkStepsPool == [Next]_vars => [PoolNext]_poolVars
<1> SUFFICES ASSUME [Next]_vars PROVE [PoolNext]_poolVars
  OBVIOUS
<1>1. CASE ClientStep
  BY <1>1 DEF ClientStep, Connect, ClientNotices, SendPacket, SendFails, PoolNext
<1>2. CASE ServerStep
  BY <1>2 DEF ServerStep, RunToEnd, Run
<1>3. ASSUME NEW c \in Conn, NEW k \in 0 .. Len(wire[c]), Break(c, k) PROVE UNCHANGED poolVars
  BY <1>3 DEF Break
<1>4. CASE UNCHANGED vars
  BY <1>4 DEF vars
<1> QED  BY <1>1, <1>2, <1>3, <1>4 DEF Next

\* The link is an implementation of the pool that keeps what is unsent
\* (CustomWorkSocket.cpp:90-96, CustomClientSocket.cpp:53-80).
THEOREM LinkUsesPool == Spec => PoolSpec
<1>1. Init => PoolInit
  BY DEF Init
<1> QED  BY <1>1, LinkStepsPool, PTL DEF Spec, PoolSpec

\* No packet of a link is in two places, wherever its connections break
\* (SendPackPool.cpp:133-229, 259-307).
THEOREM LinkPacketsHaveOneHome == Spec => []OneHome
<1> QED  BY LinkUsesPool, EveryPacketHasOneHome, PTL

\* The packets of a link are sent in the order in which they are submitted, each once,
\* and none is left out, wherever its connections break (SendPackPool.h:7,
\* CustomWorkSocket.h:12-14).
THEOREM LinkSendsInOrder == Spec => []SentAsSubmitted
<1> QED  BY LinkUsesPool, SentInOrder, PTL

-----------------------------------------------------------------------------
(* The two ends of the connections *)

\* A connection that is not broken has its object at the server, so nothing is sent to
\* one that is gone; and the client leaves a connection only when it is broken.
LinkInv ==
  /\ up \in 0 .. made /\ made \in 0 .. MaxConns
  /\ alive \subseteq open /\ open \subseteq 1 .. made /\ known \subseteq open
  /\ up # 0 => up = made
  /\ made \in alive => up = made
  /\ wire = [c \in Conn |-> wire[c]] /\ proc = [c \in Conn |-> proc[c]]
  /\ \A c \in Conn \ open : proc[c] = << >> /\ wire[c] = << >>

LEMMA InitLinkInv == Init => LinkInv
<1> SUFFICES ASSUME Init PROVE LinkInv
  OBVIOUS
<1> QED  BY LinkAssumption DEF Init, LinkInv, Conn

LEMMA NextLinkInv == LinkInv /\ [Next]_vars => LinkInv'
<1> SUFFICES ASSUME LinkInv, [Next]_vars PROVE LinkInv'
  OBVIOUS
<1> USE LinkAssumption
<1>0. made \in Nat /\ Conn = 1 .. MaxConns /\ open \subseteq Conn /\ (up # 0 => up \in Conn)
  BY DEF LinkInv, Conn
<1>1. CASE Connect
  <2>1. /\ made + 1 \in Conn
        /\ made' = made + 1 /\ up' = made + 1 /\ known' = known /\ proc' = proc
        /\ alive' = alive \cup {made + 1} /\ open' = open \cup {made + 1}
        /\ wire' = [wire EXCEPT ![made + 1] = <<Registration>>]
    BY <1>0, <1>1 DEF Connect
  <2>2. /\ made' \in 0 .. MaxConns /\ up' \in 0 .. made' /\ up' = made'
        /\ 1 .. made \subseteq 1 .. made' /\ made + 1 \in 1 .. made'
    BY <2>1, <1>0
  <2>3. alive' \subseteq open' /\ open' \subseteq 1 .. made' /\ known' \subseteq open'
    BY <2>1, <2>2 DEF LinkInv
  <2>4. /\ wire' = [c \in Conn |-> wire'[c]] /\ proc' = [c \in Conn |-> proc'[c]]
        /\ \A c \in Conn \ open' : proc'[c] = << >> /\ wire'[c] = << >>
    BY <2>1 DEF LinkInv
  <2> QED  BY <2>2, <2>3, <2>4 DEF LinkInv
<1>2. CASE ClientNotices
  BY <1>0, <1>2 DEF ClientNotices, LinkInv
<1>3. CASE SendPacket
  <2> DEFINE more == wire[up] \o Units(holds[Turn])
  <2>1. /\ UNCHANGED <<up, made, alive, open, known, proc>>
        /\ wire' = IF up \in alive THEN [wire EXCEPT ![up] = more] ELSE wire
    BY <1>3 DEF SendPacket
  <2> HIDE DEF more
  <2> QED  BY <2>1, <1>0 DEF LinkInv
<1>4. ASSUME NEW k \in 0 .. MsgLen - 1, SendFails(k) PROVE LinkInv'
  <2> DEFINE more == wire[up] \o SubSeq(Units(holds[Turn]), 1, k)
  <2>1. /\ UNCHANGED <<up, made, open, known, proc>>
        /\ alive' = alive \ {up}
        /\ wire' = IF up \in alive THEN [wire EXCEPT ![up] = more] ELSE wire
    BY <1>4 DEF SendFails
  <2> HIDE DEF more
  <2>2. CASE up \in alive
    BY <2>1, <2>2, <1>0 DEF LinkInv
  <2>3. CASE up \notin alive
    BY <2>1, <2>3, <1>0 DEF LinkInv
  <2> QED  BY <2>2, <2>3
<1>5. ASSUME NEW c \in Conn, RunToEnd(c) PROVE LinkInv'
  BY <1>5, <1>0 DEF RunToEnd, LinkInv
<1>6. ASSUME NEW c \in Conn, NEW k \in 0 .. Len(wire[c]), Run(c, k) PROVE LinkInv'
  <2> DEFINE left == Rest(Body(c)) \o SubSeq(wire[c], 1, k)
             later == SubSeq(wire[c], k + 1, Len(wire[c]))
  <2>1. /\ c \in open /\ known' \subseteq known \cup {c}
        /\ UNCHANGED <<up, made, alive, open>>
        /\ proc' = [proc EXCEPT ![c] = left]
        /\ wire' = [wire EXCEPT ![c] = later]
    BY <1>6 DEF Run
  <2> HIDE DEF left, later
  <2> QED  BY <2>1, <1>0 DEF LinkInv
<1>7. ASSUME NEW c \in Conn, NEW k \in 0 .. Len(wire[c]), Break(c, k) PROVE LinkInv'
  <2> DEFINE cut == SubSeq(wire[c], 1, k)
  <2>1. /\ c \in alive
        /\ UNCHANGED <<up, made, open, known, proc>>
        /\ alive' = alive \ {c}
        /\ wire' = [wire EXCEPT ![c] = cut]
    BY <1>7 DEF Break
  <2> HIDE DEF cut
  <2> QED  BY <2>1, <1>0 DEF LinkInv
<1>8. CASE UNCHANGED linkVars
  BY <1>8 DEF linkVars, LinkInv
<1>9. CASE ClientStep
  BY <1>1, <1>2, <1>3, <1>4, <1>8, <1>9 DEF ClientStep
<1>10. CASE ServerStep
  BY <1>5, <1>6, <1>10 DEF ServerStep
<1>11. CASE UNCHANGED vars
  BY <1>8, <1>11 DEF vars
<1> QED  BY <1>7, <1>9, <1>10, <1>11 DEF Next

\* The objects of the two servers and what is between them belong together, with any
\* number of connections, messages and packets.
THEOREM LinkTypeCorrect == Spec => []TypeOK
<1>1. LinkInv /\ PoolTypeOK => TypeOK
  BY LinkAssumption DEF LinkInv, TypeOK
<1> QED  BY LinkUsesPool, PoolTypeCorrect, InitLinkInv, NextLinkInv, <1>1, PTL DEF Spec

-----------------------------------------------------------------------------
(* What is on a connection is cut at the ends of messages *)

Unit == Nat \X Nat

\* Every stretch of MsgLen units is of one message, from its first one on; the last
\* stretch may be cut.
Chunked(q) ==
  \A i \in Nat : i * MsgLen < Len(q) =>
    \E m \in 1 .. MaxMsgs : \A j \in 1 .. MsgLen :
      i * MsgLen + j <= Len(q) => q[i * MsgLen + j] = <<m, j>>

LEMMA Times ==
  /\ MsgLen \in Nat /\ MsgLen > 0
  /\ \A i \in Nat : i * MsgLen \in Nat
  /\ \A i, n \in Nat : (i + n) * MsgLen = i * MsgLen + n * MsgLen
  /\ \A i, n \in Nat : i < n => i * MsgLen + MsgLen <= n * MsgLen
  BY LinkAssumption

LEMMA UnitsOf ==
  ASSUME NEW m \in 1 .. MaxMsgs
  PROVE  /\ Units(m) \in Seq(Unit) /\ Len(Units(m)) = MsgLen
         /\ \A j \in 1 .. MsgLen : Units(m)[j] = <<m, j>>
<1>1. Units(m) = [j \in 1 .. MsgLen |-> <<m, j>>]
  BY PoolAssumption DEF Units
<1>2. \A j \in 1 .. MsgLen : <<m, j>> \in Unit
  BY PoolAssumption DEF Unit
<1>3. [j \in 1 .. MsgLen |-> <<m, j>>] \in [1 .. MsgLen -> Unit]
  BY <1>2
<1> QED  BY <1>1, <1>3, Times

\* The first units of a sequence, and the others.
LEMMA FrontOf ==
  ASSUME NEW S, NEW q \in Seq(S), NEW k \in 0 .. Len(q)
  PROVE  /\ SubSeq(q, 1, k) \in Seq(S) /\ Len(SubSeq(q, 1, k)) = k
         /\ \A i \in 1 .. k : SubSeq(q, 1, k)[i] = q[i]
  OBVIOUS

LEMMA BackOf ==
  ASSUME NEW S, NEW q \in Seq(S), NEW k \in 0 .. Len(q)
  PROVE  /\ SubSeq(q, k + 1, Len(q)) \in Seq(S) /\ Len(SubSeq(q, k + 1, Len(q))) = Len(q) - k
         /\ \A i \in 1 .. Len(q) - k : SubSeq(q, k + 1, Len(q))[i] = q[k + i]
  OBVIOUS

LEMMA JoinOf ==
  ASSUME NEW S, NEW q \in Seq(S), NEW u \in Seq(S)
  PROVE  /\ q \o u \in Seq(S) /\ Len(q \o u) = Len(q) + Len(u)
         /\ \A i \in 1 .. Len(q) : (q \o u)[i] = q[i]
         /\ \A i \in 1 .. Len(u) : (q \o u)[Len(q) + i] = u[i]
         /\ Len(q) \in Nat /\ Len(u) \in Nat
  OBVIOUS

LEMMA SentAfter ==
  ASSUME NEW q \in Seq(Unit), NEW m \in 1 .. MaxMsgs, NEW k \in 0 .. MsgLen
  PROVE  LET r == q \o SubSeq(Units(m), 1, k)
         IN  /\ r \in Seq(Unit) /\ Len(r) = Len(q) + k /\ Len(q) \in Nat
             /\ \A i \in 1 .. Len(q) : r[i] = q[i]
             /\ \A i \in 1 .. k : r[Len(q) + i] = <<m, i>>
<1> DEFINE u == SubSeq(Units(m), 1, k)
<1>1. u \in Seq(Unit) /\ Len(u) = k /\ \A j \in 1 .. k : u[j] = <<m, j>>
  BY UnitsOf, FrontOf, Times
<1>0. u \in Seq(Unit)
  BY <1>1
<1> HIDE DEF u
<1>2. /\ q \o u \in Seq(Unit) /\ Len(q \o u) = Len(q) + Len(u) /\ Len(q) \in Nat
      /\ \A i \in 1 .. Len(q) : (q \o u)[i] = q[i]
      /\ \A i \in 1 .. Len(u) : (q \o u)[Len(q) + i] = u[i]
  BY <1>0
<1>3. /\ q \o u \in Seq(Unit) /\ Len(q \o u) = Len(q) + k /\ Len(q) \in Nat
      /\ \A i \in 1 .. Len(q) : (q \o u)[i] = q[i]
      /\ \A i \in 1 .. k : (q \o u)[Len(q) + i] = <<m, i>>
  BY <1>1, <1>2
<1> QED  BY <1>3 DEF u

\* Nothing is cut.
Whole(q) == \E n \in Nat : Len(q) = n * MsgLen

LEMMA WholeEnds ==
  ASSUME NEW q \in Seq(Unit), Whole(q), NEW i \in Nat
  PROVE  \E a \in Nat : /\ a = i * MsgLen
                       /\ (a < Len(q) => a + MsgLen <= Len(q))
                       /\ (a > Len(q) => Len(q) + MsgLen <= a)
<1>1. PICK n \in Nat : Len(q) = n * MsgLen
  BY DEF Whole
<1>2. PICK a \in Nat : a = i * MsgLen
  BY Times
<1>3. PICK b \in Nat : b = n * MsgLen
  BY Times
<1>4. (a < b) => a + MsgLen <= b
  <2>1. CASE i < n
    BY <1>2, <1>3, <2>1, Times
  <2>2. CASE n <= i
    <3>1. b <= a
      BY <1>2, <1>3, <2>2, Times
    <3> QED  BY <3>1
  <2> QED  BY <2>1, <2>2
<1>5. (a > b) => b + MsgLen <= a
  <2>1. CASE n < i
    BY <1>2, <1>3, <2>1, Times
  <2>2. CASE i <= n
    <3>1. a <= b
      BY <1>2, <1>3, <2>2, Times
    <3> QED  BY <3>1
  <2> QED  BY <2>1, <2>2
<1> QED  BY <1>1, <1>2, <1>3, <1>4, <1>5

\* A message is sent, or a part of it, after whole ones.
LEMMA ChunksSent ==
  ASSUME NEW q \in Seq(Unit), Chunked(q), Whole(q),
         NEW m \in 1 .. MaxMsgs, NEW k \in 0 .. MsgLen
  PROVE  Chunked(q \o SubSeq(Units(m), 1, k))
<1> DEFINE r == q \o SubSeq(Units(m), 1, k)
<1>2. /\ Len(r) = Len(q) + k /\ Len(q) \in Nat
      /\ \A i \in 1 .. Len(q) : r[i] = q[i]
      /\ \A i \in 1 .. k : r[Len(q) + i] = <<m, i>>
  BY SentAfter
<1> HIDE DEF r
<1>3. ASSUME NEW i \in Nat, i * MsgLen < Len(r)
      PROVE  \E w \in 1 .. MaxMsgs : \A j \in 1 .. MsgLen :
               i * MsgLen + j <= Len(r) => r[i * MsgLen + j] = <<w, j>>
  <2>0. PICK a \in Nat : /\ a = i * MsgLen
                        /\ (a < Len(q) => a + MsgLen <= Len(q))
                        /\ (a > Len(q) => Len(q) + MsgLen <= a)
    BY WholeEnds
  <2>1. CASE a < Len(q)
    <3>1. PICK w \in 1 .. MaxMsgs : \A j \in 1 .. MsgLen :
            i * MsgLen + j <= Len(q) => q[i * MsgLen + j] = <<w, j>>
      BY <2>0, <2>1 DEF Chunked
    <3>2. ASSUME NEW j \in 1 .. MsgLen
          PROVE  r[a + j] = <<w, j>>
      <4>0. a + MsgLen <= Len(q) /\ Len(q) \in Nat
        BY <1>2, <2>0, <2>1
      <4>1. a + j \in 1 .. Len(q)
        BY <4>0, LinkAssumption
      <4>2. q[a + j] = <<w, j>>
        BY <2>0, <3>1, <4>1
      <4>3. r[a + j] = q[a + j]
        BY <1>2, <4>1
      <4> QED  BY <4>2, <4>3
    <3> QED  BY <2>0, <3>2
  <2>2. CASE a = Len(q)
    <3>1. ASSUME NEW j \in 1 .. MsgLen, a + j <= Len(r)
          PROVE  r[a + j] = <<m, j>>
      <4>1. j \in 1 .. k
        BY <1>2, <2>2, <3>1, LinkAssumption
      <4> QED  BY <1>2, <2>2, <4>1
    <3> QED  BY <2>0, <3>1
  <2>3. CASE a > Len(q)
    <3>1. Len(r) <= a
      BY <1>2, <2>0, <2>3, LinkAssumption
    <3> QED  BY <1>2, <1>3, <2>0, <3>1
  <2>4. a < Len(q) \/ a = Len(q) \/ a > Len(q)
    BY <1>2
  <2> QED  BY <2>1, <2>2, <2>3, <2>4, Zenon
<1>4. Chunked(r)
  BY <1>3 DEF Chunked
<1> QED  BY <1>4 DEF r

LEMMA ChunksCut ==
  ASSUME NEW q \in Seq(Unit), Chunked(q), NEW k \in 0 .. Len(q)
  PROVE  Chunked(SubSeq(q, 1, k))
<1> DEFINE r == SubSeq(q, 1, k)
<1>1. r \in Seq(Unit) /\ Len(r) = k /\ (\A i \in 1 .. k : r[i] = q[i]) /\ Len(q) \in Nat
  BY FrontOf
<1> HIDE DEF r
<1>2. ASSUME NEW i \in Nat, i * MsgLen < Len(r)
      PROVE  \E w \in 1 .. MaxMsgs : \A j \in 1 .. MsgLen :
               i * MsgLen + j <= Len(r) => r[i * MsgLen + j] = <<w, j>>
  <2>0. PICK a \in Nat : a = i * MsgLen
    BY Times
  <2>1. a < Len(q)
    BY <1>1, <1>2, <2>0
  <2>2. PICK w \in 1 .. MaxMsgs : \A j \in 1 .. MsgLen :
          i * MsgLen + j <= Len(q) => q[i * MsgLen + j] = <<w, j>>
    BY <2>0, <2>1 DEF Chunked
  <2>3. ASSUME NEW j \in 1 .. MsgLen, i * MsgLen + j <= Len(r)
        PROVE  r[i * MsgLen + j] = <<w, j>>
    <3>1. a + j \in 1 .. k /\ a + j <= Len(q)
      BY <1>1, <2>0, <2>1, <2>3, LinkAssumption
    <3>2. q[a + j] = <<w, j>>
      BY <2>0, <2>2, <3>1
    <3>3. r[a + j] = q[a + j]
      BY <1>1, <3>1
    <3> QED  BY <2>0, <3>2, <3>3
  <2> QED  BY <2>3
<1>3. Chunked(r)
  BY <1>2 DEF Chunked
<1> QED  BY <1>3 DEF r

\* Whole messages are taken from the head.
LEMMA ChunksLeft ==
  ASSUME NEW q \in Seq(Unit), Chunked(q), NEW n \in Nat, n * MsgLen <= Len(q)
  PROVE  Chunked(SubSeq(q, n * MsgLen + 1, Len(q)))
<1> DEFINE r == SubSeq(q, n * MsgLen + 1, Len(q))
<1>0. PICK a \in Nat : a = n * MsgLen
  BY Times
<1>1. /\ Len(q) \in Nat /\ a <= Len(q)
      /\ Len(r) = Len(q) - a
      /\ \A i \in 1 .. Len(r) : r[i] = q[a + i]
  <2>1. Len(q) \in Nat /\ a \in 0 .. Len(q) /\ r = SubSeq(q, a + 1, Len(q))
    BY <1>0
  <2> HIDE DEF r
  <2> QED  BY <2>1, BackOf
<1> HIDE DEF r
<1>2. ASSUME NEW i \in Nat, i * MsgLen < Len(r)
      PROVE  \E w \in 1 .. MaxMsgs : \A j \in 1 .. MsgLen :
               i * MsgLen + j <= Len(r) => r[i * MsgLen + j] = <<w, j>>
  <2>1. PICK b \in Nat : b = i * MsgLen
    BY Times
  <2>2. (n + i) * MsgLen = a + b /\ n + i \in Nat
    BY <1>0, <2>1, Times
  <2>3. a + b < Len(q)
    BY <1>1, <1>2, <2>1
  <2>4. PICK w \in 1 .. MaxMsgs : \A j \in 1 .. MsgLen :
          (n + i) * MsgLen + j <= Len(q) => q[(n + i) * MsgLen + j] = <<w, j>>
    BY <2>2, <2>3 DEF Chunked
  <2>5. ASSUME NEW j \in 1 .. MsgLen, i * MsgLen + j <= Len(r)
        PROVE  r[i * MsgLen + j] = <<w, j>>
    <3>0. b + j <= Len(r)
      BY <2>1, <2>5
    <3>1. b + j \in 1 .. Len(r) /\ (a + b) + j <= Len(q)
      BY <1>1, <3>0, LinkAssumption
    <3>2. a + (b + j) = (a + b) + j
      BY LinkAssumption
    <3>3. q[(a + b) + j] = <<w, j>>
      BY <2>2, <2>4, <3>1
    <3>4. r[b + j] = q[a + (b + j)]
      BY <1>1, <3>1
    <3> QED  BY <2>1, <3>2, <3>3, <3>4
  <2> QED  BY <2>5
<1>3. Chunked(r)
  BY <1>2 DEF Chunked
<1> QED  BY <1>3 DEF r

\* What the server takes for messages are messages.
LEMMA Cutting ==
  ASSUME NEW q \in Seq(Unit)
  PROVE  /\ Complete(q) \in Nat /\ Complete(q) * MsgLen \in 0 .. Len(q)
         /\ Len(q) < Complete(q) * MsgLen + MsgLen
         /\ Len(q) \in Nat
<1>1. Len(q) \in Nat
  OBVIOUS
<1>2. \A n, k \in Nat : k > 0 => /\ n \div k \in Nat /\ (n \div k) * k \in Nat
                                 /\ (n \div k) * k <= n /\ n < (n \div k) * k + k
  OBVIOUS
<1> QED  BY <1>1, <1>2, Times DEF Complete

LEMMA SegmentsWhole ==
  ASSUME NEW q \in Seq(Unit), Chunked(q)
  PROVE  /\ DOMAIN Segments(q) = 1 .. Complete(q)
         /\ \A i \in 1 .. Complete(q) : \E m \in 1 .. MaxMsgs :
              Segments(q)[i] = Units(m) /\ Units(m)[1][1] = m
         /\ Segments(q) \in Seq(Seq(Unit))
<1>0. DOMAIN Segments(q) = 1 .. Complete(q)
  BY DEF Segments
<1>1. ASSUME NEW i \in 1 .. Complete(q)
      PROVE  \E m \in 1 .. MaxMsgs : Segments(q)[i] = Units(m) /\ Units(m)[1][1] = m
  <2> DEFINE h == i - 1
             s == SubSeq(q, h * MsgLen + 1, i * MsgLen)
  <2>1. /\ h \in Nat /\ i \in Nat /\ h * MsgLen \in Nat /\ i * MsgLen = h * MsgLen + MsgLen
        /\ i * MsgLen <= Complete(q) * MsgLen
    <3>1. h \in Nat /\ i \in Nat /\ i = h + 1 /\ Complete(q) \in Nat
      BY Cutting
    <3>2. i * MsgLen = h * MsgLen + 1 * MsgLen /\ 1 * MsgLen = MsgLen
      BY <3>1, Times
    <3>3. i < Complete(q) => i * MsgLen + MsgLen <= Complete(q) * MsgLen
      BY <3>1, Times
    <3>4. i * MsgLen \in Nat /\ Complete(q) * MsgLen \in Nat /\ h * MsgLen \in Nat
      BY <3>1, Times
    <3> QED  BY <3>1, <3>2, <3>3, <3>4, Times
  <2> HIDE DEF h
  <2>0. PICK a \in Nat : /\ a = h * MsgLen /\ a + MsgLen = i * MsgLen
                        /\ a + MsgLen <= Len(q) /\ a < Len(q)
    <3>1. Complete(q) * MsgLen <= Len(q) /\ Len(q) \in Nat /\ Complete(q) * MsgLen \in Nat
      BY Cutting
    <3> QED  BY <2>1, <3>1, LinkAssumption
  <2>3. PICK m \in 1 .. MaxMsgs : \A j \in 1 .. MsgLen :
          h * MsgLen + j <= Len(q) => q[h * MsgLen + j] = <<m, j>>
    BY <2>0, <2>1 DEF Chunked
  <2>4. ASSUME NEW j \in 1 .. MsgLen
        PROVE  q[a + j] = <<m, j>>
    <3>1. a + j <= Len(q)
      BY <2>0, Cutting, LinkAssumption
    <3> QED  BY <2>0, <2>3, <3>1
  <2>5. s \in Seq(Unit) /\ Len(s) = MsgLen /\ \A j \in 1 .. MsgLen : s[j] = q[a + j]
    <3>1. s = SubSeq(q, a + 1, a + MsgLen)
      BY <2>0
    <3> HIDE DEF s
    <3>2. /\ a + 1 \in Int /\ a + MsgLen \in Int /\ a + 1 <= a + MsgLen
          /\ (a + MsgLen) - (a + 1) + 1 = MsgLen
          /\ \A j \in 1 .. MsgLen : (a + 1) + j - 1 = a + j
      BY LinkAssumption
    <3>3. \A x \in a + 1 .. a + MsgLen : q[x] \in Unit
      <4>1. a + MsgLen <= Len(q) /\ a \in Nat /\ Len(q) \in Nat
        BY <2>0, Cutting, LinkAssumption
      <4>2. \A x \in a + 1 .. a + MsgLen : x \in 1 .. Len(q)
        BY <4>1, LinkAssumption
      <4> QED  BY <4>2, ElementOfSeq
    <3>4. /\ s \in Seq(Unit) /\ Len(s) = (a + MsgLen) - (a + 1) + 1
          /\ \A j \in 1 .. (a + MsgLen) - (a + 1) + 1 : s[j] = q[(a + 1) + j - 1]
      BY <3>1, <3>2, <3>3, SubSeqProperties
    <3> QED  BY <3>2, <3>4
  <2> HIDE DEF s
  <2>6. s = Units(m)
    BY <2>4, <2>5, UnitsOf, SeqEqual
  <2>7. Units(m)[1][1] = m
    BY UnitsOf, Times
  <2>8. Segments(q)[i] = s
    BY DEF Segments, s, h
  <2> QED  BY <2>6, <2>7, <2>8
<1>2. \A i \in 1 .. Complete(q) : Segments(q)[i] \in Seq(Unit)
  BY <1>1, UnitsOf
<1>3. Segments(q) \in [1 .. Complete(q) -> Seq(Unit)]
  BY <1>2 DEF Segments
<1>4. Segments(q) \in Seq(Seq(Unit))
  BY <1>3, Cutting
<1> QED  BY <1>0, <1>1, <1>4

-----------------------------------------------------------------------------
(* The streams of units *)

\* What is on a connection after the registration, the registered ones being known.
StreamOf(isKnown, q) == IF isKnown THEN q ELSE Tail(q)
Started(isKnown, q) == isKnown \/ q # << >>
Fits(isKnown, q) == Started(isKnown, q) => Chunked(StreamOf(isKnown, q))
Full(isKnown, q) == Started(isKnown, q) /\ Whole(StreamOf(isKnown, q))

LEMMA TailJoin ==
  ASSUME NEW S, NEW q \in Seq(S), q # << >>, NEW u \in Seq(S)
  PROVE  Tail(q \o u) = Tail(q) \o u /\ q \o u # << >> /\ Tail(q) \in Seq(S)
<1>1. Tail(q) \in Seq(S) /\ q \o u \in Seq(S) /\ Tail(q) \o u \in Seq(S)
  OBVIOUS
<1>2. /\ Len(q) \in Nat /\ Len(q) > 0 /\ Len(u) \in Nat /\ Len(Tail(q)) = Len(q) - 1
      /\ Len(q \o u) = Len(q) + Len(u) /\ Len(Tail(q) \o u) = (Len(q) - 1) + Len(u)
  OBVIOUS
<1>3. q \o u # << >>
  BY <1>2
<1>4. Tail(q \o u) \in Seq(S) /\ Len(Tail(q \o u)) = Len(q) + Len(u) - 1
  BY <1>1, <1>2, <1>3
<1>5. ASSUME NEW i \in 1 .. Len(Tail(q \o u))
      PROVE  Tail(q \o u)[i] = (Tail(q) \o u)[i]
  <2>1. Tail(q \o u)[i] = (q \o u)[i + 1]
    BY <1>1, <1>3, <1>5, HeadTailProperties
  <2>2. CASE i <= Len(q) - 1
    BY <1>2, <1>4, <1>5, <2>1, <2>2
  <2>3. CASE i > Len(q) - 1
    BY <1>2, <1>4, <1>5, <2>1, <2>3
  <2> QED  BY <1>2, <1>4, <1>5, <2>2, <2>3
<1>6. Tail(q \o u) = Tail(q) \o u
  BY <1>1, <1>2, <1>4, <1>5, SeqEqual
<1> QED  BY <1>1, <1>3, <1>6

LEMMA StreamJoin ==
  ASSUME NEW S, NEW q \in Seq(S), NEW isKnown \in BOOLEAN, Started(isKnown, q), NEW u \in Seq(S)
  PROVE  /\ StreamOf(isKnown, q) \in Seq(S) /\ Started(isKnown, q \o u)
         /\ StreamOf(isKnown, q \o u) = StreamOf(isKnown, q) \o u
  BY TailJoin DEF Started, StreamOf

LEMMA StreamCut ==
  ASSUME NEW S, NEW q \in Seq(S), NEW isKnown \in BOOLEAN, Started(isKnown, q),
         NEW k \in 0 .. Len(q), Started(isKnown, SubSeq(q, 1, k))
  PROVE  /\ StreamOf(isKnown, q) \in Seq(S)
         /\ \E j \in 0 .. Len(StreamOf(isKnown, q)) :
              StreamOf(isKnown, SubSeq(q, 1, k)) = SubSeq(StreamOf(isKnown, q), 1, j)
<1>1. CASE isKnown
  BY <1>1 DEF StreamOf
<1>2. CASE ~ isKnown
  <2>1. q # << >> /\ SubSeq(q, 1, k) # << >> /\ Len(q) \in Nat
    BY <1>2 DEF Started
  <2>2. k \in 1 .. Len(q)
    BY <2>1
  <2>3. /\ Tail(q) \in Seq(S) /\ Len(Tail(q)) = Len(q) - 1
        /\ \A i \in 1 .. Len(q) - 1 : Tail(q)[i] = q[i + 1]
    BY <2>1
  <2>4. Tail(SubSeq(q, 1, k)) = SubSeq(Tail(q), 1, k - 1)
    <3> DEFINE s == SubSeq(q, 1, k)
               t == SubSeq(Tail(q), 1, k - 1)
    <3>1. s \in Seq(S) /\ Len(s) = k /\ (\A i \in 1 .. k : s[i] = q[i]) /\ s # << >>
      BY <2>1, FrontOf
    <3>2. k - 1 \in 0 .. Len(Tail(q))
      BY <2>2, <2>3
    <3>3. t \in Seq(S) /\ Len(t) = k - 1 /\ \A i \in 1 .. k - 1 : t[i] = Tail(q)[i]
      BY <2>3, <3>2, FrontOf
    <3> HIDE DEF s, t
    <3>4. Tail(s) \in Seq(S) /\ Len(Tail(s)) = k - 1 /\ \A i \in 1 .. k - 1 : Tail(s)[i] = s[i + 1]
      BY <3>1
    <3>5. \A i \in 1 .. k - 1 : s[i + 1] = q[i + 1] /\ Tail(q)[i] = q[i + 1]
      BY <2>2, <2>3, <3>1
    <3>6. Tail(s) = t
      BY <3>3, <3>4, <3>5, SeqEqual
    <3> QED  BY <3>6 DEF s, t
  <2>5. k - 1 \in 0 .. Len(Tail(q))
    BY <2>2, <2>3
  <2> QED  BY <1>2, <2>3, <2>4, <2>5 DEF StreamOf
<1> QED  BY <1>1, <1>2

LEMMA WholeMore ==
  ASSUME NEW q \in Seq(Unit), Whole(q), NEW m \in 1 .. MaxMsgs
  PROVE  Whole(q \o Units(m))
<1>1. PICK n \in Nat : Len(q) = n * MsgLen
  BY DEF Whole
<1>2. (n + 1) * MsgLen = n * MsgLen + MsgLen /\ n + 1 \in Nat
  BY Times
<1>3. Len(q \o Units(m)) = Len(q) + MsgLen
  BY UnitsOf, JoinOf
<1> QED  BY <1>1, <1>2, <1>3 DEF Whole

\* A message is sent, or a part of it.
LEMMA FitsSent ==
  ASSUME NEW q \in Seq(Unit), NEW isKnown \in BOOLEAN, Fits(isKnown, q), Full(isKnown, q),
         NEW m \in 1 .. MaxMsgs
  PROVE  /\ \A k \in 0 .. MsgLen : Fits(isKnown, q \o SubSeq(Units(m), 1, k))
         /\ Fits(isKnown, q \o Units(m)) /\ Full(isKnown, q \o Units(m))
<1> DEFINE s == StreamOf(isKnown, q)
<1>1. s \in Seq(Unit) /\ Chunked(s) /\ Whole(s) /\ Started(isKnown, q)
  BY StreamJoin, EmptySeq DEF Fits, Full
<1>2. ASSUME NEW k \in 0 .. MsgLen
      PROVE  Fits(isKnown, q \o SubSeq(Units(m), 1, k))
  <2>1. SubSeq(Units(m), 1, k) \in Seq(Unit)
    BY UnitsOf, FrontOf
  <2>2. StreamOf(isKnown, q \o SubSeq(Units(m), 1, k)) = s \o SubSeq(Units(m), 1, k)
    <3> DEFINE u == SubSeq(Units(m), 1, k)
    <3>1. Started(isKnown, q) /\ u \in Seq(Unit)
      BY <1>1, <2>1
    <3> HIDE DEF u
    <3>2. StreamOf(isKnown, q \o u) = StreamOf(isKnown, q) \o u
      BY <3>1, StreamJoin
    <3> QED  BY <3>2 DEF u
  <2> QED  BY <1>1, <2>2, ChunksSent DEF Fits
<1>3. SubSeq(Units(m), 1, MsgLen) = Units(m) /\ MsgLen \in 0 .. MsgLen
  BY UnitsOf, SubSeqFull, Times
<1>4. Full(isKnown, q \o Units(m))
  <2>1. /\ StreamOf(isKnown, q \o Units(m)) = s \o Units(m)
        /\ Started(isKnown, q \o Units(m))
    BY <1>1, UnitsOf, StreamJoin
  <2> QED  BY <1>1, <2>1, WholeMore DEF Full
<1> QED  BY <1>2, <1>3, <1>4

LEMMA FitsCut ==
  ASSUME NEW q \in Seq(Unit), NEW isKnown \in BOOLEAN, Fits(isKnown, q), NEW k \in 0 .. Len(q)
  PROVE  Fits(isKnown, SubSeq(q, 1, k))
<1> SUFFICES ASSUME Started(isKnown, SubSeq(q, 1, k))
             PROVE  Chunked(StreamOf(isKnown, SubSeq(q, 1, k)))
  BY DEF Fits
<1>1. Started(isKnown, q)
  BY DEF Started
<1>2. StreamOf(isKnown, q) \in Seq(Unit) /\ Chunked(StreamOf(isKnown, q))
  BY <1>1, StreamCut DEF Fits
<1>3. PICK j \in 0 .. Len(StreamOf(isKnown, q)) :
        StreamOf(isKnown, SubSeq(q, 1, k)) = SubSeq(StreamOf(isKnown, q), 1, j)
  BY <1>1, StreamCut
<1>4. Chunked(SubSeq(StreamOf(isKnown, q), 1, j))
  BY <1>2, ChunksCut
<1> QED  BY <1>3, <1>4

LEMMA Regroup == \A q, r, t \in Seq(Unit) : (q \o r) \o t = q \o (r \o t)
  OBVIOUS

LEMMA JoinUnits ==
  \A q, u \in Seq(Unit) :
    /\ q \o u \in Seq(Unit) /\ Len(q \o u) = Len(q) + Len(u)
    /\ \A i \in 1 .. Len(q) : (q \o u)[i] = q[i]
    /\ \A i \in 1 .. Len(u) : (q \o u)[Len(q) + i] = u[i]
  OBVIOUS

LEMMA Rejoined ==
  ASSUME NEW S, NEW q \in Seq(S), NEW r \in Seq(S), NEW t \in Seq(S), NEW u \in Seq(S), u = r \o t
  PROVE  (q \o r) \o t = q \o u
  OBVIOUS

\* The server handles what is complete, puts what is left before what it reads next, ...
LEMMA Rejoin ==
  ASSUME NEW q \in Seq(Unit), NEW w \in Seq(Unit), NEW k \in 0 .. Len(w)
  PROVE  /\ (Rest(q) \o SubSeq(w, 1, k)) \o SubSeq(w, k + 1, Len(w))
              = SubSeq(q \o w, Complete(q) * MsgLen + 1, Len(q \o w))
         /\ Rest(q) \o SubSeq(w, 1, k) \in Seq(Unit) /\ SubSeq(w, k + 1, Len(w)) \in Seq(Unit)
<1>1. PICK a \in 0 .. Len(q) : a = Complete(q) * MsgLen
  BY Cutting
<1> DEFINE r == SubSeq(q, a + 1, Len(q))
           f == SubSeq(w, 1, k)
           b == SubSeq(w, k + 1, Len(w))
           z == SubSeq(q \o w, a + 1, Len(q \o w))
<1>2. Len(q) \in Nat /\ Len(w) \in Nat /\ q \o w \in Seq(Unit) /\ Len(q \o w) = Len(q) + Len(w)
  OBVIOUS
<1>3. /\ f \in Seq(Unit) /\ b \in Seq(Unit) /\ f \o b = w
  <2>1. f \in Seq(Unit) /\ b \in Seq(Unit)
    BY FrontOf, BackOf
  <2>2. /\ 1 \in 1 .. Len(w) + 1 /\ k \in 1 - 1 .. Len(w) /\ Len(w) \in k .. Len(w)
    BY <1>2
  <2>3. f \o b = SubSeq(w, 1, Len(w))
    BY <2>2, ConcatAdjacentSubSeq
  <2> QED  BY <2>1, <2>3, SubSeqFull
<1>4. r \in Seq(Unit) /\ Len(r) = Len(q) - a /\ \A i \in 1 .. Len(q) - a : r[i] = q[a + i]
  BY BackOf
<1>5. /\ z \in Seq(Unit) /\ Len(z) = (Len(q) + Len(w)) - a
      /\ \A i \in 1 .. (Len(q) + Len(w)) - a : z[i] = (q \o w)[a + i]
  <2>1. a \in 0 .. Len(q \o w)
    BY <1>2
  <2> QED  BY <1>2, <2>1, BackOf
<1> HIDE DEF r, f, b, z
<1>6. (r \o f) \o b = r \o w
  <2>1. r \in Seq(Unit) /\ f \in Seq(Unit) /\ b \in Seq(Unit)
    BY <1>3, <1>4
  <2>2. f \o b = w
    BY <1>3
  <2>3. (r \o f) \o b = r \o (f \o b)
    BY <2>1, Regroup, ZenonT(60)
  <2> QED  BY <2>2, <2>3
<1>7. r \o w = z
  <2>1. /\ r \o w \in Seq(Unit) /\ Len(r \o w) = (Len(q) - a) + Len(w)
        /\ \A i \in 1 .. Len(q) - a : (r \o w)[i] = r[i]
        /\ \A i \in 1 .. Len(w) : (r \o w)[(Len(q) - a) + i] = w[i]
    <3>1. r \in Seq(Unit) /\ Len(r) = Len(q) - a
      BY <1>4
    <3>2. /\ r \o w \in Seq(Unit) /\ Len(r \o w) = Len(r) + Len(w)
          /\ \A i \in 1 .. Len(r) : (r \o w)[i] = r[i]
          /\ \A i \in 1 .. Len(w) : (r \o w)[Len(r) + i] = w[i]
      <4>1. r \in Seq(Unit) /\ w \in Seq(Unit)
        BY <3>1
      <4> QED  BY <4>1, JoinUnits, Zenon
    <3> QED  BY <3>1, <3>2
  <2>2. ASSUME NEW i \in 1 .. Len(r \o w)
        PROVE  (r \o w)[i] = z[i]
    <3>1. CASE i \in 1 .. Len(q) - a
      <4>1. (q \o w)[a + i] = q[a + i]
        BY <1>2, <3>1, JoinOf
      <4>2. i \in 1 .. (Len(q) + Len(w)) - a
        BY <1>2, <3>1
      <4> QED  BY <1>4, <1>5, <2>1, <3>1, <4>1, <4>2
    <3>2. CASE i \notin 1 .. Len(q) - a
      <4>1. PICK j \in 1 .. Len(w) : i = (Len(q) - a) + j
        <5>1. i - (Len(q) - a) \in 1 .. Len(w) /\ i = (Len(q) - a) + (i - (Len(q) - a))
          BY <1>2, <2>1, <2>2, <3>2
        <5> QED  BY <5>1
      <4>2. a + i = Len(q) + j /\ i \in 1 .. (Len(q) + Len(w)) - a
        BY <1>2, <2>1, <4>1
      <4>3. (q \o w)[Len(q) + j] = w[j]
        BY <4>1, JoinOf
      <4> QED  BY <1>5, <2>1, <4>1, <4>2, <4>3
    <3> QED  BY <3>1, <3>2
  <2>3. Len(r \o w) = Len(z)
    BY <1>2, <1>5, <2>1
  <2> QED  BY <1>5, <2>1, <2>2, <2>3, SeqEqual
<1>8. Rest(q) = r
  BY <1>1 DEF Rest, r
<1>9. r \o f \in Seq(Unit)
  BY <1>3, <1>4
<1> QED  BY <1>1, <1>3, <1>6, <1>7, <1>8, <1>9 DEF f, b, z

Ran(isKnown, q, w, k, body, later, r) ==
  /\ body = IF ~ isKnown /\ q # << >> THEN Tail(q) ELSE q
  /\ later = (isKnown \/ q # << >>)
  /\ r = (Rest(body) \o SubSeq(w, 1, k)) \o SubSeq(w, k + 1, Len(w))
RanWell(isKnown, q, w, body, later, r) ==
  /\ body \in Seq(Unit) /\ r \in Seq(Unit)
  /\ Started(later, r) => Started(isKnown, q \o w)
  /\ ~ later => r = q \o w
  /\ later => /\ StreamOf(isKnown, q \o w) = body \o w /\ Started(isKnown, q \o w)
              /\ r = SubSeq(body \o w, Complete(body) * MsgLen + 1, Len(body \o w))


\* ... and finds the same stream as before, without the messages that it handled.
LEMMA FitsRun ==
  ASSUME NEW q \in Seq(Unit), NEW w \in Seq(Unit), NEW isKnown \in BOOLEAN, NEW k \in 0 .. Len(w),
         NEW body, NEW later \in BOOLEAN, NEW r, Ran(isKnown, q, w, k, body, later, r)
  PROVE  RanWell(isKnown, q, w, body, later, r)
<1> USE DEF Ran
<1>1. body \in Seq(Unit)
  OBVIOUS
<1>2. later => StreamOf(isKnown, q \o w) = body \o w /\ Started(isKnown, q \o w)
  <2>1. CASE isKnown
    BY <2>1 DEF StreamOf, Started
  <2>2. CASE ~ isKnown /\ q # << >>
    <3>1. Tail(q \o w) = Tail(q) \o w /\ q \o w # << >>
      BY <2>2, TailJoin
    <3> QED  BY <2>2, <3>1 DEF StreamOf, Started
  <2> QED  BY <2>1, <2>2
<1>3. ~ later => body = << >> /\ q = << >>
  OBVIOUS
<1>4. /\ r = SubSeq(body \o w, Complete(body) * MsgLen + 1, Len(body \o w))
      /\ Rest(body) \o SubSeq(w, 1, k) \in Seq(Unit) /\ SubSeq(w, k + 1, Len(w)) \in Seq(Unit)
  BY <1>1, Rejoin
<1>5. r \in Seq(Unit)
  BY <1>4
<1>6. ~ later => r = q \o w
  <2> SUFFICES ASSUME ~ later PROVE r = q \o w
    OBVIOUS
  <2>1. body = << >> /\ q = << >> /\ q \o w = w /\ body \o w = w
    BY <1>3
  <2>2. Complete(body) * MsgLen = 0
    <3>1. Complete(body) * MsgLen \in 0 .. Len(body) /\ Len(body) = 0
      BY <1>1, <2>1, Cutting
    <3> QED  BY <3>1
  <2>3. SubSeq(w, 1, Len(w)) = w
    BY SubSeqFull
  <2>4. SubSeq(body \o w, Complete(body) * MsgLen + 1, Len(body \o w)) = SubSeq(w, 1, Len(w))
    BY <2>1, <2>2
  <2>5. r = SubSeq(body \o w, Complete(body) * MsgLen + 1, Len(body \o w))
    BY <1>4
  <2> QED  BY <2>1, <2>3, <2>4, <2>5
<1>7. Started(later, r) => Started(isKnown, q \o w)
  BY <1>2, <1>6 DEF Started
<1> QED  BY <1>1, <1>2, <1>4, <1>5, <1>6, <1>7 DEF RanWell

LEMMA WholeLess ==
  ASSUME NEW q \in Seq(Unit), Whole(q), NEW n \in Nat, n * MsgLen <= Len(q)
  PROVE  Whole(SubSeq(q, n * MsgLen + 1, Len(q)))
<1>1. PICK p \in Nat : Len(q) = p * MsgLen
  BY DEF Whole
<1>2. PICK a \in Nat : a = n * MsgLen
  BY Times
<1>3. n <= p
  <2> SUFFICES ASSUME p < n PROVE FALSE
    BY <1>1
  <2>1. p * MsgLen + MsgLen <= n * MsgLen /\ p * MsgLen \in Nat /\ n * MsgLen \in Nat
    BY <1>1, Times
  <2> QED  BY <1>1, <2>1, Times
<1>4. p - n \in Nat /\ (n + (p - n)) * MsgLen = n * MsgLen + (p - n) * MsgLen /\ n + (p - n) = p
  BY <1>1, <1>3, Times
<1>5. Len(SubSeq(q, a + 1, Len(q))) = Len(q) - a
  <2>1. a \in 0 .. Len(q)
    BY <1>2
  <2> QED  BY <2>1, BackOf
<1>6. (p - n) * MsgLen \in Nat
  BY <1>4, Times
<1>7. Len(q) - a = (p - n) * MsgLen
  BY <1>1, <1>2, <1>4, <1>6
<1> QED  BY <1>2, <1>4, <1>5, <1>7 DEF Whole

-----------------------------------------------------------------------------
(* Only whole messages are handled *)

Stretch(c) == proc[c] \o wire[c]

GotWhole == \A i \in DOMAIN got : \E m \in 1 .. MaxMsgs : got[i] = Units(m) /\ Units(m)[1][1] = m

\* What is on a connection is whole messages one after the other, as long as the connection
\* is not broken, and may be cut in the last one afterwards.
WireTypes == wire \in [Conn -> Seq(Unit)] /\ proc \in [Conn -> Seq(Unit)] /\ got \in Seq(Seq(Unit))
WireFits ==
  /\ \A c \in open : Fits(c \in known, Stretch(c))
  /\ \A c \in alive : Full(c \in known, Stretch(c))
WireInv == WireTypes /\ WireFits /\ GotWhole

LinkIInv == LinkInv /\ IInv /\ WireInv

LEMMA IsIn ==
  ASSUME NEW x, NEW S
  PROVE  \E b \in BOOLEAN : b = (x \in S)
<1>1. CASE x \in S
  <2>1. TRUE = (x \in S)
    BY <1>1
  <2> QED  BY <2>1
<1>2. CASE x \notin S
  <2>1. FALSE = (x \in S)
    BY <1>2
  <2> QED  BY <2>1
<1> QED  BY <1>1, <1>2

LEMMA InitWire == Init => WireInv
<1> SUFFICES ASSUME Init PROVE WireInv
  OBVIOUS
<1>1. WireTypes /\ open = {} /\ alive = {} /\ got = << >>
  BY DEF Init, WireTypes
<1> QED  BY <1>1 DEF WireInv, WireFits, GotWhole

\* A packet that is sent has a message.
LEMMA TurnHolds ==
  ASSUME IInv, IsSending
  PROVE  holds[Turn] \in 1 .. MaxMsgs
<1>1. /\ sending \in Seq(Packet) /\ sent \in 0 .. Len(sending) /\ holds \in [Packet -> 0 .. MaxMsgs]
      /\ Len(sending) \in Nat /\ Len(out) \in Nat /\ MaxMsgs \in Nat
  BY PoolAssumption DEF IInv, PoolTypeOK, InSequence
<1>2. sent + 1 \in sent + 1 .. Len(sending) /\ sent + 1 \in 1 .. Len(sending)
  BY <1>1 DEF IsSending
<1>3. holds[Turn] = Len(out) + (sent + 1) - sent
  BY <1>2 DEF IInv, InSequence, Turn
<1>4. holds[Turn] \in 0 .. MaxMsgs
  BY <1>1, <1>2 DEF Turn
<1> QED  BY <1>1, <1>3, <1>4

\* Nothing changes but on one connection.
LEMMA WireElsewhere ==
  ASSUME LinkIInv, NEW d \in Conn, WireTypes', got' = got,
         \A c \in Conn \ {d} : wire'[c] = wire[c] /\ proc'[c] = proc[c] /\ (c \in known' <=> c \in known),
         open' \ {d} \subseteq open, alive' \ {d} \subseteq alive,
         open' \subseteq Conn, alive' \subseteq Conn,
         d \in open' => Fits(d \in known', proc'[d] \o wire'[d]),
         d \in alive' => Full(d \in known', proc'[d] \o wire'[d])
  PROVE  WireInv'
<1>1. \A c \in open' : Fits(c \in known', proc'[c] \o wire'[c])
  <2> TAKE c \in open'
  <2>1. CASE c = d
    BY <2>1
  <2>2. CASE c # d
    <3>1. c \in open /\ wire'[c] = wire[c] /\ proc'[c] = proc[c] /\ (c \in known') = (c \in known)
      BY <2>2
    <3>2. Fits(c \in known, Stretch(c))
      BY <3>1 DEF LinkIInv, WireInv, WireFits
    <3> QED  BY <3>1, <3>2 DEF Stretch
  <2> QED  BY <2>1, <2>2
<1>2. \A c \in alive' : Full(c \in known', proc'[c] \o wire'[c])
  <2> TAKE c \in alive'
  <2>1. CASE c = d
    BY <2>1
  <2>2. CASE c # d
    <3>1. c \in alive /\ wire'[c] = wire[c] /\ proc'[c] = proc[c] /\ (c \in known') = (c \in known)
      BY <2>2
    <3>2. Full(c \in known, Stretch(c))
      BY <3>1 DEF LinkIInv, WireInv, WireFits
    <3> QED  BY <3>1, <3>2 DEF Stretch
  <2> QED  BY <2>1, <2>2
<1>3. GotWhole'
  BY DEF LinkIInv, WireInv, GotWhole
<1> QED  BY <1>1, <1>2, <1>3 DEF WireInv, WireFits, Stretch

LEMMA WireSame ==
  ASSUME LinkIInv, UNCHANGED <<wire, proc, got, known>>, open' \subseteq open, alive' \subseteq alive
  PROVE  WireInv'
  BY DEF LinkIInv, WireInv, WireTypes, WireFits, GotWhole, Stretch

\* Units are sent on a connection.
LEMMA WireSent ==
  ASSUME LinkIInv, up \in alive, NEW u \in Seq(Unit),
         wire' = [wire EXCEPT ![up] = @ \o u], UNCHANGED <<open, known, proc, got>>,
         alive' \subseteq alive,
         Fits(up \in known, Stretch(up) \o u),
         up \in alive' => Full(up \in known, Stretch(up) \o u)
  PROVE  WireInv'
<1>0. /\ wire \in [Conn -> Seq(Unit)] /\ proc \in [Conn -> Seq(Unit)] /\ up \in Conn
      /\ open \subseteq Conn /\ alive \subseteq Conn
  BY LinkAssumption DEF LinkIInv, WireInv, WireTypes, LinkInv, Conn
<1>1. wire[up] \o u \in Seq(Unit)
  BY <1>0
<1>2. WireTypes'
  BY <1>0, <1>1 DEF LinkIInv, WireInv, WireTypes
<1>3. proc'[up] \o wire'[up] = Stretch(up) \o u
  <2>1. proc[up] \in Seq(Unit) /\ wire[up] \in Seq(Unit)
    BY <1>0
  <2>2. (proc[up] \o wire[up]) \o u = proc[up] \o (wire[up] \o u)
    BY <2>1, Regroup
  <2>3. wire'[up] = wire[up] \o u /\ proc'[up] = proc[up]
    BY <1>0
  <2> QED  BY <2>2, <2>3 DEF Stretch
<1>4. \A c \in Conn \ {up} : wire'[c] = wire[c] /\ proc'[c] = proc[c] /\ (c \in known' <=> c \in known)
  BY <1>0
<1>5. /\ up \in open' => Fits(up \in known', proc'[up] \o wire'[up])
      /\ up \in alive' => Full(up \in known', proc'[up] \o wire'[up])
  BY <1>3
<1> QED  BY <1>0, <1>2, <1>4, <1>5, WireElsewhere

LEMMA WireConnect ==
  ASSUME LinkIInv, Connect
  PROVE  WireInv'
<1> DEFINE d == made + 1
<1>0. /\ wire \in [Conn -> Seq(Unit)] /\ proc \in [Conn -> Seq(Unit)]
      /\ open \subseteq 1 .. made /\ alive \subseteq open /\ known \subseteq open
      /\ made \in 0 .. MaxConns /\ MaxConns \in Nat
  BY LinkAssumption DEF LinkIInv, WireInv, WireTypes, LinkInv
<1>1. /\ d \in Conn /\ d \notin open /\ 1 .. made \subseteq Conn
  BY <1>0 DEF Connect, Conn
<1>2. /\ wire' = [wire EXCEPT ![d] = <<Registration>>] /\ proc' = proc /\ known' = known /\ got' = got
      /\ open' = open \cup {d} /\ alive' = alive \cup {d}
  BY DEF Connect
<1> HIDE DEF d
<1>3. <<Registration>> \in Seq(Unit)
  BY DEF Registration, Unit
<1>4. proc[d] = << >> /\ d \notin known
  BY <1>0, <1>1 DEF LinkIInv, LinkInv
<1>5. WireTypes'
  BY <1>0, <1>2, <1>3 DEF LinkIInv, WireInv, WireTypes
<1>6. proc'[d] \o wire'[d] = <<Registration>>
  BY <1>0, <1>1, <1>2, <1>3, <1>4
<1>7. Tail(<<Registration>>) = << >> /\ <<Registration>> # << >>
  OBVIOUS
<1>8. Chunked(<< >>) /\ Whole(<< >>)
  <2>1. Len(<< >>) = 0 /\ 0 \in Nat /\ 0 * MsgLen = 0 /\ \A i \in Nat : i * MsgLen \in Nat
    BY Times
  <2> QED  BY <2>1 DEF Chunked, Whole
<1>9. Fits(d \in known', proc'[d] \o wire'[d]) /\ Full(d \in known', proc'[d] \o wire'[d])
  BY <1>2, <1>4, <1>6, <1>7, <1>8 DEF Fits, Full, Started, StreamOf
<1>10. \A c \in Conn \ {d} : wire'[c] = wire[c] /\ proc'[c] = proc[c] /\ (c \in known' <=> c \in known)
  BY <1>0, <1>2
<1>11. /\ open' \ {d} \subseteq open /\ alive' \ {d} \subseteq alive
       /\ open' \subseteq Conn /\ alive' \subseteq Conn
  BY <1>0, <1>1, <1>2
<1> QED  BY <1>1, <1>2, <1>5, <1>9, <1>10, <1>11, WireElsewhere

LEMMA WireSendPacket ==
  ASSUME LinkIInv, SendPacket
  PROVE  WireInv'
<1>1. CASE up \notin alive
  <2>1. UNCHANGED <<wire, proc, got, known>> /\ open' \subseteq open /\ alive' \subseteq alive
    BY <1>1 DEF SendPacket
  <2> QED  BY <2>1, WireSame
<1>2. CASE up \in alive
  <2>1. PICK m \in 1 .. MaxMsgs : m = holds[Turn]
    BY TurnHolds DEF LinkIInv, SendPacket, PacketDone
  <2>2. /\ wire' = [wire EXCEPT ![up] = @ \o Units(m)] /\ UNCHANGED <<open, alive, known, proc, got>>
    BY <1>2, <2>1 DEF SendPacket
  <2>3. up \in Conn /\ Stretch(up) \in Seq(Unit) /\ up \in open
    BY <1>2, LinkAssumption DEF LinkIInv, WireInv, WireTypes, LinkInv, Conn, Stretch
  <2>4. Fits(up \in known, Stretch(up)) /\ Full(up \in known, Stretch(up))
    BY <1>2, <2>3 DEF LinkIInv, WireInv, WireFits
  <2>5. Fits(up \in known, Stretch(up) \o Units(m)) /\ Full(up \in known, Stretch(up) \o Units(m))
    <3>1. PICK b \in BOOLEAN : b = (up \in known)
      BY IsIn
    <3>2. Fits(b, Stretch(up)) /\ Full(b, Stretch(up))
      BY <2>4, <3>1
    <3>3. Fits(b, Stretch(up) \o Units(m)) /\ Full(b, Stretch(up) \o Units(m))
      BY <2>3, <3>2, FitsSent
    <3> QED  BY <3>1, <3>3
  <2>6. Units(m) \in Seq(Unit)
    BY UnitsOf
  <2> QED  BY <1>2, <2>2, <2>5, <2>6, WireSent
<1> QED  BY <1>1, <1>2

LEMMA WireSendFails ==
  ASSUME LinkIInv, NEW k \in 0 .. MsgLen - 1, SendFails(k)
  PROVE  WireInv'
<1>1. CASE up \notin alive
  <2>1. UNCHANGED <<wire, proc, got, known>> /\ open' \subseteq open /\ alive' \subseteq alive
    BY <1>1 DEF SendFails
  <2> QED  BY <2>1, WireSame
<1>2. CASE up \in alive
  <2>1. PICK m \in 1 .. MaxMsgs : m = holds[Turn]
    BY TurnHolds DEF LinkIInv, SendFails, GiveUp
  <2> DEFINE u == SubSeq(Units(m), 1, k)
  <2>2. /\ wire' = [wire EXCEPT ![up] = @ \o u] /\ UNCHANGED <<open, known, proc, got>>
        /\ alive' = alive \ {up}
    BY <1>2, <2>1 DEF SendFails
  <2>3. up \in Conn /\ Stretch(up) \in Seq(Unit) /\ up \in open
    BY <1>2, LinkAssumption DEF LinkIInv, WireInv, WireTypes, LinkInv, Conn, Stretch
  <2>4. Fits(up \in known, Stretch(up)) /\ Full(up \in known, Stretch(up))
    BY <1>2, <2>3 DEF LinkIInv, WireInv, WireFits
  <2>5. k \in 0 .. MsgLen
    BY LinkAssumption
  <2>6. Fits(up \in known, Stretch(up) \o u)
    <3>1. PICK b \in BOOLEAN : b = (up \in known)
      BY IsIn
    <3>2. Fits(b, Stretch(up)) /\ Full(b, Stretch(up))
      BY <2>4, <3>1
    <3>3. Fits(b, Stretch(up) \o u)
      BY <2>3, <3>2, <2>5, FitsSent
    <3> QED  BY <3>1, <3>3
  <2>7. u \in Seq(Unit)
    BY <2>5, UnitsOf, FrontOf
  <2>8. alive' \subseteq alive /\ up \notin alive'
    BY <2>2
  <2> HIDE DEF u
  <2> QED  BY <1>2, <2>2, <2>6, <2>7, <2>8, WireSent
<1> QED  BY <1>1, <1>2

LEMMA JoinCut ==
  ASSUME NEW S, NEW p \in Seq(S), NEW w \in Seq(S), NEW k \in 0 .. Len(w)
  PROVE  \E j \in 0 .. Len(p \o w) : p \o SubSeq(w, 1, k) = SubSeq(p \o w, 1, j)
<1> DEFINE s == p \o w
           j == Len(p) + k
           cut == SubSeq(w, 1, k)
<1>1. /\ Len(s) = Len(p) + Len(w) /\ s \in Seq(S) /\ Len(p) \in Nat /\ Len(w) \in Nat
      /\ \A i \in 1 .. Len(p) : s[i] = p[i]
      /\ \A i \in 1 .. Len(w) : s[Len(p) + i] = w[i]
  OBVIOUS
<1>2. cut \in Seq(S) /\ Len(cut) = k /\ \A i \in 1 .. k : cut[i] = w[i]
  BY FrontOf
<1> HIDE DEF s, cut
<1>3. j \in 0 .. Len(s)
  BY <1>1
<1>4. /\ SubSeq(s, 1, j) \in Seq(S) /\ Len(SubSeq(s, 1, j)) = j
      /\ \A i \in 1 .. j : SubSeq(s, 1, j)[i] = s[i]
  BY <1>1, <1>3, FrontOf
<1>5. /\ p \o cut \in Seq(S) /\ Len(p \o cut) = j
      /\ \A i \in 1 .. Len(p) : (p \o cut)[i] = p[i]
      /\ \A i \in 1 .. k : (p \o cut)[Len(p) + i] = cut[i]
  BY <1>2, SMTT(30)
<1>6. ASSUME NEW i \in 1 .. j
      PROVE  (p \o cut)[i] = SubSeq(s, 1, j)[i]
  <2>1. CASE i \in 1 .. Len(p)
    BY <1>1, <1>4, <1>5, <2>1
  <2>2. CASE i \notin 1 .. Len(p)
    <3>1. PICK x \in 1 .. k : i = Len(p) + x /\ x \in 1 .. Len(w)
      <4>1. i - Len(p) \in 1 .. k /\ i = Len(p) + (i - Len(p))
        BY <1>1, <2>2
      <4>2. \A x \in 1 .. k : x \in 1 .. Len(w)
        BY <1>1
      <4> QED  BY <4>1, <4>2
    <3> QED  BY <1>1, <1>2, <1>4, <1>5, <3>1
  <2> QED  BY <2>1, <2>2
<1>7. p \o cut = SubSeq(s, 1, j)
  BY <1>4, <1>5, <1>6, SeqEqual
<1> QED  BY <1>3, <1>7 DEF s, cut

LEMMA JoinCutUnits ==
  \A p, w \in Seq(Unit) : \A k \in 0 .. Len(w) :
    \E j \in 0 .. Len(p \o w) : p \o SubSeq(w, 1, k) = SubSeq(p \o w, 1, j)
  BY JoinCut

LEMMA WireBreak ==
  ASSUME LinkIInv, NEW d \in Conn, NEW k \in 0 .. Len(wire[d]), Break(d, k)
  PROVE  WireInv'
<1> DEFINE cut == SubSeq(wire[d], 1, k)
<1>0. /\ wire \in [Conn -> Seq(Unit)] /\ proc \in [Conn -> Seq(Unit)]
      /\ open \subseteq Conn /\ alive \subseteq Conn /\ d \in open
  BY LinkAssumption DEF LinkIInv, WireInv, WireTypes, LinkInv, Conn, Break
<1>1. /\ wire' = [wire EXCEPT ![d] = cut] /\ UNCHANGED <<open, known, proc, got>> /\ alive' = alive \ {d}
  BY DEF Break
<1>2. wire[d] \in Seq(Unit) /\ proc[d] \in Seq(Unit) /\ cut \in Seq(Unit)
  BY <1>0, FrontOf
<1>3. PICK j \in 0 .. Len(Stretch(d)) : proc[d] \o cut = SubSeq(Stretch(d), 1, j)
  BY <1>2, JoinCut DEF Stretch
<1>4. Fits(d \in known, proc[d] \o cut)
  <2>1. PICK b \in BOOLEAN : b = (d \in known)
    BY IsIn
  <2>2. Fits(b, Stretch(d)) /\ Stretch(d) \in Seq(Unit)
    BY <1>0, <1>2, <2>1 DEF LinkIInv, WireInv, WireFits, Stretch
  <2>3. Fits(b, SubSeq(Stretch(d), 1, j))
    BY <2>2, FitsCut
  <2> QED  BY <1>3, <2>1, <2>3
<1> HIDE DEF cut
<1>5. wire'[d] = cut /\ proc'[d] = proc[d] /\ known' = known
  BY <1>0, <1>1
<1>6. WireTypes'
  BY <1>0, <1>1, <1>2 DEF LinkIInv, WireInv, WireTypes
<1>7. \A c \in Conn \ {d} : wire'[c] = wire[c] /\ proc'[c] = proc[c] /\ (c \in known' <=> c \in known)
  BY <1>0, <1>1
<1>8. d \in open' => Fits(d \in known', proc'[d] \o wire'[d])
  BY <1>4, <1>5
<1>9. /\ open' \ {d} \subseteq open /\ alive' \ {d} \subseteq alive /\ got' = got
      /\ open' \subseteq Conn /\ alive' \subseteq Conn /\ d \notin alive'
  BY <1>0, <1>1
<1> QED  BY <1>6, <1>7, <1>8, <1>9, WireElsewhere

LEMMA WireRunToEnd ==
  ASSUME LinkIInv, NEW d \in Conn, RunToEnd(d)
  PROVE  WireInv'
<1>0. /\ wire \in [Conn -> Seq(Unit)] /\ proc \in [Conn -> Seq(Unit)]
      /\ open \subseteq Conn /\ alive \subseteq Conn
  BY LinkAssumption DEF LinkIInv, WireInv, WireTypes, LinkInv, Conn
<1>1. /\ wire' = [wire EXCEPT ![d] = << >>] /\ proc' = [proc EXCEPT ![d] = << >>]
      /\ known' = known \ {d} /\ open' = open \ {d} /\ alive' = alive /\ d \notin alive /\ got' = got
  BY DEF RunToEnd
<1>2. WireTypes'
  BY <1>0, <1>1 DEF LinkIInv, WireInv, WireTypes
<1>3. \A c \in Conn \ {d} : wire'[c] = wire[c] /\ proc'[c] = proc[c] /\ (c \in known' <=> c \in known)
  BY <1>0, <1>1
<1>4. /\ open' \ {d} \subseteq open /\ alive' \ {d} \subseteq alive
      /\ open' \subseteq Conn /\ alive' \subseteq Conn /\ d \notin alive' /\ d \notin open'
  BY <1>0, <1>1
<1> QED  BY <1>1, <1>2, <1>3, <1>4, WireElsewhere

LEMMA JoinSplit ==
  ASSUME NEW S, NEW q \in Seq(S), NEW u \in Seq(S)
  PROVE  \A i \in DOMAIN (q \o u) : \/ i \in DOMAIN q /\ (q \o u)[i] = q[i]
                                   \/ \E j \in DOMAIN u : (q \o u)[i] = u[j]
<1> TAKE i \in DOMAIN (q \o u)
<1>1. /\ Len(q) \in Nat /\ Len(u) \in Nat /\ DOMAIN (q \o u) = 1 .. Len(q) + Len(u)
      /\ DOMAIN q = 1 .. Len(q) /\ DOMAIN u = 1 .. Len(u)
  OBVIOUS
<1>2. CASE i <= Len(q)
  BY <1>1, <1>2
<1>3. CASE i > Len(q)
  <2>1. i - Len(q) \in 1 .. Len(u) /\ (q \o u)[i] = u[i - Len(q)]
    BY <1>1, <1>3
  <2> QED  BY <1>1, <2>1
<1> QED  BY <1>1, <1>2, <1>3

LEMMA WireRun ==
  ASSUME LinkIInv, NEW d \in Conn, NEW k \in 0 .. Len(wire[d]), Run(d, k)
  PROVE  WireInv'
<1> DEFINE body == Body(d)
           first == Rest(body) \o SubSeq(wire[d], 1, k)
           last == SubSeq(wire[d], k + 1, Len(wire[d]))
           later == d \in known \/ proc[d] # << >>
<1>0. /\ wire \in [Conn -> Seq(Unit)] /\ proc \in [Conn -> Seq(Unit)] /\ got \in Seq(Seq(Unit))
      /\ open \subseteq Conn /\ alive \subseteq Conn /\ d \in open
      /\ wire[d] \in Seq(Unit) /\ proc[d] \in Seq(Unit)
  BY LinkAssumption DEF LinkIInv, WireInv, WireTypes, LinkInv, Conn, Run
<1>1. /\ wire' = [wire EXCEPT ![d] = last] /\ proc' = [proc EXCEPT ![d] = first]
      /\ got' = got \o Segments(body) /\ UNCHANGED <<open, alive>>
      /\ known' = IF d \notin known /\ proc[d] # << >> THEN known \cup {d} ELSE known
  BY DEF Run, Unregistered
<1>2. body = IF d \notin known /\ proc[d] # << >> THEN Tail(proc[d]) ELSE proc[d]
  BY DEF Body, Unregistered
<1>3. PICK b \in BOOLEAN : b = (d \in known)
  BY IsIn
<1>4. PICK l \in BOOLEAN : l = later /\ l = (d \in known')
  <2>1. PICK x \in BOOLEAN : x = (d \in known')
    BY IsIn
  <2>2. (d \in known') = later
    BY <1>1
  <2> QED  BY <2>1, <2>2
<1> HIDE DEF body
<1>5. /\ body \in Seq(Unit)
      /\ ~ l => first \o last = Stretch(d)
      /\ l => /\ StreamOf(b, Stretch(d)) = body \o wire[d] /\ Started(b, Stretch(d))
              /\ first \o last = SubSeq(body \o wire[d], Complete(body) * MsgLen + 1, Len(body \o wire[d]))
  <2>1. PICK q \in Seq(Unit) : q = proc[d]
    BY <1>0
  <2>2. PICK w \in Seq(Unit) : w = wire[d]
    BY <1>0
  <2>3. body = IF ~ b /\ q # << >> THEN Tail(q) ELSE q
    BY <1>2, <1>3, <2>1
  <2>4. l = (b \/ q # << >>)
    BY <1>3, <1>4, <2>1
  <2>5. PICK r : r = (Rest(body) \o SubSeq(w, 1, k)) \o SubSeq(w, k + 1, Len(w))
    OBVIOUS
  <2>6. k \in 0 .. Len(w)
    BY <2>2
  <2>7. /\ body \in Seq(Unit)
        /\ ~ l => r = q \o w
        /\ l => /\ StreamOf(b, q \o w) = body \o w /\ Started(b, q \o w)
                /\ r = SubSeq(body \o w, Complete(body) * MsgLen + 1, Len(body \o w))
    <3>1. PICK B : B = body
      OBVIOUS
    <3> HIDE DEF first, last, later
    <3>2. Ran(b, q, w, k, B, l, r)
      BY <2>3, <2>4, <2>5, <3>1 DEF Ran
    <3>3. RanWell(b, q, w, B, l, r)
      BY <2>6, <3>2, FitsRun
    <3> QED  BY <3>1, <3>3 DEF RanWell
  <2>8. first \o last = r /\ q \o w = Stretch(d)
    BY <2>1, <2>2, <2>5 DEF Stretch
  <2> QED  BY <2>2, <2>7, <2>8
<1>6. first \in Seq(Unit) /\ last \in Seq(Unit)
  <2> HIDE DEF body
  <2> QED  BY <1>0, <1>5, Rejoin
<1>7. Fits(b, Stretch(d)) /\ (d \in alive => Full(b, Stretch(d)))
  BY <1>0, <1>3 DEF LinkIInv, WireInv, WireFits
<1>8. Chunked(body)
  <2> HIDE DEF body
  <2>1. CASE l
    <3>1. Chunked(body \o wire[d]) /\ body \o wire[d] \in Seq(Unit)
      <4>1. body \o wire[d] \in Seq(Unit)
        BY <1>0, <1>5
      <4>2. Chunked(StreamOf(b, Stretch(d))) /\ StreamOf(b, Stretch(d)) = body \o wire[d]
        BY <1>5, <1>7, <2>1 DEF Fits
      <4> QED  BY <4>1, <4>2
    <3>2. Len(body) \in 0 .. Len(body \o wire[d]) /\ SubSeq(body \o wire[d], 1, Len(body)) = body
      <4>1. /\ Len(body) \in Nat /\ Len(wire[d]) \in Nat /\ Len(body \o wire[d]) = Len(body) + Len(wire[d])
            /\ \A i \in 1 .. Len(body) : (body \o wire[d])[i] = body[i]
        BY <1>0, <1>5
      <4>2. Len(body) \in 0 .. Len(body \o wire[d])
        BY <4>1
      <4>3. /\ SubSeq(body \o wire[d], 1, Len(body)) \in Seq(Unit)
            /\ Len(SubSeq(body \o wire[d], 1, Len(body))) = Len(body)
            /\ \A i \in 1 .. Len(body) : SubSeq(body \o wire[d], 1, Len(body))[i] = (body \o wire[d])[i]
        BY <3>1, <4>2, FrontOf
      <4> QED  BY <1>5, <4>1, <4>2, <4>3, SeqEqual
    <3>3. Chunked(SubSeq(body \o wire[d], 1, Len(body)))
      BY <3>1, <3>2, ChunksCut
    <3> QED  BY <3>2, <3>3
  <2>2. CASE ~ l
    <3>1. body = << >>
      BY <1>2, <1>4, <2>2
    <3>2. Len(<< >>) = 0 /\ \A i \in Nat : i * MsgLen \in Nat
      BY Times
    <3> QED  BY <3>1, <3>2 DEF Chunked
  <2> QED  BY <2>1, <2>2
<1> HIDE DEF body, first, last, later
<1>9. Fits(l, first \o last) /\ (d \in alive => Full(l, first \o last))
  <2>1. CASE ~ l
    <3>1. ~ b
      BY <1>3, <1>4, <2>1 DEF later
    <3> QED  BY <1>5, <1>7, <2>1, <3>1
  <2>2. CASE l
    <3> DEFINE s == body \o wire[d]
    <3>1. s \in Seq(Unit) /\ Chunked(s) /\ (d \in alive => Whole(s))
      <4>1. s \in Seq(Unit)
        BY <1>0, <1>5
      <4>2. StreamOf(b, Stretch(d)) = s /\ Started(b, Stretch(d))
        BY <1>5, <2>2
      <4>3. Chunked(StreamOf(b, Stretch(d))) /\ (d \in alive => Whole(StreamOf(b, Stretch(d))))
        BY <1>7, <4>2 DEF Fits, Full
      <4> HIDE DEF s
      <4> QED  BY <4>1, <4>2, <4>3
    <3>2. Complete(body) \in Nat /\ Complete(body) * MsgLen <= Len(s)
      <4>1. /\ Complete(body) \in Nat /\ Complete(body) * MsgLen \in 0 .. Len(body) /\ Len(body) \in Nat
        BY <1>5, Cutting
      <4>2. Len(s) = Len(body) + Len(wire[d]) /\ Len(wire[d]) \in Nat
        BY <1>0, <1>5
      <4> QED  BY <4>1, <4>2
    <3>3. first \o last = SubSeq(s, Complete(body) * MsgLen + 1, Len(s))
      BY <1>5, <2>2
    <3> HIDE DEF s
    <3>4. Chunked(first \o last) /\ (d \in alive => Whole(first \o last))
      BY <3>1, <3>2, <3>3, ChunksLeft, WholeLess
    <3> QED  BY <2>2, <3>4 DEF Fits, Full, Started, StreamOf
  <2> QED  BY <2>1, <2>2
<1>10. Segments(body) \in Seq(Seq(Unit))
  BY <1>5, <1>8, SegmentsWhole
<1>11. WireTypes'
  BY <1>0, <1>1, <1>6, <1>10 DEF WireTypes
<1>12. GotWhole'
  <2>1. \A i \in DOMAIN Segments(body) : \E m \in 1 .. MaxMsgs :
          Segments(body)[i] = Units(m) /\ Units(m)[1][1] = m
    BY <1>5, <1>8, SegmentsWhole
  <2>2. \A i \in DOMAIN got' : \/ i \in DOMAIN got /\ got'[i] = got[i]
                             \/ \E j \in DOMAIN Segments(body) : got'[i] = Segments(body)[j]
    BY <1>0, <1>1, <1>10, JoinSplit
  <2> QED  BY <2>1, <2>2 DEF LinkIInv, WireInv, GotWhole
<1>13. wire'[d] = last /\ proc'[d] = first
  BY <1>0, <1>1
<1>14. \A c \in Conn \ {d} : wire'[c] = wire[c] /\ proc'[c] = proc[c] /\ (c \in known' <=> c \in known)
  BY <1>0, <1>1
<1>15. ASSUME NEW c \in open'
       PROVE  /\ Fits(c \in known', proc'[c] \o wire'[c])
              /\ c \in alive' => Full(c \in known', proc'[c] \o wire'[c])
  <2>1. CASE c = d
    BY <1>1, <1>4, <1>9, <1>13, <2>1
  <2>2. CASE c # d
    <3>1. /\ c \in open /\ wire'[c] = wire[c] /\ proc'[c] = proc[c]
          /\ (c \in known') = (c \in known) /\ alive' = alive
      BY <1>0, <1>1, <1>14, <2>2
    <3>2. Fits(c \in known, Stretch(c)) /\ (c \in alive => Full(c \in known, Stretch(c)))
      BY <3>1 DEF LinkIInv, WireInv, WireFits
    <3> QED  BY <3>1, <3>2 DEF Stretch
  <2> QED  BY <2>1, <2>2
<1>16. alive' \subseteq open'
  BY <1>1 DEF LinkIInv, LinkInv
<1> QED  BY <1>11, <1>12, <1>15, <1>16 DEF WireInv, WireFits, Stretch

LEMMA NextWire == LinkIInv /\ [Next]_vars => WireInv'
<1> SUFFICES ASSUME LinkIInv, [Next]_vars PROVE WireInv'
  OBVIOUS
<1>1. ASSUME UNCHANGED linkVars PROVE WireInv'
  BY <1>1, WireSame DEF linkVars
<1>2. CASE ClientNotices
  BY <1>2, WireSame DEF ClientNotices
<1>3. CASE Connect
  BY <1>3, WireConnect
<1>4. CASE SendPacket
  BY <1>4, WireSendPacket
<1>5. ASSUME NEW k \in 0 .. MsgLen - 1, SendFails(k) PROVE WireInv'
  BY <1>5, WireSendFails
<1>6. ASSUME NEW c \in Conn, RunToEnd(c) PROVE WireInv'
  BY <1>6, WireRunToEnd
<1>7. ASSUME NEW c \in Conn, NEW k \in 0 .. Len(wire[c]), Run(c, k) PROVE WireInv'
  BY <1>7, WireRun
<1>8. ASSUME NEW c \in Conn, NEW k \in 0 .. Len(wire[c]), Break(c, k) PROVE WireInv'
  BY <1>8, WireBreak
<1>9. CASE ClientStep
  BY <1>1, <1>2, <1>3, <1>4, <1>5, <1>9 DEF ClientStep
<1>10. CASE ServerStep
  BY <1>6, <1>7, <1>10 DEF ServerStep
<1>11. CASE UNCHANGED vars
  BY <1>1, <1>11 DEF vars
<1> QED  BY <1>8, <1>9, <1>10, <1>11 DEF Next

LEMMA LinkInvariant == Spec => []LinkIInv
<1>1. Init => LinkIInv
  <2>1. Init => PoolInit
    BY DEF Init
  <2> QED  BY <2>1, InitInv, InitLinkInv, InitWire DEF LinkIInv
<1>2. LinkIInv /\ [Next]_vars => LinkIInv'
  <2> SUFFICES ASSUME LinkIInv, [Next]_vars PROVE LinkIInv'
    OBVIOUS
  <2>1. LinkInv'
    BY NextLinkInv DEF LinkIInv
  <2>2. IInv'
    BY LinkStepsPool, NextInv DEF LinkIInv
  <2>3. WireInv'
    BY NextWire
  <2> QED  BY <2>1, <2>2, <2>3 DEF LinkIInv
<1> QED  BY <1>1, <1>2, PTL DEF Spec

\* The server takes for a message only what is one, from its first to its last unit,
\* wherever connections break and however what arrives is cut (SingleRun, RunToEnd:
\* what is left of a broken connection is dropped, CustomWorkSocket.cpp:119-197).
THEOREM OnlyWholeMessages == Spec => []OnlyWhole
<1>1. LinkIInv => OnlyWhole
  BY DEF LinkIInv, WireInv, GotWhole, OnlyWhole
<1> QED  BY LinkInvariant, <1>1, PTL

-----------------------------------------------------------------------------
(* The messages of a stream, by their numbers *)

Nums(q) == Numbers(Segments(q))

LEMMA CompleteIs ==
  ASSUME NEW q \in Seq(Unit), NEW n \in Nat, n * MsgLen <= Len(q), Len(q) < n * MsgLen + MsgLen
  PROVE  Complete(q) = n
<1>1. PICK c \in Nat : c = Complete(q)
  BY Cutting
<1>2. PICK x \in Nat : x = c * MsgLen
  BY Times
<1>3. PICK y \in Nat : y = n * MsgLen
  BY Times
<1>4. Len(q) \in Nat /\ x <= Len(q) /\ Len(q) < x + MsgLen /\ y <= Len(q) /\ Len(q) < y + MsgLen
  BY <1>1, <1>2, <1>3, Cutting
<1>5. (c < n => x + MsgLen <= y) /\ (n < c => y + MsgLen <= x)
  BY <1>2, <1>3, Times
<1>6. c = n
  BY <1>4, <1>5, Times
<1> QED  BY <1>1, <1>6

LEMMA SeqFromMap ==
  ASSUME NEW S, NEW n \in Nat, NEW f \in [1 .. n -> S]
  PROVE  f \in Seq(S) /\ Len(f) = n
  OBVIOUS

\* The number of a message is in its first unit.
LEMMA NumsOf ==
  ASSUME NEW q \in Seq(Unit), Chunked(q)
  PROVE  /\ Nums(q) \in Seq(1 .. MaxMsgs) /\ Len(Nums(q)) = Complete(q) /\ Complete(q) \in Nat
         /\ \A h \in Nat : h < Complete(q) =>
              /\ h * MsgLen \in 0 .. Len(q) - 1
              /\ Nums(q)[h + 1] = q[h * MsgLen + 1][1]
<1>0. Complete(q) \in Nat /\ Len(q) \in Nat /\ Complete(q) * MsgLen \in 0 .. Len(q)
  BY Cutting
<1>1. DOMAIN Segments(q) = 1 .. Complete(q)
  BY DEF Segments
<1>2. Nums(q) = [i \in 1 .. Complete(q) |-> Segments(q)[i][1][1]]
  BY <1>1 DEF Nums, Numbers
<1>3. \A i \in 1 .. Complete(q) : Segments(q)[i][1][1] \in 1 .. MaxMsgs
  BY SegmentsWhole
<1>4. Nums(q) \in [1 .. Complete(q) -> 1 .. MaxMsgs]
  BY <1>2, <1>3
<1>5. Nums(q) \in Seq(1 .. MaxMsgs) /\ Len(Nums(q)) = Complete(q)
  BY <1>0, <1>4, SeqFromMap
<1>6. ASSUME NEW h \in Nat, h < Complete(q)
      PROVE  h * MsgLen \in 0 .. Len(q) - 1 /\ Nums(q)[h + 1] = q[h * MsgLen + 1][1]
  <2>1. PICK a \in Nat : a = h * MsgLen
    BY Times
  <2>2. (h + 1) * MsgLen = a + MsgLen /\ a + MsgLen <= Len(q) /\ MsgLen \in Nat /\ MsgLen > 0
    <3>1. 1 * MsgLen = MsgLen /\ (h + 1) * MsgLen = h * MsgLen + 1 * MsgLen
      BY Times
    <3>2. h * MsgLen + MsgLen <= Complete(q) * MsgLen
      BY <1>0, <1>6, Times
    <3>3. a + MsgLen <= Complete(q) * MsgLen /\ MsgLen \in Nat /\ MsgLen > 0
      BY <2>1, <3>2, Times
    <3> QED  BY <1>0, <2>1, <3>1, <3>3
  <2>3. Segments(q)[h + 1] = SubSeq(q, a + 1, a + MsgLen)
    <3>1. h + 1 \in 1 .. Complete(q) /\ (h + 1) - 1 = h
      BY <1>0, <1>6
    <3>2. Segments(q)[h + 1] = SubSeq(q, ((h + 1) - 1) * MsgLen + 1, (h + 1) * MsgLen)
      BY <3>1 DEF Segments
    <3> QED  BY <2>1, <2>2, <3>1, <3>2
  <2>4. SubSeq(q, a + 1, a + MsgLen)[1] = q[a + 1]
    <3>1. /\ a + 1 \in Int /\ a + MsgLen \in Int /\ a + 1 <= a + MsgLen
          /\ 1 \in 1 .. (a + MsgLen) - (a + 1) + 1 /\ (a + 1) + 1 - 1 = a + 1
      BY <2>2
    <3>2. \A x \in a + 1 .. a + MsgLen : q[x] \in Unit
      <4>1. \A x \in a + 1 .. a + MsgLen : x \in 1 .. Len(q)
        BY <1>0, <2>2
      <4> QED  BY <4>1, ElementOfSeq
    <3>3. \A j \in 1 .. (a + MsgLen) - (a + 1) + 1 : SubSeq(q, a + 1, a + MsgLen)[j] = q[(a + 1) + j - 1]
      BY <3>1, <3>2, SubSeqProperties
    <3> QED  BY <3>1, <3>3
  <2>5. h + 1 \in 1 .. Complete(q)
    BY <1>0, <1>6
  <2>6. Nums(q)[h + 1] = q[a + 1][1]
    BY <1>2, <2>3, <2>4, <2>5
  <2>7. a \in 0 .. Len(q) - 1
    BY <1>0, <2>2
  <2> QED  BY <2>1, <2>6, <2>7
<1> QED  BY <1>0, <1>5, <1>6

\* A stream that is longer has the same messages, and more.
LEMMA NumsFront ==
  ASSUME NEW q \in Seq(Unit), Chunked(q), NEW r \in Seq(Unit), Chunked(r),
         Len(q) <= Len(r), \A i \in 1 .. Len(q) : r[i] = q[i]
  PROVE  /\ Complete(q) \in 0 .. Len(Nums(r))
         /\ Nums(q) = SubSeq(Nums(r), 1, Complete(q))
<1>0. PICK n \in Nat : n = Complete(q)
  BY Cutting
<1>1. PICK p \in Nat : p = Complete(r)
  BY Cutting
<1>2. n <= p
  <2> SUFFICES ASSUME p < n PROVE FALSE
    OBVIOUS
  <2>1. PICK a \in Nat : a = n * MsgLen
    BY Times
  <2>2. PICK b \in Nat : b = p * MsgLen
    BY Times
  <2>3. b + MsgLen <= a
    BY <2>1, <2>2, Times
  <2>4. a <= Len(q) /\ Len(r) < b + MsgLen /\ Len(q) \in Nat /\ Len(r) \in Nat
    BY <1>0, <1>1, <2>1, <2>2, Cutting
  <2> QED  BY <2>3, <2>4, Times
<1>3. /\ Nums(q) \in Seq(1 .. MaxMsgs) /\ Len(Nums(q)) = n
      /\ Nums(r) \in Seq(1 .. MaxMsgs) /\ Len(Nums(r)) = p
  BY <1>0, <1>1, NumsOf
<1>4. n \in 0 .. Len(Nums(r))
  BY <1>2, <1>3
<1>5. /\ SubSeq(Nums(r), 1, n) \in Seq(1 .. MaxMsgs) /\ Len(SubSeq(Nums(r), 1, n)) = n
      /\ \A i \in 1 .. n : SubSeq(Nums(r), 1, n)[i] = Nums(r)[i]
  BY <1>3, <1>4, FrontOf
<1>6. ASSUME NEW i \in 1 .. n
      PROVE  Nums(q)[i] = Nums(r)[i]
  <2>1. PICK h \in Nat : i = h + 1 /\ h < n /\ h < p
    <3>1. i - 1 \in Nat /\ i = (i - 1) + 1 /\ i - 1 < n /\ i - 1 < p
      BY <1>2
    <3> QED  BY <3>1
  <2>2. PICK a \in Nat : a = h * MsgLen
    BY Times
  <2>3. a \in 0 .. Len(q) - 1 /\ Nums(q)[h + 1] = q[a + 1][1] /\ Nums(r)[h + 1] = r[a + 1][1]
    BY <1>0, <1>1, <2>1, <2>2, NumsOf
  <2>4. a + 1 \in 1 .. Len(q)
    BY <2>3
  <2> QED  BY <2>1, <2>3, <2>4
<1>7. Nums(q) = SubSeq(Nums(r), 1, n)
  BY <1>3, <1>5, <1>6, SeqEqual
<1> QED  BY <1>0, <1>4, <1>7

\* A message that is sent after whole ones is the last, and a part of one is none.
LEMMA NumsMore ==
  ASSUME NEW q \in Seq(Unit), Chunked(q), Whole(q), NEW m \in 1 .. MaxMsgs
  PROVE  Nums(q \o Units(m)) = Append(Nums(q), m)
<1> DEFINE r == q \o Units(m)
<1>0. PICK n \in Nat : Len(q) = n * MsgLen
  BY DEF Whole
<1>1. PICK a \in Nat : a = n * MsgLen
  BY Times
<1>2. (n + 1) * MsgLen = a + MsgLen /\ MsgLen \in Nat /\ MsgLen > 0
  <2>1. (n + 1) * MsgLen = n * MsgLen + 1 * MsgLen /\ 1 * MsgLen = MsgLen
    BY Times
  <2> QED  BY <1>1, <2>1, Times
<1>3. /\ r \in Seq(Unit) /\ Len(r) = a + MsgLen
      /\ \A i \in 1 .. a : r[i] = q[i]
      /\ r[a + 1] = <<m, 1>>
  <2>1. Units(m) \in Seq(Unit) /\ Len(Units(m)) = MsgLen /\ Units(m)[1] = <<m, 1>>
    BY <1>2, UnitsOf
  <2>2. /\ r \in Seq(Unit) /\ Len(r) = Len(q) + Len(Units(m))
        /\ \A i \in 1 .. Len(q) : r[i] = q[i]
        /\ \A i \in 1 .. Len(Units(m)) : r[Len(q) + i] = Units(m)[i]
    <3>1. PICK u \in Seq(Unit) : u = Units(m)
      BY <2>1
    <3>2. /\ q \o u \in Seq(Unit) /\ Len(q \o u) = Len(q) + Len(u)
          /\ \A i \in 1 .. Len(q) : (q \o u)[i] = q[i]
          /\ \A i \in 1 .. Len(u) : (q \o u)[Len(q) + i] = u[i]
      BY JoinOf
    <3> QED  BY <3>1, <3>2
  <2>3. 1 \in 1 .. Len(Units(m)) /\ Len(q) = a
    BY <1>0, <1>1, <1>2, <2>1
  <2> HIDE DEF r
  <2> QED  BY <2>1, <2>2, <2>3
<1>4. Chunked(r)
  <2>1. SubSeq(Units(m), 1, MsgLen) = Units(m) /\ MsgLen \in 0 .. MsgLen
    BY <1>2, UnitsOf, SubSeqFull
  <2> QED  BY <2>1, ChunksSent
<1> HIDE DEF r
<1>5. Complete(q) = n
  <2>1. n * MsgLen <= Len(q) /\ Len(q) < n * MsgLen + MsgLen
    BY <1>0, <1>1, <1>2
  <2> QED  BY <2>1, CompleteIs
<1>6. Complete(r) = n + 1
  <2>1. n + 1 \in Nat /\ (n + 1) * MsgLen <= Len(r) /\ Len(r) < (n + 1) * MsgLen + MsgLen
    BY <1>2, <1>3
  <2> QED  BY <1>3, <2>1, CompleteIs
<1>7. Nums(q) = SubSeq(Nums(r), 1, n)
  <2>1. Len(q) <= Len(r) /\ \A i \in 1 .. Len(q) : r[i] = q[i]
    BY <1>0, <1>1, <1>2, <1>3
  <2> QED  BY <1>3, <1>4, <1>5, <2>1, NumsFront
<1>8. /\ Nums(q) \in Seq(1 .. MaxMsgs) /\ Len(Nums(q)) = n
      /\ Nums(r) \in Seq(1 .. MaxMsgs) /\ Len(Nums(r)) = n + 1
  BY <1>3, <1>4, <1>5, <1>6, NumsOf
<1>9. Nums(r)[n + 1] = m
  <2>1. Nums(r)[n + 1] = r[a + 1][1]
    <3>1. n < Complete(r)
      BY <1>6
    <3> QED  BY <1>1, <1>3, <1>4, <3>1, NumsOf
  <2> QED  BY <1>3, <2>1
<1>10. \A i \in 1 .. n : Nums(q)[i] = Nums(r)[i]
  <2>1. n \in 0 .. Len(Nums(r))
    BY <1>8
  <2> QED  BY <1>7, <1>8, <2>1, FrontOf
<1>11. /\ Append(Nums(q), m) \in Seq(1 .. MaxMsgs) /\ Len(Append(Nums(q), m)) = n + 1
       /\ \A i \in 1 .. n : Append(Nums(q), m)[i] = Nums(q)[i]
       /\ Append(Nums(q), m)[n + 1] = m
  BY <1>8
<1>12. \A i \in 1 .. n + 1 : i \in 1 .. n \/ i = n + 1
  OBVIOUS
<1>13. Nums(r) = Append(Nums(q), m)
  <2>1. \A i \in 1 .. n + 1 : Nums(r)[i] = Append(Nums(q), m)[i]
    BY <1>9, <1>10, <1>11, <1>12
  <2> QED  BY <1>8, <1>11, <2>1, SeqEqual
<1> QED  BY <1>13 DEF r

LEMMA NumsPart ==
  ASSUME NEW q \in Seq(Unit), Chunked(q), Whole(q), NEW m \in 1 .. MaxMsgs, NEW k \in 0 .. MsgLen - 1
  PROVE  Nums(q \o SubSeq(Units(m), 1, k)) = Nums(q)
<1> DEFINE r == q \o SubSeq(Units(m), 1, k)
<1>0. PICK n \in Nat : Len(q) = n * MsgLen
  BY DEF Whole
<1>1. PICK a \in Nat : a = n * MsgLen
  BY Times
<1>2. k \in 0 .. MsgLen /\ k < MsgLen /\ MsgLen \in Nat /\ MsgLen > 0
  BY Times
<1>3. /\ r \in Seq(Unit) /\ Len(r) = Len(q) + k /\ Len(q) \in Nat
      /\ \A i \in 1 .. Len(q) : r[i] = q[i]
  BY <1>2, SentAfter
<1>4. Chunked(r)
  BY <1>2, ChunksSent
<1> HIDE DEF r
<1>5. Complete(q) = n
  <2>1. n * MsgLen <= Len(q) /\ Len(q) < n * MsgLen + MsgLen
    BY <1>0, <1>1, <1>2
  <2> QED  BY <2>1, CompleteIs
<1>6. Complete(r) = n
  <2>1. n * MsgLen <= Len(r) /\ Len(r) < n * MsgLen + MsgLen
    BY <1>0, <1>1, <1>2, <1>3
  <2> QED  BY <1>3, <2>1, CompleteIs
<1>7. Nums(q) = SubSeq(Nums(r), 1, n)
  <2>1. Len(q) <= Len(r)
    BY <1>2, <1>3
  <2> QED  BY <1>3, <1>4, <1>5, <2>1, NumsFront
<1>8. Nums(r) \in Seq(1 .. MaxMsgs) /\ Len(Nums(r)) = n
  BY <1>3, <1>4, <1>6, NumsOf
<1>9. SubSeq(Nums(r), 1, n) = Nums(r)
  BY <1>8, SubSeqFull
<1> QED  BY <1>7, <1>9 DEF r

\* The first part of a stream has the first of its messages, ...
LEMMA NumsCut ==
  ASSUME NEW q \in Seq(Unit), Chunked(q), NEW k \in 0 .. Len(q)
  PROVE  \E n \in 0 .. Len(Nums(q)) : Nums(SubSeq(q, 1, k)) = SubSeq(Nums(q), 1, n)
<1> DEFINE r == SubSeq(q, 1, k)
<1>1. r \in Seq(Unit) /\ Len(r) = k /\ \A i \in 1 .. k : r[i] = q[i]
  BY FrontOf
<1>2. Chunked(r)
  BY ChunksCut
<1> HIDE DEF r
<1>3. Len(r) <= Len(q) /\ \A i \in 1 .. Len(r) : q[i] = r[i]
  BY <1>1
<1>4. /\ Complete(r) \in 0 .. Len(Nums(q)) /\ Nums(r) = SubSeq(Nums(q), 1, Complete(r))
  BY <1>1, <1>2, <1>3, NumsFront
<1> QED  BY <1>4 DEF r

\* ... and what follows whole messages has the others.
LEMMA NumsLeft ==
  ASSUME NEW q \in Seq(Unit), Chunked(q), NEW n \in Nat, n <= Complete(q)
  PROVE  Nums(SubSeq(q, n * MsgLen + 1, Len(q))) = SubSeq(Nums(q), n + 1, Len(Nums(q)))
<1>0. PICK a \in Nat : a = n * MsgLen
  BY Times
<1>1. PICK p \in Nat : p = Complete(q)
  BY Cutting
<1>2. PICK b \in Nat : b = p * MsgLen
  BY Times
<1>3. PICK d \in Nat : d = p - n /\ p = n + d
  BY <1>1
<1>4. PICK e \in Nat : e = d * MsgLen /\ b = a + e
  <2>1. d * MsgLen \in Nat /\ (n + d) * MsgLen = n * MsgLen + d * MsgLen
    BY Times
  <2> QED  BY <1>0, <1>2, <1>3, <2>1
<1>5. /\ b <= Len(q) /\ Len(q) < b + MsgLen /\ Len(q) \in Nat /\ a \in 0 .. Len(q)
      /\ MsgLen \in Nat /\ MsgLen > 0
  <2>1. MsgLen \in Nat /\ MsgLen > 0
    BY LinkAssumption
  <2>2. b \in 0 .. Len(q) /\ Len(q) < b + MsgLen /\ Len(q) \in Nat
    BY <1>1, <1>2, Cutting
  <2>3. a \in Nat /\ e \in Nat /\ b = a + e
    BY <1>4, Times
  <2> QED  BY <2>1, <2>2, <2>3
<1> DEFINE r == SubSeq(q, a + 1, Len(q))
<1>6. r \in Seq(Unit) /\ Len(r) = Len(q) - a /\ \A i \in 1 .. Len(q) - a : r[i] = q[a + i]
  BY <1>5, BackOf
<1>7. Chunked(r)
  BY <1>0, <1>5, ChunksLeft
<1> HIDE DEF r
<1>8. Complete(r) = d
  <2>1. d * MsgLen <= Len(r) /\ Len(r) < d * MsgLen + MsgLen
    BY <1>4, <1>5, <1>6
  <2> QED  BY <1>6, <2>1, CompleteIs
<1>9. /\ Nums(r) \in Seq(1 .. MaxMsgs) /\ Len(Nums(r)) = d
      /\ Nums(q) \in Seq(1 .. MaxMsgs) /\ Len(Nums(q)) = p
  BY <1>1, <1>6, <1>7, <1>8, NumsOf
<1> DEFINE t == SubSeq(Nums(q), n + 1, Len(Nums(q)))
<1>10. t \in Seq(1 .. MaxMsgs) /\ Len(t) = d /\ \A i \in 1 .. d : t[i] = Nums(q)[n + i]
  <2>1. n \in 0 .. Len(Nums(q)) /\ Len(Nums(q)) - n = d
    BY <1>3, <1>9
  <2> QED  BY <1>9, <2>1, BackOf
<1> HIDE DEF t
<1>11. ASSUME NEW i \in 1 .. d
       PROVE  Nums(r)[i] = t[i]
  <2>1. PICK h \in Nat : i = h + 1 /\ h < d
    <3>1. i - 1 \in Nat /\ i = (i - 1) + 1 /\ i - 1 < d
      OBVIOUS
    <3> QED  BY <3>1
  <2>2. PICK x \in Nat : x = h * MsgLen
    BY Times
  <2>3. n + h \in Nat /\ n + h < p /\ (n + h) * MsgLen = a + x
    BY <1>0, <1>3, <2>1, <2>2, Times
  <2>4. x \in 0 .. Len(r) - 1 /\ Nums(r)[h + 1] = r[x + 1][1]
    BY <1>6, <1>7, <1>8, <2>1, <2>2, NumsOf
  <2>5. Nums(q)[(n + h) + 1] = q[(a + x) + 1][1]
    BY <1>1, <2>3, NumsOf
  <2>6. x + 1 \in 1 .. Len(q) - a /\ a + (x + 1) = (a + x) + 1 /\ n + i = (n + h) + 1
    BY <1>5, <1>6, <2>1, <2>4
  <2>7. r[x + 1] = q[(a + x) + 1]
    BY <1>6, <2>6
  <2>8. t[i] = Nums(q)[(n + h) + 1]
    BY <1>10, <2>6
  <2> QED  BY <2>1, <2>4, <2>5, <2>7, <2>8
<1>12. Nums(r) = t
  BY <1>9, <1>10, <1>11, SeqEqual
<1> QED  BY <1>0, <1>12 DEF r, t

-----------------------------------------------------------------------------
(* What waits in the pool, by its numbers *)

From(o, n) == [i \in 1 .. n - o |-> o + i]

LEMMA FromOf ==
  ASSUME NEW o \in Nat, NEW n \in Nat, o <= n
  PROVE  /\ From(o, n) \in Seq(Nat) /\ Len(From(o, n)) = n - o
         /\ \A i \in 1 .. n - o : From(o, n)[i] = o + i
<1>1. n - o \in Nat
  OBVIOUS
<1>2. From(o, n) \in [1 .. n - o -> Nat]
  BY DEF From
<1>3. From(o, n) \in Seq(Nat) /\ Len(From(o, n)) = n - o
  BY <1>1, <1>2, SeqFromMap
<1>4. \A i \in 1 .. n - o : From(o, n)[i] = o + i
  BY DEF From
<1> QED  BY <1>3, <1>4

LEMMA PendingFrom ==
  IInv => /\ Pending = From(Len(out), submitted)
          /\ Len(out) \in Nat /\ submitted \in Nat /\ Len(out) <= submitted
<1> SUFFICES ASSUME IInv
             PROVE  /\ Pending = From(Len(out), submitted)
                    /\ Len(out) \in Nat /\ submitted \in Nat /\ Len(out) <= submitted
  OBVIOUS
<1> DEFINE rest == SubSeq(sending, sent + 1, Len(sending))
<1>0. /\ sending \in Seq(Packet) /\ appended \in Seq(Packet) /\ sent \in 0 .. Len(sending)
      /\ submitted = Len(out) + Len(sending) - sent + Len(appended)
      /\ Len(out) \in Nat /\ Len(sending) \in Nat /\ Len(appended) \in Nat /\ submitted \in Nat
  BY Places DEF IInv, PoolTypeOK, InSequence
<1>1. /\ rest \in Seq(Packet) /\ Len(rest) = Len(sending) - sent
      /\ \A i \in 1 .. Len(sending) - sent : rest[i] = sending[sent + i]
  BY <1>0, BackOf
<1>2. Waiting = rest \o appended
  BY DEF Waiting
<1> HIDE DEF rest
<1>3. /\ Waiting \in Seq(Packet) /\ Len(Waiting) = submitted - Len(out)
      /\ \A i \in 1 .. Len(rest) : Waiting[i] = rest[i]
      /\ \A i \in 1 .. Len(appended) : Waiting[Len(rest) + i] = appended[i]
  <2>1. /\ rest \o appended \in Seq(Packet) /\ Len(rest \o appended) = Len(rest) + Len(appended)
        /\ \A i \in 1 .. Len(rest) : (rest \o appended)[i] = rest[i]
        /\ \A i \in 1 .. Len(appended) : (rest \o appended)[Len(rest) + i] = appended[i]
    <3>1. rest \in Seq(Packet) /\ appended \in Seq(Packet)
      BY <1>0, <1>1
    <3> QED  BY <3>1, JoinOf
  <2>2. Len(rest) + Len(appended) = submitted - Len(out)
    BY <1>0, <1>1
  <2> QED  BY <1>2, <2>1, <2>2
<1>4. ASSUME NEW i \in 1 .. submitted - Len(out)
      PROVE  holds[Waiting[i]] = Len(out) + i
  <2>1. CASE i \in 1 .. Len(rest)
    <3>1. sent + i \in sent + 1 .. Len(sending) /\ Waiting[i] = sending[sent + i]
      <4>1. Len(rest) = Len(sending) - sent /\ sent \in Nat /\ Len(sending) \in Nat
        BY <1>0, <1>1
      <4>2. sent + i \in sent + 1 .. Len(sending) /\ i \in 1 .. Len(sending) - sent
        BY <2>1, <4>1
      <4>3. Waiting[i] = rest[i]
        BY <1>3, <2>1
      <4>4. rest[i] = sending[sent + i]
        BY <1>1, <4>2
      <4> QED  BY <4>2, <4>3, <4>4
    <3>2. holds[sending[sent + i]] = Len(out) + (sent + i) - sent
      BY <3>1 DEF IInv, InSequence
    <3> QED  BY <1>0, <3>1, <3>2
  <2>2. CASE i \notin 1 .. Len(rest)
    <3>1. PICK j \in 1 .. Len(appended) : i = Len(rest) + j
      <4>1. i - Len(rest) \in 1 .. Len(appended) /\ i = Len(rest) + (i - Len(rest))
        BY <1>0, <1>1, <2>2
      <4> QED  BY <4>1
    <3>2. holds[appended[j]] = Len(out) + Len(sending) - sent + j
      BY <3>1 DEF IInv, InSequence
    <3>3. Waiting[i] = appended[j]
      BY <1>3, <3>1
    <3> QED  BY <1>0, <1>1, <3>1, <3>2, <3>3
  <2> QED  BY <2>1, <2>2
<1>5. DOMAIN Waiting = 1 .. submitted - Len(out)
  BY <1>3
<1>6. Pending = [i \in 1 .. submitted - Len(out) |-> Len(out) + i]
  BY <1>4, <1>5 DEF Pending
<1> QED  BY <1>0, <1>6 DEF From

\* A message is submitted.
LEMMA FromMore ==
  ASSUME NEW o \in Nat, NEW n \in Nat, o <= n
  PROVE  From(o, n + 1) = Append(From(o, n), n + 1)
<1>1. /\ From(o, n) \in Seq(Nat) /\ Len(From(o, n)) = n - o
      /\ \A i \in 1 .. n - o : From(o, n)[i] = o + i
  BY FromOf
<1>2. /\ From(o, n + 1) \in Seq(Nat) /\ Len(From(o, n + 1)) = (n + 1) - o
      /\ \A i \in 1 .. (n + 1) - o : From(o, n + 1)[i] = o + i
  <2>1. n + 1 \in Nat /\ o <= n + 1
    OBVIOUS
  <2> QED  BY <2>1, FromOf
<1>3. PICK p \in Seq(Nat) : p = From(o, n)
  BY <1>1
<1>4. /\ Append(p, n + 1) \in Seq(Nat) /\ Len(Append(p, n + 1)) = (n + 1) - o
      /\ \A i \in 1 .. n - o : Append(p, n + 1)[i] = o + i
      /\ Append(p, n + 1)[(n - o) + 1] = n + 1
  BY <1>1, <1>3
<1>5. \A i \in 1 .. (n + 1) - o : i \in 1 .. n - o \/ (i = (n - o) + 1 /\ o + i = n + 1)
  OBVIOUS
<1>6. \A i \in 1 .. (n + 1) - o : From(o, n + 1)[i] = Append(p, n + 1)[i]
  BY <1>2, <1>4, <1>5
<1>7. From(o, n + 1) = Append(p, n + 1)
  BY <1>2, <1>4, <1>6, SeqEqual
<1> QED  BY <1>3, <1>7

\* The first message that waits is taken.
LEMMA FromHead ==
  ASSUME NEW o \in Nat, NEW n \in Nat, o < n
  PROVE  /\ From(o, n) # << >>
         /\ Head(From(o, n)) = o + 1
         /\ Tail(From(o, n)) = From(o + 1, n)
<1>1. /\ From(o, n) \in Seq(Nat) /\ Len(From(o, n)) = n - o
      /\ \A i \in 1 .. n - o : From(o, n)[i] = o + i
  BY FromOf
<1>2. /\ From(o + 1, n) \in Seq(Nat) /\ Len(From(o + 1, n)) = n - (o + 1)
      /\ \A i \in 1 .. n - (o + 1) : From(o + 1, n)[i] = (o + 1) + i
  <2>1. o + 1 \in Nat /\ o + 1 <= n
    OBVIOUS
  <2> QED  BY <2>1, FromOf
<1>3. PICK f \in Seq(Nat) : f = From(o, n)
  BY <1>1
<1>4. Len(f) = n - o /\ \A i \in 1 .. n - o : f[i] = o + i
  BY <1>1, <1>3
<1>5. f # << >> /\ 1 \in 1 .. n - o
  BY <1>4
<1>6. Head(f) = o + 1
  BY <1>4, <1>5
<1>7. /\ Tail(f) \in Seq(Nat) /\ Len(Tail(f)) = n - (o + 1)
      /\ \A i \in 1 .. n - (o + 1) : Tail(f)[i] = f[i + 1]
  <2>1. Tail(f) \in Seq(Nat) /\ Len(Tail(f)) = Len(f) - 1
    BY <1>5
  <2>2. \A i \in 1 .. Len(f) - 1 : Tail(f)[i] = f[i + 1]
    BY <1>5
  <2>3. Len(f) - 1 = n - (o + 1)
    BY <1>4
  <2> QED  BY <2>1, <2>2, <2>3
<1>8. ASSUME NEW i \in 1 .. n - (o + 1)
      PROVE  Tail(f)[i] = From(o + 1, n)[i]
  <2>1. i + 1 \in 1 .. n - o /\ o + (i + 1) = (o + 1) + i
    OBVIOUS
  <2> QED  BY <1>2, <1>4, <1>7, <2>1
<1>9. Tail(f) = From(o + 1, n)
  BY <1>2, <1>7, <1>8, SeqEqual
<1> QED  BY <1>3, <1>5, <1>6, <1>9

-----------------------------------------------------------------------------
(* What is ahead on a connection, as a function of its stretch *)

AheadOf(isKnown, s) == IF Started(isKnown, s) THEN Nums(StreamOf(isKnown, s)) ELSE << >>

LEMMA NothingWhole ==
  << >> \in Seq(Unit) /\ Chunked(<< >>) /\ Whole(<< >>) /\ Complete(<< >>) = 0 /\ Nums(<< >>) = << >>
<1>1. << >> \in Seq(Unit) /\ Len(<< >>) = 0
  OBVIOUS
<1>2. 0 \in Nat /\ 0 * MsgLen = 0 /\ MsgLen > 0 /\ \A i \in Nat : i * MsgLen \in Nat
  BY Times
<1>3. Chunked(<< >>) /\ Whole(<< >>)
  BY <1>1, <1>2 DEF Chunked, Whole
<1>4. Complete(<< >>) = 0
  <2>1. 0 * MsgLen <= Len(<< >>) /\ Len(<< >>) < 0 * MsgLen + MsgLen
    BY <1>1, <1>2, Times
  <2> QED  BY <1>1, <1>2, <2>1, CompleteIs
<1>5. Nums(<< >>) \in Seq(1 .. MaxMsgs) /\ Len(Nums(<< >>)) = 0
  BY <1>1, <1>3, <1>4, NumsOf
<1> QED  BY <1>1, <1>3, <1>4, <1>5

LEMMA AheadTyped ==
  ASSUME NEW b \in BOOLEAN, NEW s \in Seq(Unit), Fits(b, s)
  PROVE  AheadOf(b, s) \in Seq(Nat)
<1>1. CASE Started(b, s)
  <2>1. StreamOf(b, s) \in Seq(Unit) /\ Chunked(StreamOf(b, s))
    BY <1>1, StreamJoin, EmptySeq DEF Fits
  <2>2. Nums(StreamOf(b, s)) \in Seq(1 .. MaxMsgs)
    BY <2>1, NumsOf
  <2>3. 1 .. MaxMsgs \subseteq Nat
    BY PoolAssumption
  <2> QED  BY <1>1, <2>2, <2>3, SeqMonotonic DEF AheadOf
<1>2. CASE ~ Started(b, s)
  BY <1>2 DEF AheadOf
<1> QED  BY <1>1, <1>2

\* A message is sent, or a part of one.
LEMMA AheadSent ==
  ASSUME NEW b \in BOOLEAN, NEW s \in Seq(Unit), Fits(b, s), Full(b, s), NEW m \in 1 .. MaxMsgs
  PROVE  /\ AheadOf(b, s \o Units(m)) = Append(AheadOf(b, s), m)
         /\ \A k \in 0 .. MsgLen - 1 : AheadOf(b, s \o SubSeq(Units(m), 1, k)) = AheadOf(b, s)
<1>1. PICK z \in Seq(Unit) : z = StreamOf(b, s)
  BY StreamJoin, EmptySeq DEF Full
<1>2. Chunked(z) /\ Whole(z) /\ Started(b, s)
  BY <1>1 DEF Fits, Full
<1>3. AheadOf(b, s) = Nums(z)
  BY <1>1, <1>2 DEF AheadOf
<1>4. AheadOf(b, s \o Units(m)) = Nums(z \o Units(m))
  <2>1. PICK u \in Seq(Unit) : u = Units(m)
    BY UnitsOf
  <2>2. Started(b, s \o u) /\ StreamOf(b, s \o u) = z \o u
    <3>1. Started(b, s) /\ u \in Seq(Unit)
      BY <1>2
    <3>2. Started(b, s \o u) /\ StreamOf(b, s \o u) = StreamOf(b, s) \o u
      BY <3>1, StreamJoin
    <3> QED  BY <1>1, <3>2
  <2> QED  BY <2>1, <2>2 DEF AheadOf
<1>5. ASSUME NEW k \in 0 .. MsgLen - 1
      PROVE  AheadOf(b, s \o SubSeq(Units(m), 1, k)) = AheadOf(b, s)
  <2>1. PICK u \in Seq(Unit) : u = SubSeq(Units(m), 1, k)
    <3>1. k \in 0 .. Len(Units(m)) /\ Units(m) \in Seq(Unit)
      BY UnitsOf, Times
    <3>2. SubSeq(Units(m), 1, k) \in Seq(Unit)
      BY <3>1, FrontOf
    <3> QED  BY <3>2
  <2>2. Started(b, s \o u) /\ StreamOf(b, s \o u) = z \o u
    <3>1. Started(b, s) /\ u \in Seq(Unit)
      BY <1>2
    <3>2. Started(b, s \o u) /\ StreamOf(b, s \o u) = StreamOf(b, s) \o u
      BY <3>1, StreamJoin
    <3> QED  BY <1>1, <3>2
  <2>3. AheadOf(b, s \o u) = Nums(z \o u)
    BY <2>2 DEF AheadOf
  <2>4. Nums(z \o SubSeq(Units(m), 1, k)) = Nums(z)
    BY <1>2, NumsPart
  <2> QED  BY <1>3, <2>1, <2>3, <2>4
<1> QED  BY <1>2, <1>3, <1>4, <1>5, NumsMore

\* The end of a stretch is lost.
LEMMA AheadCut ==
  ASSUME NEW b \in BOOLEAN, NEW s \in Seq(Unit), Fits(b, s), NEW k \in 0 .. Len(s)
  PROVE  \E n \in 0 .. Len(AheadOf(b, s)) :
           AheadOf(b, SubSeq(s, 1, k)) = SubSeq(AheadOf(b, s), 1, n)
<1>1. PICK a \in Seq(Nat) : a = AheadOf(b, s)
  BY AheadTyped
<1>2. CASE Started(b, SubSeq(s, 1, k))
  <2>1. Started(b, s)
    BY <1>2 DEF Started
  <2>2. PICK z \in Seq(Unit) : z = StreamOf(b, s)
    BY <2>1, StreamJoin, EmptySeq
  <2>3. PICK j \in 0 .. Len(z) : StreamOf(b, SubSeq(s, 1, k)) = SubSeq(z, 1, j)
    BY <1>2, <2>1, <2>2, StreamCut
  <2>4. Chunked(z) /\ a = Nums(z)
    BY <1>1, <2>1, <2>2 DEF Fits, AheadOf
  <2>5. PICK n \in 0 .. Len(Nums(z)) : Nums(SubSeq(z, 1, j)) = SubSeq(Nums(z), 1, n)
    BY <2>4, NumsCut
  <2>6. AheadOf(b, SubSeq(s, 1, k)) = Nums(SubSeq(z, 1, j))
    BY <1>2, <2>3 DEF AheadOf
  <2> QED  BY <1>1, <2>4, <2>5, <2>6
<1>3. CASE ~ Started(b, SubSeq(s, 1, k))
  <2>1. AheadOf(b, SubSeq(s, 1, k)) = << >>
    BY <1>3 DEF AheadOf
  <2>2. 0 \in 0 .. Len(a) /\ SubSeq(a, 1, 0) = << >>
    BY EmptySeq
  <2> QED  BY <1>1, <2>1, <2>2
<1> QED  BY <1>2, <1>3

Divided(a, x, y) == \E n \in 0 .. Len(a) : x = SubSeq(a, 1, n) /\ y = SubSeq(a, n + 1, Len(a))

\* The server handles what is complete.
LEMMA AheadRan ==
  ASSUME NEW q \in Seq(Unit), NEW w \in Seq(Unit), NEW b \in BOOLEAN, NEW k \in 0 .. Len(w),
         NEW body, NEW later \in BOOLEAN, NEW r, Ran(b, q, w, k, body, later, r), Fits(b, q \o w)
  PROVE  /\ Chunked(body) /\ body \in Seq(Unit)
         /\ Divided(AheadOf(b, q \o w), Nums(body), AheadOf(later, r))
<1>1. /\ body \in Seq(Unit)
      /\ ~ later => r = q \o w
      /\ later => /\ StreamOf(b, q \o w) = body \o w /\ Started(b, q \o w)
                  /\ r = SubSeq(body \o w, Complete(body) * MsgLen + 1, Len(body \o w))
  <2>1. RanWell(b, q, w, body, later, r)
    BY FitsRun
  <2> QED  BY <2>1 DEF RanWell
<1>2. PICK s \in Seq(Unit) : s = q \o w
  BY JoinOf, Zenon
<1>3. PICK a \in Seq(Nat) : a = AheadOf(b, s)
  BY <1>2, AheadTyped
<1>4. CASE ~ later
  <2>1. ~ b /\ body = << >>
    BY <1>4 DEF Ran
  <2>2. AheadOf(later, r) = a
    <3>1. later = b /\ r = s
      BY <1>1, <1>2, <1>4, <2>1
    <3> QED  BY <1>3, <3>1
  <2>3. 0 \in 0 .. Len(a) /\ SubSeq(a, 1, 0) = << >>
    OBVIOUS
  <2>4. SubSeq(a, 0 + 1, Len(a)) = a
    BY SubSeqFull
  <2>5. Nums(body) = << >> /\ Chunked(body)
    BY <2>1, NothingWhole
  <2> QED  BY <1>1, <1>2, <1>3, <2>2, <2>3, <2>4, <2>5 DEF Divided
<1>5. CASE later
  <2>0. body \in Seq(Unit)
    BY <1>1
  <2>1. PICK z \in Seq(Unit) : z = body \o w
    BY <2>0, JoinOf, Zenon
  <2>2. StreamOf(b, s) = z /\ Started(b, s)
    BY <1>1, <1>2, <1>5, <2>1
  <2>3. Chunked(z) /\ a = Nums(z)
    BY <1>2, <1>3, <2>2 DEF Fits, AheadOf
  <2>4. Len(body) \in 0 .. Len(z) /\ Len(body) <= Len(z) /\ \A i \in 1 .. Len(body) : z[i] = body[i]
    BY <2>0, <2>1
  <2>5. SubSeq(z, 1, Len(body)) = body
    <3>1. /\ SubSeq(z, 1, Len(body)) \in Seq(Unit) /\ Len(SubSeq(z, 1, Len(body))) = Len(body)
          /\ \A i \in 1 .. Len(body) : SubSeq(z, 1, Len(body))[i] = z[i]
      BY <2>4, FrontOf
    <3> QED  BY <2>0, <2>4, <3>1, SeqEqual
  <2>6. Chunked(body)
    <3>1. Chunked(SubSeq(z, 1, Len(body)))
      BY <2>3, <2>4, ChunksCut
    <3> QED  BY <2>5, <3>1
  <2>7. PICK n \in Nat : n = Complete(body)
    BY <2>0, Cutting
  <2>8. n \in 0 .. Len(a) /\ Nums(body) = SubSeq(a, 1, n)
    BY <2>0, <2>3, <2>4, <2>6, <2>7, NumsFront
  <2>9. AheadOf(later, r) = Nums(r)
    BY <1>5 DEF AheadOf, Started, StreamOf
  <2>10. Nums(r) = SubSeq(a, n + 1, Len(a))
    <3>1. r = SubSeq(z, n * MsgLen + 1, Len(z))
      BY <1>1, <1>5, <2>1, <2>7
    <3>2. n <= Complete(z)
      <4>1. Len(a) = Complete(z)
        BY <2>3, NumsOf
      <4> QED  BY <2>8, <4>1
    <3> QED  BY <2>3, <3>1, <3>2, NumsLeft
  <2> QED  BY <1>2, <1>3, <2>0, <2>6, <2>8, <2>9, <2>10 DEF Divided
<1> QED  BY <1>4, <1>5

-----------------------------------------------------------------------------
(* The link is a channel *)

At(d, O, K, p, w) == IF d \in O THEN AheadOf(d \in K, p[d] \o w[d]) ELSE << >>

\* The messages ahead on every connection.
Streams == [c \in Conn |-> Ahead(c)]

LEMMA AheadIs == \A d \in Conn : Ahead(d) = At(d, open, known, proc, wire)
<1> TAKE d \in Conn
<1> DEFINE s == proc[d] \o wire[d]
<1>1. CASE d \in open /\ s # << >>
  BY <1>1 DEF Ahead, Stream, At, AheadOf, Started, StreamOf, Nums
<1>2. CASE d \in open /\ s = << >>
  <2>1. Nums(s) = << >>
    BY <1>2, NothingWhole
  <2>2. Ahead(d) = << >>
    BY <1>2 DEF Ahead
  <2>3. AheadOf(d \in known, s) = << >>
    BY <1>2, <2>1 DEF AheadOf, Started, StreamOf
  <2> QED  BY <1>2, <2>2, <2>3 DEF At
<1>3. CASE d \notin open
  BY <1>3 DEF Ahead, At
<1> QED  BY <1>1, <1>2, <1>3

LEMMA StreamsIs == Streams = [c \in Conn |-> At(c, open, known, proc, wire)]
BY AheadIs DEF Streams

LEMMA StreamsNext == Streams' = [c \in Conn |-> At(c, open', known', proc', wire')]
<1>1. (Streams = [c \in Conn |-> At(c, open, known, proc, wire)])'
  BY StreamsIs, PTL
<1> QED  BY <1>1

LEMMA PendingNext ==
  (IInv => /\ Pending = From(Len(out), submitted)
           /\ Len(out) \in Nat /\ submitted \in Nat /\ Len(out) <= submitted)'
  BY PendingFrom, PTL

\* What is known of a connection with an object at the server.
LEMMA OpenTyped ==
  ASSUME LinkIInv
  PROVE  /\ \A c \in open : /\ c \in Conn /\ c \in 1 .. made
                            /\ proc[c] \in Seq(Unit) /\ wire[c] \in Seq(Unit)
                            /\ Fits(c \in known, Stretch(c))
         /\ alive \subseteq open
         /\ alive \subseteq 1 .. made /\ made \in Nat
         /\ up # 0 => up = made /\ made \in Conn /\ made > 0
<1>1. \A c \in open : /\ c \in Conn /\ c \in 1 .. made
                      /\ proc[c] \in Seq(Unit) /\ wire[c] \in Seq(Unit)
                      /\ Fits(c \in known, Stretch(c))
  BY LinkAssumption DEF LinkIInv, LinkInv, WireInv, WireTypes, WireFits, Conn
<1>2. alive \subseteq open /\ alive \subseteq 1 .. made /\ made \in Nat
  BY LinkAssumption DEF LinkIInv, LinkInv
<1>3. up # 0 => up = made /\ made \in Conn /\ made > 0
  BY LinkAssumption DEF LinkIInv, LinkInv, Conn
<1> QED  BY <1>1, <1>2, <1>3

LEMMA AtTyped ==
  ASSUME LinkIInv, NEW d \in Conn
  PROVE  At(d, open, known, proc, wire) \in Seq(Nat)
<1>1. CASE d \in open
  <2>1. PICK b \in BOOLEAN : b = (d \in known)
    BY IsIn
  <2>2. PICK s \in Seq(Unit) : s = proc[d] \o wire[d]
    <3>1. proc[d] \in Seq(Unit) /\ wire[d] \in Seq(Unit)
      BY <1>1, OpenTyped
    <3> QED  BY <3>1, JoinOf, Zenon
  <2>3. Fits(b, s)
    <3>1. Fits(d \in known, Stretch(d))
      BY <1>1, OpenTyped
    <3> QED  BY <2>1, <2>2, <3>1 DEF Stretch
  <2>4. AheadOf(b, s) \in Seq(Nat)
    BY <2>3, AheadTyped
  <2>5. At(d, open, known, proc, wire) = AheadOf(b, proc[d] \o wire[d])
    BY <1>1, <2>1 DEF At
  <2> QED  BY <2>2, <2>4, <2>5
<1>2. CASE d \notin open
  BY <1>2, EmptySeq DEF At
<1> QED  BY <1>1, <1>2

LEMMA StreamTyped ==
  ASSUME LinkIInv, NEW d \in Conn
  PROVE  Streams[d] = At(d, open, known, proc, wire) /\ Streams[d] \in Seq(Nat)
<1>1. Streams[d] = At(d, open, known, proc, wire)
  BY StreamsIs
<1> QED  BY <1>1, AtTyped

\* A step changes what is ahead on one connection only.
OnlyAt(d) ==
  \A c \in Conn \ {d} : /\ c \in open' <=> c \in open
                        /\ c \in known' <=> c \in known
                        /\ proc'[c] = proc[c] /\ wire'[c] = wire[c]

LEMMA StreamsOnlyAt ==
  ASSUME NEW d \in Conn, OnlyAt(d), NEW x, At(d, open', known', proc', wire') = x
  PROVE  Streams' = [Streams EXCEPT ![d] = x]
<1>1. \A c \in Conn \ {d} : At(c, open', known', proc', wire') = At(c, open, known, proc, wire)
  BY DEF OnlyAt, At, AheadOf, Started, StreamOf
<1>2. \A c \in Conn \ {d} : Streams'[c] = Streams[c]
  BY <1>1, StreamsIs, StreamsNext
<1>3. Streams'[d] = x
  BY StreamsNext
<1>4. Streams = [c \in Conn |-> Streams[c]] /\ Streams' = [c \in Conn |-> Streams'[c]]
  <2>1. Streams = [c \in Conn |-> Streams[c]]
    BY StreamsIs
  <2>2. Streams' = [c \in Conn |-> Streams'[c]]
    BY StreamsNext
  <2> QED  BY <2>1, <2>2
<1>5. PICK f, g : f = Streams /\ g = Streams'
  OBVIOUS
<1>6. g = [f EXCEPT ![d] = x]
  <2>1. f = [c \in Conn |-> f[c]] /\ g = [c \in Conn |-> g[c]]
    BY <1>4, <1>5
  <2>2. g[d] = x /\ \A c \in Conn \ {d} : g[c] = f[c]
    BY <1>2, <1>3, <1>5
  <2> QED  BY <2>1, <2>2
<1> QED  BY <1>5, <1>6

LEMMA StreamsKept ==
  ASSUME NEW d \in Conn, OnlyAt(d), At(d, open', known', proc', wire') = At(d, open, known, proc, wire)
  PROVE  Streams' = Streams
<1>1. \A c \in Conn : At(c, open', known', proc', wire') = At(c, open, known, proc, wire)
  BY DEF OnlyAt, At, AheadOf, Started, StreamOf
<1> QED  BY <1>1, StreamsIs, StreamsNext

LEMMA StreamsSame ==
  ASSUME UNCHANGED <<open, known, proc, wire>>
  PROVE  Streams' = Streams
BY StreamsIs, StreamsNext

LinkStep == [Link!Next]_(Link!vars)
Broken == 1 .. made \ alive

\* A step that the channel does not see.
LEMMA Unseen ==
  ASSUME Pending' = Pending, Streams' = Streams, UNCHANGED <<got, made, alive, submitted>>
  PROVE  LinkStep
<1>1. Numbers(got)' = Numbers(got) /\ (1 .. made \ alive)' = 1 .. made \ alive
  BY DEF Numbers
<1> QED  BY <1>1 DEF LinkStep, Link!vars, Streams

\* A connection is broken, and of what was ahead the first n messages are left.
LEMMA Breaks ==
  ASSUME LinkIInv, NEW d \in Conn, d \in 1 .. made, NEW n \in 0 .. Len(Streams[d]),
         Streams' = [Streams EXCEPT ![d] = SubSeq(Streams[d], 1, n)],
         Broken' = Broken \cup {d},
         Pending' = Pending, UNCHANGED <<got, made, submitted>>
  PROVE  LinkStep
<1>1. Numbers(got)' = Numbers(got)
  BY DEF Numbers
<1>2. Link!Break(d, n)
  BY <1>1 DEF Link!Break, Broken, Streams
<1>3. \E c \in 1 .. made : \E i \in 0 .. Len(Streams[c]) : Link!Break(c, i)
  BY <1>2
<1> QED  BY <1>3 DEF LinkStep, Link!Next, Streams

\* What the writers do, and what the thread of the socket does with its list.
LEMMA StepPool ==
  ASSUME LinkIInv, IInv', UNCHANGED linkVars,
         \/ \E w \in Writer : Write(w)
         \/ Flush \/ Reclaim \/ UNCHANGED poolVars
  PROVE  LinkStep
<1>1. /\ Pending = From(Len(out), submitted)
      /\ Len(out) \in Nat /\ submitted \in Nat /\ Len(out) <= submitted
  BY PendingFrom DEF LinkIInv
<1>2. Pending' = From(Len(out'), submitted')
  BY PendingNext
<1>3. Streams' = Streams /\ UNCHANGED <<got, alive, made>>
  BY StreamsSame DEF linkVars
<1>4. ASSUME NEW w \in Writer, SubmitPacket(w) PROVE LinkStep
  <2>1. out' = out /\ submitted' = submitted + 1
    BY <1>4 DEF SubmitPacket
  <2>2. Pending' = Append(Pending, submitted + 1)
    BY <1>1, <1>2, <2>1, FromMore
  <2>3. Numbers(got)' = Numbers(got) /\ (1 .. made \ alive)' = 1 .. made \ alive
    BY <1>3 DEF Numbers
  <2>4. Link!Submit
    BY <1>3, <2>1, <2>2, <2>3 DEF Link!Submit, Streams
  <2> QED  BY <2>4 DEF LinkStep, Link!Next
<1>5. CASE out' = out /\ submitted' = submitted
  BY <1>1, <1>2, <1>3, <1>5, Unseen
<1>6. \/ out' = out /\ submitted' = submitted
      \/ \E w \in Writer : SubmitPacket(w)
  BY DEF Write, Alloc, GiveBack, Flush, Reclaim, poolVars
<1> QED  BY <1>4, <1>5, <1>6

LEMMA StepNotices ==
  ASSUME LinkIInv, IInv', ClientNotices
  PROVE  LinkStep
<1>1. UNCHANGED <<open, known, proc, wire, got, made, alive, submitted, out>>
  BY DEF ClientNotices, poolVars
<1>2. Pending' = Pending
  BY <1>1, PendingFrom, PendingNext DEF LinkIInv
<1>3. Streams' = Streams
  BY <1>1, StreamsSame
<1> QED  BY <1>1, <1>2, <1>3, Unseen

LEMMA StepConnect ==
  ASSUME LinkIInv, IInv', Connect
  PROVE  LinkStep
<1> DEFINE d == made + 1
<1>1. /\ up = 0 /\ made < MaxConns /\ made' = d /\ open' = open \cup {d} /\ known' = known /\ proc' = proc
      /\ wire' = [wire EXCEPT ![d] = <<Registration>>] /\ alive' = alive \cup {d}
      /\ got' = got /\ submitted' = submitted /\ out' = out
  BY DEF Connect, poolVars
<1>2. d \in Conn /\ d \notin 1 .. made /\ made \in Nat
  <2>1. made \in 0 .. MaxConns /\ made < MaxConns
    BY <1>1 DEF LinkIInv, LinkInv
  <2> QED  BY <2>1, LinkAssumption DEF Conn
<1>3. /\ proc[d] = << >> /\ d \notin known /\ d \notin open
      /\ alive \subseteq 1 .. made /\ (made > 0 => made \in 1 .. made \ alive)
  BY <1>1, <1>2 DEF LinkIInv, LinkInv
<1>4. wire \in [Conn -> Seq(Unit)]
  BY DEF LinkIInv, WireInv, WireTypes
<1>5. (1 .. made \ alive)' = 1 .. made \ alive
  <2>1. 1 .. d = (1 .. made) \cup {d}
    BY <1>2
  <2> HIDE DEF d
  <2>2. 1 .. made' = (1 .. made) \cup {d}
    BY <1>1, <2>1
  <2> QED  BY <1>1, <1>2, <1>3, <2>2
<1> HIDE DEF d
<1>6. At(d, open', known', proc', wire') = << >>
  <2>1. proc'[d] \o wire'[d] = <<Registration>>
    <3>1. <<Registration>> \in Seq(Unit)
      BY DEF Registration, Unit
    <3>2. wire'[d] = <<Registration>> /\ proc'[d] = << >>
      BY <1>1, <1>2, <1>3, <1>4
    <3> QED  BY <3>1, <3>2
  <2>2. FALSE = (d \in known') /\ d \in open'
    BY <1>1, <1>3
  <2>3. At(d, open', known', proc', wire') = AheadOf(FALSE, proc'[d] \o wire'[d])
    BY <2>2 DEF At
  <2>4. AheadOf(FALSE, <<Registration>>) = << >>
    <3>1. Tail(<<Registration>>) = << >> /\ <<Registration>> # << >>
      OBVIOUS
    <3> QED  BY <3>1, NothingWhole DEF AheadOf, Started, StreamOf
  <2> QED  BY <2>1, <2>3, <2>4
<1>7. At(d, open, known, proc, wire) = << >>
  BY <1>3 DEF At
<1>8. OnlyAt(d)
  BY <1>1, <1>4 DEF OnlyAt
<1>9. Streams' = Streams
  BY <1>2, <1>6, <1>7, <1>8, StreamsKept
<1>10. Pending' = Pending
  BY <1>1, PendingFrom, PendingNext DEF LinkIInv
<1>11. Numbers(got)' = Numbers(got)
  BY <1>1 DEF Numbers
<1>12. made' = made + 1
  BY <1>1 DEF d
<1>13. Link!Connect
  BY <1>1, <1>3, <1>5, <1>9, <1>10, <1>11, <1>12 DEF Link!Connect, Streams
<1> QED  BY <1>13 DEF LinkStep, Link!Next

\* The packet whose turn it is has the next message.
LEMMA NextIsTurn ==
  ASSUME IInv, IsSending
  PROVE  /\ holds[Turn] \in 1 .. MaxMsgs /\ holds[Turn] = Len(out) + 1
         /\ Len(out) < submitted /\ Len(out) \in Nat /\ submitted \in Nat
         /\ Len(Append(out, holds[Turn])) = Len(out) + 1
<1>1. /\ sent \in Nat /\ Len(sending) \in Nat /\ Len(appended) \in Nat /\ Len(out) \in Nat
      /\ submitted \in Nat /\ sent < Len(sending)
  BY Places DEF IsSending
<1>2. out \in Seq(Nat) /\ submitted = Len(out) + Len(sending) - sent + Len(appended)
  BY DEF IInv, InSequence
<1>3. holds[Turn] = Len(out) + (sent + 1) - sent
  BY <1>1 DEF IInv, InSequence, Turn
<1>4. holds[Turn] = Len(out) + 1 /\ Len(out) < submitted
  BY <1>1, <1>2, <1>3
<1>5. Len(Append(out, holds[Turn])) = Len(out) + 1
  BY <1>1, <1>2, <1>4
<1> QED  BY <1>1, <1>4, <1>5, TurnHolds

\* Units that come after a stretch.
LEMMA AtMore ==
  ASSUME LinkIInv, NEW d, d \in open, NEW u \in Seq(Unit),
         wire' = [wire EXCEPT ![d] = @ \o u], UNCHANGED <<open, known, proc>>
  PROVE  /\ OnlyAt(d)
         /\ \E b \in BOOLEAN : \E s \in Seq(Unit) :
              /\ s = Stretch(d) /\ b = (d \in known)
              /\ At(d, open, known, proc, wire) = AheadOf(b, s)
              /\ At(d, open', known', proc', wire') = AheadOf(b, s \o u)
<1>1. d \in Conn /\ proc[d] \in Seq(Unit) /\ wire[d] \in Seq(Unit)
  BY OpenTyped
<1>2. wire \in [Conn -> Seq(Unit)]
  BY DEF LinkIInv, WireInv, WireTypes
<1>3. PICK b \in BOOLEAN : b = (d \in known)
  BY IsIn
<1>4. Stretch(d) \in Seq(Unit)
  BY <1>1, JoinOf DEF Stretch
<1>5. proc'[d] \o wire'[d] = Stretch(d) \o u
  <2>1. (proc[d] \o wire[d]) \o u = proc[d] \o (wire[d] \o u)
    BY <1>1, Regroup, ZenonT(60)
  <2>2. wire'[d] = wire[d] \o u /\ proc'[d] = proc[d]
    BY <1>1, <1>2
  <2> QED  BY <2>1, <2>2 DEF Stretch
<1>6. At(d, open, known, proc, wire) = AheadOf(b, Stretch(d))
  BY <1>3 DEF At, Stretch
<1>7. At(d, open', known', proc', wire') = AheadOf(b, Stretch(d) \o u)
  <2>1. At(d, open', known', proc', wire') = AheadOf(d \in known, proc'[d] \o wire'[d])
    BY DEF At
  <2> QED  BY <1>3, <1>5, <2>1
<1>8. OnlyAt(d)
  BY <1>2 DEF OnlyAt
<1> QED  BY <1>3, <1>4, <1>6, <1>7, <1>8

LEMMA StepSendPacket ==
  ASSUME LinkIInv, IInv', SendPacket
  PROVE  LinkStep
<1>0. IInv /\ IsSending
  BY DEF LinkIInv, SendPacket, PacketDone
<1>1. Pending = From(Len(out), submitted)
  BY <1>0, PendingFrom
<1>2. PICK m \in 1 .. MaxMsgs : m = holds[Turn]
  BY <1>0, NextIsTurn
<1>3. m = Len(out) + 1 /\ Len(out) < submitted /\ Len(out) \in Nat /\ submitted \in Nat
  BY <1>0, <1>2, NextIsTurn
<1>4. /\ up # 0 /\ Len(out') = Len(out) + 1 /\ submitted' = submitted
      /\ UNCHANGED <<made, alive, open, known, proc, got>>
      /\ wire' = IF up \in alive THEN [wire EXCEPT ![up] = @ \o Units(m)] ELSE wire
  <2>1. m # 0
    BY <1>3
  <2>2. out' = Append(out, m)
    BY <1>2, <2>1 DEF SendPacket, PacketDone
  <2>3. Len(out') = Len(out) + 1
    BY <1>0, <1>2, <2>2, NextIsTurn
  <2> QED  BY <1>2, <2>3 DEF SendPacket, PacketDone
<1>5. Pending # << >> /\ Head(Pending) = m /\ Pending' = Tail(Pending)
  <2>1. Pending' = From(Len(out) + 1, submitted)
    BY <1>4, PendingNext
  <2> QED  BY <1>1, <1>3, <2>1, FromHead
<1>6. up = made /\ made \in Conn /\ made > 0
  BY <1>4, OpenTyped
<1>7. Streams' = IF made \in 1 .. made \ alive THEN Streams
                 ELSE [Streams EXCEPT ![made] = Append(Streams[made], m)]
  <2>1. CASE up \in alive
    <3>1. up \in open /\ Units(m) \in Seq(Unit)
      BY <2>1, OpenTyped, UnitsOf
    <3>2. wire' = [wire EXCEPT ![up] = @ \o Units(m)]
      BY <1>4, <2>1
    <3>3. PICK b \in BOOLEAN, s \in Seq(Unit) :
            /\ s = Stretch(up) /\ b = (up \in known)
            /\ At(up, open, known, proc, wire) = AheadOf(b, s)
            /\ At(up, open', known', proc', wire') = AheadOf(b, s \o Units(m))
      BY <1>4, <3>1, <3>2, AtMore
    <3>4. OnlyAt(up)
      BY <1>4, <3>1, <3>2, AtMore
    <3>5. Fits(b, s) /\ Full(b, s)
      BY <2>1, <3>1, <3>3 DEF LinkIInv, WireInv, WireFits
    <3>6. At(up, open', known', proc', wire') = Append(Streams[up], m)
      <4>1. AheadOf(b, s \o Units(m)) = Append(AheadOf(b, s), m)
        BY <3>5, AheadSent
      <4>2. Streams[up] = AheadOf(b, s)
        BY <1>6, <3>3, StreamTyped
      <4> QED  BY <3>3, <4>1, <4>2
    <3>7. Streams' = [Streams EXCEPT ![up] = Append(Streams[up], m)]
      BY <1>6, <3>4, <3>6, StreamsOnlyAt
    <3> QED  BY <1>6, <2>1, <3>7
  <2>2. CASE up \notin alive
    <3>1. Streams' = Streams
      BY <1>4, <2>2, StreamsSame
    <3>2. made \in 1 .. made \ alive
      BY <1>6, <2>2, OpenTyped
    <3> QED  BY <3>1, <3>2
  <2> QED  BY <2>1, <2>2
<1>8. Numbers(got)' = Numbers(got) /\ (1 .. made \ alive)' = 1 .. made \ alive
  BY <1>4 DEF Numbers
<1>9. Link!Send
  BY <1>4, <1>5, <1>6, <1>7, <1>8 DEF Link!Send, Streams
<1> QED  BY <1>9 DEF LinkStep, Link!Next

LEMMA StepSendFails ==
  ASSUME LinkIInv, IInv', NEW k \in 0 .. MsgLen - 1, SendFails(k)
  PROVE  LinkStep
<1>0. IInv /\ IsSending
  BY DEF LinkIInv, SendFails, GiveUp
<1>1. PICK m \in 1 .. MaxMsgs : m = holds[Turn]
  BY <1>0, NextIsTurn
<1>2. /\ up # 0 /\ out' = out /\ submitted' = submitted /\ alive' = alive \ {up}
      /\ UNCHANGED <<made, open, known, proc, got>>
      /\ wire' = IF up \in alive THEN [wire EXCEPT ![up] = @ \o SubSeq(Units(m), 1, k)] ELSE wire
  BY <1>1 DEF SendFails, GiveUp
<1>3. up = made /\ made \in Conn /\ made \in 1 .. made
  BY <1>2, OpenTyped
<1>4. Streams' = Streams
  <2>1. CASE up \in alive
    <3>1. PICK u \in Seq(Unit) : u = SubSeq(Units(m), 1, k)
      <4>1. k \in 0 .. Len(Units(m)) /\ Units(m) \in Seq(Unit)
        <5>1. Len(Units(m)) = MsgLen /\ Units(m) \in Seq(Unit)
          BY UnitsOf
        <5> QED  BY <5>1, Times
      <4>2. SubSeq(Units(m), 1, k) \in Seq(Unit)
        BY <4>1, FrontOf
      <4> QED  BY <4>2
    <3>2. up \in open /\ wire' = [wire EXCEPT ![up] = @ \o u]
      BY <1>2, <2>1, <3>1, OpenTyped
    <3>3. PICK b \in BOOLEAN, s \in Seq(Unit) :
            /\ s = Stretch(up) /\ b = (up \in known)
            /\ At(up, open, known, proc, wire) = AheadOf(b, s)
            /\ At(up, open', known', proc', wire') = AheadOf(b, s \o u)
      BY <1>2, <3>2, AtMore
    <3>4. OnlyAt(up)
      BY <1>2, <3>2, AtMore
    <3>5. Fits(b, s) /\ Full(b, s)
      BY <2>1, <3>2, <3>3 DEF LinkIInv, WireInv, WireFits
    <3>6. AheadOf(b, s \o SubSeq(Units(m), 1, k)) = AheadOf(b, s)
      BY <3>5, AheadSent
    <3>7. At(up, open', known', proc', wire') = At(up, open, known, proc, wire)
      BY <3>1, <3>3, <3>6
    <3> QED  BY <1>3, <3>4, <3>7, StreamsKept
  <2>2. CASE up \notin alive
    BY <1>2, <2>2, StreamsSame
  <2> QED  BY <2>1, <2>2
<1>5. Pending' = Pending
  BY <1>0, <1>2, PendingFrom, PendingNext
<1>6. Broken' = Broken \cup {made}
  BY <1>2, <1>3 DEF Broken
<1>7. PICK n \in 0 .. Len(Streams[made]) :
        Streams' = [Streams EXCEPT ![made] = SubSeq(Streams[made], 1, n)]
  <2>1. PICK a \in Seq(Nat) : a = Streams[made]
    BY <1>3, StreamTyped
  <2>2. SubSeq(a, 1, Len(a)) = a /\ Len(a) \in 0 .. Len(a)
    BY SubSeqFull
  <2>3. Streams = [Streams EXCEPT ![made] = Streams[made]]
    BY <1>3 DEF Streams
  <2>4. Streams' = [Streams EXCEPT ![made] = SubSeq(a, 1, Len(a))]
    BY <1>4, <2>1, <2>2, <2>3
  <2> QED  BY <2>1, <2>2, <2>4
<1> QED  BY <1>2, <1>3, <1>5, <1>6, <1>7, Breaks

LEMMA StepRunToEnd ==
  ASSUME LinkIInv, IInv', NEW d \in Conn, RunToEnd(d)
  PROVE  LinkStep
<1>1. /\ open' = open \ {d} /\ known' = known \ {d} /\ d \in open /\ d \notin alive
      /\ proc' = [proc EXCEPT ![d] = << >>] /\ wire' = [wire EXCEPT ![d] = << >>]
      /\ UNCHANGED <<got, alive, made, submitted, out>>
  BY DEF RunToEnd, poolVars
<1>2. d \in 1 .. made
  BY <1>1, OpenTyped
<1>3. OnlyAt(d)
  <2>1. wire \in [Conn -> Seq(Unit)] /\ proc \in [Conn -> Seq(Unit)]
    BY DEF LinkIInv, WireInv, WireTypes
  <2> QED  BY <1>1, <2>1 DEF OnlyAt
<1>4. At(d, open', known', proc', wire') = << >>
  BY <1>1 DEF At
<1>5. Streams' = [Streams EXCEPT ![d] = << >>]
  BY <1>3, <1>4, StreamsOnlyAt
<1>6. 0 \in 0 .. Len(Streams[d]) /\ SubSeq(Streams[d], 1, 0) = << >>
  <2>1. PICK a \in Seq(Nat) : a = Streams[d]
    BY StreamTyped
  <2>2. 0 \in 0 .. Len(a) /\ SubSeq(a, 1, 0) = << >>
    OBVIOUS
  <2> QED  BY <2>1, <2>2
<1>7. Pending' = Pending
  BY <1>1, PendingFrom, PendingNext DEF LinkIInv
<1>8. Broken' = Broken \cup {d}
  BY <1>1, <1>2 DEF Broken
<1>9. Streams' = [Streams EXCEPT ![d] = SubSeq(Streams[d], 1, 0)]
  BY <1>5, <1>6
<1> QED  BY <1>1, <1>2, <1>6, <1>7, <1>8, <1>9, Breaks

LEMMA StepBreak ==
  ASSUME LinkIInv, IInv', NEW d \in Conn, NEW k \in 0 .. Len(wire[d]), Break(d, k)
  PROVE  LinkStep
<1> DEFINE cut == SubSeq(wire[d], 1, k)
<1>1. /\ wire' = [wire EXCEPT ![d] = cut] /\ d \in alive /\ alive' = alive \ {d}
      /\ UNCHANGED <<made, open, known, proc, got, submitted, out>>
  BY DEF Break, poolVars
<1>2. d \in open /\ d \in 1 .. made /\ proc[d] \in Seq(Unit) /\ wire[d] \in Seq(Unit)
  BY <1>1, OpenTyped
<1>3. PICK b \in BOOLEAN : b = (d \in known)
  BY IsIn
<1>4. PICK s \in Seq(Unit) : s = Stretch(d)
  BY <1>2, JoinOf, Zenon DEF Stretch
<1>5. PICK j \in 0 .. Len(s) : proc[d] \o cut = SubSeq(s, 1, j)
  <2>1. \E j \in 0 .. Len(proc[d] \o wire[d]) : proc[d] \o cut = SubSeq(proc[d] \o wire[d], 1, j)
    <3>1. PICK p \in Seq(Unit) : p = proc[d]
      BY <1>2
    <3>2. PICK w \in Seq(Unit) : w = wire[d] /\ k \in 0 .. Len(w)
      BY <1>2
    <3>3. \E j \in 0 .. Len(p \o w) : p \o SubSeq(w, 1, k) = SubSeq(p \o w, 1, j)
      BY <3>2, JoinCutUnits, Zenon
    <3> QED  BY <3>1, <3>2, <3>3
  <2> QED  BY <1>4, <2>1 DEF Stretch
<1>6. Fits(b, s)
  BY <1>2, <1>3, <1>4, OpenTyped
<1>7. PICK n \in 0 .. Len(AheadOf(b, s)) : AheadOf(b, SubSeq(s, 1, j)) = SubSeq(AheadOf(b, s), 1, n)
  BY <1>6, AheadCut
<1> HIDE DEF cut
<1>8. Streams[d] = AheadOf(b, s)
  <2>1. At(d, open, known, proc, wire) = AheadOf(b, s)
    BY <1>2, <1>3, <1>4 DEF At, Stretch
  <2> QED  BY <2>1, StreamTyped
<1>9. wire \in [Conn -> Seq(Unit)]
  BY DEF LinkIInv, WireInv, WireTypes
<1>10. At(d, open', known', proc', wire') = AheadOf(b, SubSeq(s, 1, j))
  <2>1. wire'[d] = cut /\ proc'[d] = proc[d]
    BY <1>1, <1>9
  <2>2. At(d, open', known', proc', wire') = AheadOf(d \in known, proc[d] \o cut)
    BY <1>1, <1>2, <2>1 DEF At
  <2> QED  BY <1>3, <1>5, <2>2
<1>11. OnlyAt(d)
  BY <1>1, <1>9 DEF OnlyAt
<1>12. Streams' = [Streams EXCEPT ![d] = SubSeq(Streams[d], 1, n)]
  BY <1>7, <1>8, <1>10, <1>11, StreamsOnlyAt
<1>13. Pending' = Pending
  BY <1>1, PendingFrom, PendingNext DEF LinkIInv
<1>14. Broken' = Broken \cup {d}
  BY <1>1, <1>2 DEF Broken
<1>15. n \in 0 .. Len(Streams[d])
  BY <1>8
<1> QED  BY <1>1, <1>2, <1>12, <1>13, <1>14, <1>15, Breaks

LEMMA NumbersJoin ==
  ASSUME NEW S, NEW g \in Seq(S), NEW t \in Seq(S)
  PROVE  Numbers(g \o t) = Numbers(g) \o Numbers(t)
<1>1. /\ g \o t \in Seq(S) /\ Len(g \o t) = Len(g) + Len(t) /\ Len(g) \in Nat /\ Len(t) \in Nat
      /\ \A i \in 1 .. Len(g) : (g \o t)[i] = g[i]
      /\ \A i \in 1 .. Len(t) : (g \o t)[Len(g) + i] = t[i]
      /\ DOMAIN g = 1 .. Len(g) /\ DOMAIN t = 1 .. Len(t) /\ DOMAIN (g \o t) = 1 .. Len(g) + Len(t)
  OBVIOUS
<1> DEFINE N == {(g \o t)[i][1][1] : i \in DOMAIN (g \o t)}
<1>2. \A i \in 1 .. Len(g) : g[i][1][1] \in N
  <2> TAKE i \in 1 .. Len(g)
  <2>1. i \in DOMAIN (g \o t) /\ (g \o t)[i] = g[i]
    BY <1>1
  <2> QED  BY <2>1
<1>3. \A i \in 1 .. Len(t) : t[i][1][1] \in N
  <2> TAKE i \in 1 .. Len(t)
  <2>1. Len(g) + i \in DOMAIN (g \o t) /\ (g \o t)[Len(g) + i] = t[i]
    BY <1>1
  <2> QED  BY <2>1
<1> HIDE DEF N
<1>4. /\ Numbers(g) \in [1 .. Len(g) -> N] /\ Numbers(t) \in [1 .. Len(t) -> N]
      /\ \A i \in 1 .. Len(g) : Numbers(g)[i] = g[i][1][1]
      /\ \A i \in 1 .. Len(t) : Numbers(t)[i] = t[i][1][1]
  BY <1>1, <1>2, <1>3 DEF Numbers
<1>5. /\ Numbers(g \o t) \in [1 .. Len(g) + Len(t) -> N]
      /\ \A i \in 1 .. Len(g) + Len(t) : Numbers(g \o t)[i] = (g \o t)[i][1][1]
  BY <1>1 DEF Numbers, N
<1>6. /\ Numbers(g) \in Seq(N) /\ Len(Numbers(g)) = Len(g)
      /\ Numbers(t) \in Seq(N) /\ Len(Numbers(t)) = Len(t)
      /\ Numbers(g \o t) \in Seq(N) /\ Len(Numbers(g \o t)) = Len(g) + Len(t)
  <2>1. Len(g) + Len(t) \in Nat
    BY <1>1
  <2> QED  BY <1>1, <1>4, <1>5, <2>1, SeqFromMap
<1>7. PICK x \in Seq(N) : x = Numbers(g)
  BY <1>6
<1>8. PICK y \in Seq(N) : y = Numbers(t)
  BY <1>6
<1>9. /\ x \o y \in Seq(N) /\ Len(x \o y) = Len(x) + Len(y)
      /\ \A i \in 1 .. Len(x) : (x \o y)[i] = x[i]
      /\ \A i \in 1 .. Len(y) : (x \o y)[Len(x) + i] = y[i]
  BY JoinOf
<1>10. ASSUME NEW i \in 1 .. Len(g) + Len(t)
       PROVE  Numbers(g \o t)[i] = (x \o y)[i]
  <2>1. CASE i \in 1 .. Len(g)
    <3>1. Numbers(g \o t)[i] = g[i][1][1]
      BY <1>1, <1>5, <2>1
    <3>2. (x \o y)[i] = x[i]
      BY <1>6, <1>7, <1>9, <2>1
    <3> QED  BY <1>4, <1>7, <2>1, <3>1, <3>2
  <2>2. CASE i \notin 1 .. Len(g)
    <3>1. PICK j \in 1 .. Len(t) : i = Len(g) + j
      <4>1. i - Len(g) \in 1 .. Len(t) /\ i = Len(g) + (i - Len(g))
        BY <1>1, <2>2
      <4> QED  BY <4>1
    <3>2. Numbers(g \o t)[i] = t[j][1][1]
      BY <1>1, <1>5, <3>1
    <3>3. (x \o y)[i] = y[j]
      BY <1>6, <1>7, <1>8, <1>9, <3>1
    <3> QED  BY <1>4, <1>8, <3>1, <3>2, <3>3
  <2> QED  BY <2>1, <2>2
<1>11. Len(x \o y) = Len(g) + Len(t)
  BY <1>6, <1>7, <1>8, <1>9
<1>12. Numbers(g \o t) = x \o y
  BY <1>6, <1>9, <1>10, <1>11, SeqEqual
<1> QED  BY <1>7, <1>8, <1>12

LEMMA StepRun ==
  ASSUME LinkIInv, IInv', NEW d \in Conn, NEW k \in 0 .. Len(wire[d]), Run(d, k)
  PROVE  LinkStep
<1> DEFINE first == Rest(Body(d)) \o SubSeq(wire[d], 1, k)
           last == SubSeq(wire[d], k + 1, Len(wire[d]))
<1>1. /\ d \in open /\ wire' = [wire EXCEPT ![d] = last] /\ proc' = [proc EXCEPT ![d] = first]
      /\ got' = got \o Segments(Body(d)) /\ UNCHANGED <<made, open, alive, submitted, out>>
      /\ known' = IF d \notin known /\ proc[d] # << >> THEN known \cup {d} ELSE known
  BY DEF Run, Unregistered, poolVars
<1>2. d \in 1 .. made
  BY <1>1, OpenTyped
<1>3. PICK q \in Seq(Unit) : q = proc[d]
  BY <1>1, OpenTyped
<1>4. PICK w \in Seq(Unit) : w = wire[d]
  BY <1>1, OpenTyped
<1>5. PICK b \in BOOLEAN : b = (d \in known)
  BY IsIn
<1>6. PICK l \in BOOLEAN : l = (b \/ q # << >>) /\ l = (d \in known')
  <2>1. PICK x \in BOOLEAN : x = (d \in known')
    BY IsIn
  <2>2. (d \in known') = (b \/ q # << >>)
    BY <1>1, <1>3, <1>5
  <2> QED  BY <2>1, <2>2
<1>7. PICK body : body = Body(d)
  OBVIOUS
<1>8. PICK r : r = (Rest(body) \o SubSeq(w, 1, k)) \o SubSeq(w, k + 1, Len(w))
  OBVIOUS
<1>9. Ran(b, q, w, k, body, l, r) /\ k \in 0 .. Len(w)
  <2>1. body = IF ~ b /\ q # << >> THEN Tail(q) ELSE q
    BY <1>3, <1>5, <1>7 DEF Body, Unregistered
  <2> QED  BY <1>4, <1>6, <1>8, <2>1 DEF Ran
<1>10. Fits(b, q \o w)
  <2>1. Fits(d \in known, Stretch(d))
    BY <1>1, OpenTyped
  <2> QED  BY <1>3, <1>4, <1>5, <2>1 DEF Stretch
<1>11. PICK a \in Seq(Nat) : a = Streams[d]
  BY StreamTyped
<1>12. a = AheadOf(b, q \o w)
  <2>1. a = At(d, open, known, proc, wire)
    BY <1>11, StreamTyped
  <2> QED  BY <1>1, <1>3, <1>4, <1>5, <2>1 DEF At
<1>13. first \o last = r
  BY <1>4, <1>7, <1>8
<1> HIDE DEF first, last
<1>14. wire \in [Conn -> Seq(Unit)] /\ proc \in [Conn -> Seq(Unit)]
  BY DEF LinkIInv, WireInv, WireTypes
<1>15. At(d, open', known', proc', wire') = AheadOf(l, r)
  <2>1. wire'[d] = last /\ proc'[d] = first
    BY <1>1, <1>14
  <2>2. At(d, open', known', proc', wire') = AheadOf(d \in known', first \o last)
    BY <1>1, <2>1 DEF At
  <2> QED  BY <1>6, <1>13, <2>2
<1>16. Chunked(body) /\ body \in Seq(Unit)
  BY <1>9, <1>10, AheadRan
<1>17. PICK n \in 0 .. Len(a) : Nums(body) = SubSeq(a, 1, n) /\ AheadOf(l, r) = SubSeq(a, n + 1, Len(a))
  <2>1. Divided(AheadOf(b, q \o w), Nums(body), AheadOf(l, r))
    BY <1>9, <1>10, AheadRan
  <2> QED  BY <1>12, <2>1 DEF Divided
<1>18. OnlyAt(d)
  BY <1>1, <1>14 DEF OnlyAt
<1>19. Streams' = [Streams EXCEPT ![d] = SubSeq(Streams[d], n + 1, Len(Streams[d]))]
  BY <1>11, <1>15, <1>17, <1>18, StreamsOnlyAt
<1>20. Numbers(got)' = Numbers(got) \o SubSeq(Streams[d], 1, n)
  <2>1. got \in Seq(Seq(Unit)) /\ Segments(body) \in Seq(Seq(Unit))
    BY <1>16, SegmentsWhole DEF LinkIInv, WireInv, WireTypes
  <2>2. Numbers(got \o Segments(body)) = Numbers(got) \o Numbers(Segments(body))
    BY <2>1, NumbersJoin
  <2>3. Numbers(got)' = Numbers(got')
    BY DEF Numbers
  <2>4. Numbers(Segments(body)) = SubSeq(Streams[d], 1, n)
    BY <1>11, <1>17 DEF Nums
  <2>5. got' = got \o Segments(body)
    BY <1>1, <1>7
  <2> QED  BY <2>2, <2>3, <2>4, <2>5
<1>21. Pending' = Pending
  BY <1>1, PendingFrom, PendingNext DEF LinkIInv
<1>22. (1 .. made \ alive)' = 1 .. made \ alive
  BY <1>1
<1>23. Link!Deliver(d, n)
  BY <1>1, <1>19, <1>20, <1>21, <1>22 DEF Link!Deliver, Streams
<1>24. \E c \in 1 .. made : \E i \in 0 .. Len(Streams[c]) : Link!Deliver(c, i)
  BY <1>2, <1>11, <1>17, <1>23
<1> QED  BY <1>24 DEF LinkStep, Link!Next, Streams

\* Two servers keep the promise of Channel, whatever becomes of their connections: over
\* each of them messages are handled in the order in which they are submitted, each at
\* most once, and none is lost but by a connection that breaks
\* (SendPackPool.cpp:259-307, CustomWorkSocket.cpp:119-197).
THEOREM LinkImplementsChannel == Spec => ImplementsChannel
<1>1. Init => Link!Init
  <2> SUFFICES ASSUME Init PROVE Link!Init
    OBVIOUS
  <2>1. IInv /\ open = {} /\ made = 0 /\ alive = {} /\ got = << >> /\ submitted = 0 /\ out = << >>
    BY InitInv DEF Init, PoolInit
  <2>2. Len(out) = 0
    BY <2>1
  <2>3. Streams = [c \in 1 .. MaxConns |-> << >>]
    BY <2>1, StreamsIs DEF At, Conn
  <2>4. From(0, 0) = << >>
    BY FromOf
  <2>5. Pending = << >>
    BY <2>1, <2>2, <2>4, PendingFrom
  <2>6. Numbers(got) = << >> /\ 1 .. made \ alive = {}
    BY <2>1 DEF Numbers
  <2> QED  BY <2>1, <2>3, <2>5, <2>6 DEF Link!Init, Streams
<1>2. LinkIInv /\ LinkIInv' /\ [Next]_vars => LinkStep
  <2> SUFFICES ASSUME LinkIInv, LinkIInv', [Next]_vars
               PROVE  LinkStep
    OBVIOUS
  <2>1. IInv'
    BY DEF LinkIInv
  <2>2. ASSUME ClientStep PROVE LinkStep
    <3>1. CASE UNCHANGED linkVars
      <4>1. \/ \E w \in Writer : Write(w)
            \/ Flush \/ Reclaim \/ UNCHANGED poolVars \/ Connect \/ ClientNotices
            \/ SendPacket \/ \E k \in 0 .. MsgLen - 1 : SendFails(k)
        BY <2>2 DEF ClientStep
      <4> QED  BY <2>1, <3>1, <4>1, StepPool, StepConnect, StepNotices, StepSendPacket, StepSendFails
    <3>2. CASE ~ UNCHANGED linkVars
      <4>1. Connect \/ ClientNotices \/ SendPacket \/ \E k \in 0 .. MsgLen - 1 : SendFails(k)
        BY <2>2, <3>2 DEF ClientStep
      <4> QED  BY <2>1, <4>1, StepConnect, StepNotices, StepSendPacket, StepSendFails
    <3> QED  BY <3>1, <3>2
  <2>3. ASSUME ServerStep PROVE LinkStep
    BY <2>1, <2>3, StepRunToEnd, StepRun DEF ServerStep
  <2>4. ASSUME NEW c \in Conn, NEW k \in 0 .. Len(wire[c]), Break(c, k) PROVE LinkStep
    BY <2>1, <2>4, StepBreak
  <2>5. ASSUME UNCHANGED vars PROVE LinkStep
    <3>1. UNCHANGED poolVars /\ UNCHANGED linkVars
      BY <2>5 DEF vars
    <3> QED  BY <2>1, <3>1, StepPool
  <2> QED  BY <2>2, <2>3, <2>4, <2>5 DEF Next
<1> QED  BY <1>1, <1>2, LinkInvariant, PTL DEF Spec, ImplementsChannel, Link!Spec, LinkStep
=============================================================================
