------------------------- MODULE SendPackPoolProofs -------------------------
(***************************************************************************)
(* The pool of a socket that keeps what is unsent (PoolSpec): the proof    *)
(* that no packet is in two places, and that the messages go out exactly   *)
(* as they were submitted, however many packets and writers there are.     *)
(***************************************************************************)
EXTENDS SendPackPool, SequenceTheorems, TLAPS

\* The messages that went out are the first ones, and those that wait are the next
\* ones, in the order in which they will be sent.  That a packet has one home keeps
\* a writer from changing a message that waits.
InSequence ==
  /\ out \in Seq(Nat)
  /\ \A i \in 1 .. Len(out) : out[i] = i
  /\ \A i \in sent + 1 .. Len(sending) : holds[sending[i]] = Len(out) + i - sent
  /\ \A i \in 1 .. Len(appended) : holds[appended[i]] = Len(out) + Len(sending) - sent + i
  /\ submitted = Len(out) + Len(sending) - sent + Len(appended)

IInv == PoolTypeOK /\ OneHome /\ InSequence

-----------------------------------------------------------------------------
(* Sequences without repetition *)

LEMMA Elements ==
  ASSUME NEW S, NEW s \in Seq(S)
  PROVE  /\ Len(s) \in Nat /\ DOMAIN s = 1 .. Len(s)
         /\ \A i \in 1 .. Len(s) : s[i] \in S /\ s[i] \in Range(s)
         /\ Range(s) \subseteq S
<1>1. Len(s) \in Nat /\ DOMAIN s = 1 .. Len(s) /\ \A i \in 1 .. Len(s) : s[i] \in S
  OBVIOUS
<1> QED  BY <1>1 DEF Range

LEMMA AppendOnce ==
  ASSUME NEW S, NEW s \in Seq(S), NEW x \in S, IsInjective(s), x \notin Range(s)
  PROVE  /\ Append(s, x) \in Seq(S)
         /\ IsInjective(Append(s, x))
         /\ Range(Append(s, x)) = Range(s) \cup {x}
<1> DEFINE t == Append(s, x)
<1>1. /\ t \in Seq(S) /\ Len(t) = Len(s) + 1 /\ t[Len(s) + 1] = x
      /\ \A i \in 1 .. Len(s) : t[i] = s[i]
      /\ DOMAIN t = 1 .. Len(s) + 1 /\ DOMAIN s = 1 .. Len(s) /\ Len(s) \in Nat
  OBVIOUS
<1> HIDE DEF t
<1>2. IsInjective(t)
  BY <1>1 DEF IsInjective, Range
<1>3. Range(t) = Range(s) \cup {x}
  <2>1. Range(t) \subseteq Range(s) \cup {x}
    BY <1>1 DEF Range
  <2>2. Range(s) \subseteq Range(t)
    BY <1>1 DEF Range
  <2>3. x \in Range(t)
    <3>1. Len(s) + 1 \in DOMAIN t
      BY <1>1
    <3> QED  BY <3>1, <1>1 DEF Range
  <2> QED  BY <2>1, <2>2, <2>3
<1> QED  BY <1>1, <1>2, <1>3 DEF t

LEMMA FrontOnce ==
  ASSUME NEW S, NEW s \in Seq(S), s # << >>, IsInjective(s)
  PROVE  LET f == SubSeq(s, 1, Len(s) - 1) IN
         /\ f \in Seq(S)
         /\ s[Len(s)] \in S
         /\ s[Len(s)] \in Range(s)
         /\ s[Len(s)] \notin Range(f)
         /\ Range(f) \subseteq Range(s)
         /\ IsInjective(f)
<1> DEFINE f == SubSeq(s, 1, Len(s) - 1)
<1>1. /\ Len(s) \in Nat /\ Len(s) > 0 /\ DOMAIN s = 1 .. Len(s)
      /\ \A i \in 1 .. Len(s) : s[i] \in S
  OBVIOUS
<1>2. /\ f \in Seq(S) /\ DOMAIN f = 1 .. Len(s) - 1
      /\ \A i \in 1 .. Len(s) - 1 : f[i] = s[i]
  BY <1>1, SubSeqProperties
<1> HIDE DEF f
<1>3. Range(f) \subseteq Range(s) /\ IsInjective(f)
  BY <1>1, <1>2 DEF Range, IsInjective
<1>4. s[Len(s)] \in Range(s) /\ s[Len(s)] \notin Range(f)
  BY <1>1, <1>2 DEF Range, IsInjective
<1> QED  BY <1>1, <1>2, <1>3, <1>4 DEF f

LEMMA ConcatOnce ==
  ASSUME NEW S, NEW s \in Seq(S), NEW t \in Seq(S),
         IsInjective(s), IsInjective(t), Range(s) \cap Range(t) = {}
  PROVE  /\ s \o t \in Seq(S)
         /\ IsInjective(s \o t)
         /\ Range(s \o t) = Range(s) \cup Range(t)
<1> DEFINE c == s \o t
<1>1. /\ Len(s) \in Nat /\ Len(t) \in Nat
      /\ DOMAIN s = 1 .. Len(s) /\ DOMAIN t = 1 .. Len(t)
  OBVIOUS
<1>2. /\ c \in Seq(S) /\ DOMAIN c = 1 .. Len(s) + Len(t)
      /\ \A i \in 1 .. Len(s) : c[i] = s[i]
      /\ \A i \in 1 .. Len(t) : c[Len(s) + i] = t[i]
      /\ \A i \in DOMAIN c : i \in 1 .. Len(s) \/ (i - Len(s) \in 1 .. Len(t) /\ c[i] = t[i - Len(s)])
  BY <1>1, ConcatProperties
<1> HIDE DEF c
<1>3. IsInjective(c)
  <2> SUFFICES ASSUME NEW i \in DOMAIN c, NEW j \in DOMAIN c, c[i] = c[j] PROVE i = j
    BY DEF IsInjective
  <2>1. CASE i \in 1 .. Len(s) /\ j \in 1 .. Len(s)
    BY <2>1, <1>1, <1>2 DEF IsInjective
  <2>2. CASE i \in 1 .. Len(s) /\ j \notin 1 .. Len(s)
    <3>1. s[i] \in Range(s) /\ t[j - Len(s)] \in Range(t)
      BY <2>2, <1>1, <1>2 DEF Range
    <3> QED  BY <3>1, <2>2, <1>1, <1>2
  <2>3. CASE i \notin 1 .. Len(s) /\ j \in 1 .. Len(s)
    <3>1. s[j] \in Range(s) /\ t[i - Len(s)] \in Range(t)
      BY <2>3, <1>1, <1>2 DEF Range
    <3> QED  BY <3>1, <2>3, <1>1, <1>2
  <2>4. CASE i \notin 1 .. Len(s) /\ j \notin 1 .. Len(s)
    <3>1. i - Len(s) = j - Len(s)
      BY <2>4, <1>1, <1>2 DEF IsInjective
    <3> QED  BY <3>1, <1>1, <1>2
  <2> QED  BY <2>1, <2>2, <2>3, <2>4
<1>4. Range(c) \subseteq Range(s) \cup Range(t)
  BY <1>1, <1>2 DEF Range
<1>5. Range(s) \subseteq Range(c)
  BY <1>1, <1>2 DEF Range
<1>6. Range(t) \subseteq Range(c)
  <2> SUFFICES ASSUME NEW i \in 1 .. Len(t) PROVE t[i] \in Range(c)
    BY <1>1 DEF Range
  <2>1. Len(s) + i \in DOMAIN c /\ c[Len(s) + i] = t[i]
    BY <1>1, <1>2
  <2> QED  BY <2>1 DEF Range
<1> QED  BY <1>2, <1>3, <1>4, <1>5, <1>6 DEF c

-----------------------------------------------------------------------------
(* The invariant *)

LEMMA InitInv == PoolInit => IInv
<1> SUFFICES ASSUME PoolInit PROVE IInv
  OBVIOUS
<1> USE PoolAssumption
<1>1. PoolTypeOK
  <2>1. free \in Seq(Packet)
    BY DEF PoolInit, Packet
  <2>2. /\ appended \in Seq(Packet) /\ sending \in Seq(Packet)
        /\ Len(sending) = 0 /\ sent \in 0 .. Len(sending)
    BY DEF PoolInit
  <2>3. holds \in [Packet -> 0 .. MaxMsgs]
    <3>1. 0 \in 0 .. MaxMsgs
      OBVIOUS
    <3> QED  BY <3>1 DEF PoolInit
  <2>4. taken \in [Writer -> Packet \cup {NoPacket}] /\ busy \in BOOLEAN
    BY DEF PoolInit
  <2>5. submitted \in 0 .. MaxMsgs /\ cleared \in 0 .. submitted
    BY DEF PoolInit
  <2> QED  BY <2>1, <2>2, <2>3, <2>4, <2>5 DEF PoolTypeOK
<1>2. OneHome
  BY DEF PoolInit, OneHome, IsInjective, Range, Packet, NoPacket
<1>3. InSequence
  BY DEF PoolInit, InSequence
<1> QED  BY <1>1, <1>2, <1>3 DEF IInv

\* What the invariant says of single packets.
LEMMA Places ==
  ASSUME IInv
  PROVE  /\ sent \in Nat /\ Len(sending) \in Nat /\ sent <= Len(sending)
         /\ Len(appended) \in Nat /\ Len(out) \in Nat /\ submitted \in Nat /\ cleared \in Nat
         /\ \A i \in 1 .. Len(sending) : sending[i] \in Packet /\ sending[i] \in Range(sending)
         /\ \A i \in 1 .. Len(appended) : appended[i] \in Packet /\ appended[i] \in Range(appended)
         /\ Range(free) \subseteq Packet /\ Range(appended) \subseteq Packet
         /\ Range(sending) \subseteq Packet
         /\ NoPacket \notin Packet
<1>1. /\ sending \in Seq(Packet) /\ appended \in Seq(Packet) /\ free \in Seq(Packet)
      /\ out \in Seq(Nat)
      /\ sent \in 0 .. Len(sending) /\ submitted \in 0 .. MaxMsgs /\ cleared \in 0 .. submitted
  BY DEF IInv, PoolTypeOK, InSequence
<1>2. NoPacket \notin Packet
  BY DEF NoPacket, Packet
<1>3. Len(sending) \in Nat /\ Len(appended) \in Nat /\ Len(out) \in Nat
  BY <1>1
<1>4. /\ sent \in Nat /\ sent <= Len(sending) /\ submitted \in Nat /\ cleared \in Nat
  BY <1>1, <1>3, PoolAssumption
<1> QED  BY <1>1, <1>2, <1>3, <1>4, Elements

\* A packet goes from the free list to a writer.
LEMMA AllocInv ==
  ASSUME NEW w \in Writer, IInv, Alloc(w)
  PROVE  IInv'
<1> USE DEF IInv
<1>1. free \in Seq(Packet) /\ free # << >> /\ IsInjective(free)
  BY DEF Alloc, PoolTypeOK, OneHome
<1>2. /\ free' \in Seq(Packet)
      /\ free[Len(free)] \in Packet
      /\ free[Len(free)] \in Range(free)
      /\ free[Len(free)] \notin Range(free')
      /\ Range(free') \subseteq Range(free)
      /\ IsInjective(free')
  BY <1>1, FrontOnce DEF Alloc
<1>3. /\ taken' = [taken EXCEPT ![w] = free[Len(free)]]
      /\ holds' = [holds EXCEPT ![free[Len(free)]] = 0]
      /\ UNCHANGED <<appended, sending, sent, submitted, cleared, out, busy>>
  BY DEF Alloc
<1>4. PoolTypeOK'
  BY <1>2, <1>3, PoolAssumption DEF PoolTypeOK
<1>5. OneHome'
  BY <1>2, <1>3 DEF OneHome, PoolTypeOK, NoPacket, Packet
<1>6. InSequence'
  <2>1. \A i \in sent + 1 .. Len(sending) : sending[i] # free[Len(free)]
    BY <1>2, Places DEF OneHome
  <2>2. \A i \in 1 .. Len(appended) : appended[i] # free[Len(free)]
    BY <1>2, Places DEF OneHome
  <2>3. /\ \A i \in sent + 1 .. Len(sending) : sending[i] \in Packet
        /\ \A i \in 1 .. Len(appended) : appended[i] \in Packet
    BY Places
  <2> QED  BY <2>1, <2>2, <2>3, <1>3 DEF InSequence, PoolTypeOK
<1> QED  BY <1>4, <1>5, <1>6

\* A packet goes from its writer to the end of the append list.
LEMMA SubmitInv ==
  ASSUME NEW w \in Writer, IInv, SubmitPacket(w)
  PROVE  IInv'
<1> USE DEF IInv
<1> DEFINE p == taken[w]
<1>1. /\ p \in Packet /\ p \notin Range(free) /\ p \notin Range(appended) /\ p \notin Range(sending)
      /\ \A v \in Writer : v # w => taken[v] # p
  BY DEF SubmitPacket, PoolTypeOK, OneHome
<1>2. /\ appended' = Append(appended, p)
      /\ appended' \in Seq(Packet)
      /\ IsInjective(appended')
      /\ Range(appended') = Range(appended) \cup {p}
  BY <1>1, AppendOnce DEF SubmitPacket, PoolTypeOK, OneHome
<1>3. /\ taken' = [taken EXCEPT ![w] = NoPacket]
      /\ holds' = [holds EXCEPT ![p] = submitted + 1]
      /\ submitted' = submitted + 1
      /\ submitted < MaxMsgs
      /\ UNCHANGED <<free, sending, sent, cleared, out, busy>>
  BY DEF SubmitPacket
<1> HIDE DEF p
<1>4. PoolTypeOK'
  BY <1>1, <1>2, <1>3, PoolAssumption DEF PoolTypeOK
<1>5. OneHome'
  <2>1. NoPacket \notin Range(free) \cup Range(appended') \cup Range(sending)
    BY <1>1, <1>2, Places
  <2> QED  BY <2>1, <1>1, <1>2, <1>3 DEF OneHome, PoolTypeOK
<1>6. InSequence'
  <2>1. \A i \in sent + 1 .. Len(sending) : sending[i] \in Packet /\ sending[i] # p
    BY <1>1 DEF PoolTypeOK, Range
  <2>2. \A i \in 1 .. Len(appended) : appended[i] \in Packet /\ appended[i] # p
    BY <1>1 DEF PoolTypeOK, Range
  <2>3. /\ Len(appended') = Len(appended) + 1 /\ appended'[Len(appended) + 1] = p
        /\ \A i \in 1 .. Len(appended) : appended'[i] = appended[i]
    BY <1>1, <1>2 DEF PoolTypeOK
  <2>4. holds'[p] = submitted + 1 /\ \A q \in Packet : q # p => holds'[q] = holds[q]
    BY <1>1, <1>3 DEF PoolTypeOK
  <2>5. \A i \in 1 .. Len(appended) + 1 :
          holds'[appended'[i]] = Len(out) + Len(sending) - sent + i
    <3>1. \A i \in 1 .. Len(appended) :
            holds'[appended'[i]] = Len(out) + Len(sending) - sent + i
      BY <2>2, <2>3, <2>4 DEF InSequence
    <3>2. holds'[appended'[Len(appended) + 1]] = Len(out) + Len(sending) - sent + (Len(appended) + 1)
      <4>1. submitted = Len(out) + Len(sending) - sent + Len(appended)
        BY DEF InSequence
      <4>2. holds'[appended'[Len(appended) + 1]] = submitted + 1
        BY <2>3, <2>4, Zenon
      <4>3. submitted + 1 = Len(out) + Len(sending) - sent + (Len(appended) + 1)
        BY <4>1, Places
      <4> QED  BY <4>2, <4>3
    <3>3. \A i \in 1 .. Len(appended) + 1 : i \in 1 .. Len(appended) \/ i = Len(appended) + 1
      BY Places
    <3> QED  BY <3>1, <3>2, <3>3
  <2> QED  BY <2>1, <2>3, <2>4, <2>5, <1>3, SMTT(30) DEF InSequence, PoolTypeOK
<1> QED  BY <1>4, <1>5, <1>6

\* A packet goes from its writer back to the free list.
LEMMA GiveBackInv ==
  ASSUME NEW w \in Writer, IInv, GiveBack(w)
  PROVE  IInv'
<1> USE DEF IInv
<1> DEFINE p == taken[w]
<1>1. /\ p \in Packet /\ p \notin Range(free) /\ p \notin Range(appended) /\ p \notin Range(sending)
      /\ \A v \in Writer : v # w => taken[v] # p
  BY DEF GiveBack, PoolTypeOK, OneHome
<1>2. /\ free' \in Seq(Packet)
      /\ IsInjective(free')
      /\ Range(free') = Range(free) \cup {p}
  BY <1>1, AppendOnce DEF GiveBack, PoolTypeOK, OneHome
<1>3. /\ taken' = [taken EXCEPT ![w] = NoPacket]
      /\ UNCHANGED <<appended, sending, sent, holds, submitted, cleared, out, busy>>
  BY DEF GiveBack
<1> HIDE DEF p
<1>4. PoolTypeOK'
  BY <1>1, <1>2, <1>3 DEF PoolTypeOK
<1>5. OneHome'
  <2>1. NoPacket \notin Range(free') \cup Range(appended) \cup Range(sending)
    BY <1>1, <1>2, Places
  <2> QED  BY <2>1, <1>1, <1>2, <1>3 DEF OneHome, PoolTypeOK
<1>6. InSequence'
  BY <1>3 DEF InSequence
<1> QED  BY <1>4, <1>5, <1>6

\* The append list goes behind the list of the thread.
LEMMA FlushInv ==
  ASSUME IInv, Flush
  PROVE  IInv'
<1> USE DEF IInv
<1>1. UNCHANGED <<free, sent, holds, taken, submitted, cleared, out>> /\ busy' = TRUE
  BY DEF Flush
<1>2. CASE Ex /\ sending # << >>
  <2>1. UNCHANGED <<sending, appended>>
    BY <1>2 DEF Flush
  <2>2. PoolTypeOK'
    BY <1>1, <2>1 DEF PoolTypeOK
  <2>3. OneHome' /\ InSequence'
    BY <1>1, <2>1 DEF OneHome, InSequence
  <2> QED  BY <2>2, <2>3
<1>3. CASE ~ (Ex /\ sending # << >>)
  <2>0. /\ sending \in Seq(Packet) /\ appended \in Seq(Packet)
        /\ IsInjective(sending) /\ IsInjective(appended)
        /\ Range(sending) \cap Range(appended) = {}
    BY DEF PoolTypeOK, OneHome
  <2>1. /\ sending' = sending \o appended /\ appended' = << >>
        /\ sending' \in Seq(Packet) /\ IsInjective(sending')
        /\ Range(sending') = Range(sending) \cup Range(appended)
    <3>1. sending' = sending \o appended /\ appended' = << >>
      BY <1>3 DEF Flush
    <3> QED  BY <3>1, <2>0, ConcatOnce
  <2>2. /\ Len(sending) \in Nat /\ Len(appended) \in Nat
        /\ Len(sending') = Len(sending) + Len(appended)
        /\ \A i \in 1 .. Len(sending) : sending'[i] = sending[i]
        /\ \A i \in Len(sending) + 1 .. Len(sending') :
             /\ sending'[i] = appended[i - Len(sending)]
             /\ i - Len(sending) \in 1 .. Len(appended)
    BY <2>1, ConcatProperties DEF PoolTypeOK
  <2>3. appended' \in Seq(Packet) /\ Len(appended') = 0 /\ Range(appended') = {} /\ IsInjective(appended')
    BY <2>1 DEF Range, IsInjective
  <2>4. PoolTypeOK'
    BY <1>1, <2>1, <2>2, <2>3 DEF PoolTypeOK
  <2>5. OneHome'
    BY <1>1, <2>1, <2>3 DEF OneHome
  <2>6. \A i \in sent + 1 .. Len(sending') : holds[sending'[i]] = Len(out) + i - sent
    <3> SUFFICES ASSUME NEW i \in sent + 1 .. Len(sending')
                 PROVE  holds[sending'[i]] = Len(out) + i - sent
      OBVIOUS
    <3>1. sent \in Nat /\ sent <= Len(sending) /\ Len(out) \in Nat
      BY DEF PoolTypeOK, InSequence
    <3>2. CASE i <= Len(sending)
      BY <3>1, <3>2, <2>2 DEF InSequence
    <3>3. CASE i > Len(sending)
      <4>1. i - Len(sending) \in 1 .. Len(appended) /\ sending'[i] = appended[i - Len(sending)]
        BY <3>1, <3>3, <2>2
      <4>2. holds[appended[i - Len(sending)]] = Len(out) + Len(sending) - sent + (i - Len(sending))
        BY <4>1 DEF InSequence
      <4> QED  BY <4>1, <4>2, <3>1, <2>2
    <3> QED  BY <3>1, <3>2, <3>3, <2>2
  <2>7. submitted = Len(out) + Len(sending') - sent + Len(appended')
    BY <2>2, <2>3, Places DEF InSequence
  <2>8. \A i \in 1 .. Len(appended') : holds[appended'[i]] = Len(out) + Len(sending') - sent + i
    BY <2>3
  <2>9. InSequence'
    BY <1>1, <2>6, <2>7, <2>8 DEF InSequence
  <2> QED  BY <2>4, <2>5, <2>9
<1> QED  BY <1>2, <1>3

\* The message of the packet whose turn it is goes out.
LEMMA PacketDoneInv ==
  ASSUME IInv, PacketDone
  PROVE  IInv'
<1> USE DEF IInv
<1>1. /\ sent \in Nat /\ Len(sending) \in Nat /\ sent < Len(sending) /\ Len(out) \in Nat
      /\ Turn = sending[sent + 1] /\ Turn \in Packet
  BY DEF PacketDone, IsSending, Turn, PoolTypeOK, InSequence
<1>2. holds[Turn] = Len(out) + 1
  BY <1>1 DEF InSequence
<1>3. /\ sent' = sent + 1
      /\ out' = Append(out, Len(out) + 1)
      /\ holds' = [holds EXCEPT ![Turn] = 0]
      /\ UNCHANGED <<free, appended, sending, taken, submitted, cleared, busy>>
  BY <1>1, <1>2 DEF PacketDone
<1>4. PoolTypeOK'
  BY <1>1, <1>3, PoolAssumption DEF PoolTypeOK
<1>5. OneHome'
  BY <1>3 DEF OneHome
<1>6. \A i \in sent + 2 .. Len(sending) : sending[i] \in Packet /\ sending[i] # Turn
  BY <1>1 DEF OneHome, PoolTypeOK, IsInjective
<1>7. \A i \in 1 .. Len(appended) : appended[i] \in Packet /\ appended[i] # Turn
  <2>1. Turn \in Range(sending)
    BY <1>1, Places
  <2> QED  BY <2>1, Places DEF OneHome
<1>8. \A q \in Packet : q # Turn => holds'[q] = holds[q]
  BY <1>3 DEF PoolTypeOK
<1>9. /\ out' \in Seq(Nat) /\ Len(out') = Len(out) + 1
      /\ \A i \in 1 .. Len(out') : out'[i] = i
  BY <1>1, <1>3 DEF InSequence
<1>10. \A i \in sent' + 1 .. Len(sending') : holds'[sending'[i]] = Len(out') + i - sent'
  BY <1>1, <1>3, <1>6, <1>8, <1>9 DEF InSequence
<1>11. \A i \in 1 .. Len(appended') :
         holds'[appended'[i]] = Len(out') + Len(sending') - sent' + i
  <2>1. \A i \in 1 .. Len(appended) : holds'[appended[i]] = Len(out) + Len(sending) - sent + i
    BY <1>7, <1>8 DEF InSequence
  <2> QED  BY <2>1, <1>1, <1>3, <1>9
<1>12. submitted' = Len(out') + Len(sending') - sent' + Len(appended')
  BY <1>1, <1>3, <1>9 DEF InSequence, PoolTypeOK
<1> QED  BY <1>4, <1>5, <1>9, <1>10, <1>11, <1>12 DEF InSequence

\* The packets of the list are free again.
LEMMA ReclaimInv ==
  ASSUME IInv, Reclaim
  PROVE  IInv'
<1> USE DEF IInv
<1>1. sent = Len(sending) /\ Len(sending) \in Nat
  BY DEF Reclaim, PoolTypeOK
<1>2. /\ sent' = 0 /\ sending' = << >> /\ free' = free \o sending /\ busy' = FALSE
      /\ UNCHANGED <<appended, holds, taken, submitted, cleared, out>>
  BY DEF Reclaim
<1>3. /\ free' \in Seq(Packet) /\ IsInjective(free')
      /\ Range(free') = Range(free) \cup Range(sending)
  BY <1>2, ConcatOnce DEF PoolTypeOK, OneHome
<1>4. sending' \in Seq(Packet) /\ Len(sending') = 0 /\ Range(sending') = {} /\ IsInjective(sending')
  BY <1>2 DEF Range, IsInjective
<1>5. PoolTypeOK'
  <2>1. sent' \in 0 .. Len(sending')
    BY <1>2, <1>4
  <2> QED  BY <2>1, <1>2, <1>3, <1>4 DEF PoolTypeOK
<1>6. OneHome'
  BY <1>2, <1>3, <1>4 DEF OneHome
<1>7. InSequence'
  <2>1. \A i \in sent' + 1 .. Len(sending') : FALSE
    BY <1>2, <1>4
  <2>2. \A i \in 1 .. Len(appended) : holds[appended[i]] = Len(out) + Len(sending') - sent' + i
    BY <1>1, <1>2, <1>4, Places DEF InSequence
  <2>3. submitted = Len(out) + Len(sending') - sent' + Len(appended)
    BY <1>1, <1>2, <1>4, Places DEF InSequence
  <2> QED  BY <2>1, <2>2, <2>3, <1>2 DEF InSequence
<1> QED  BY <1>5, <1>6, <1>7

LEMMA NextInv == IInv /\ [PoolNext]_poolVars => IInv'
<1> SUFFICES ASSUME IInv, [PoolNext]_poolVars PROVE IInv'
  OBVIOUS
<1>1. ASSUME NEW w \in Writer, Write(w) PROVE IInv'
  BY <1>1, AllocInv, SubmitInv, GiveBackInv DEF Write
<1>2. CASE Flush
  BY <1>2, FlushInv
<1>3. CASE PacketDone
  BY <1>3, PacketDoneInv
<1>4. CASE GiveUp
  BY <1>4 DEF GiveUp, IInv, PoolTypeOK, OneHome, InSequence
<1>5. CASE Reclaim
  BY <1>5, ReclaimInv
<1>6. CASE UNCHANGED poolVars
  BY <1>6 DEF poolVars, IInv, PoolTypeOK, OneHome, InSequence
<1> QED  BY <1>1, <1>2, <1>3, <1>4, <1>5, <1>6 DEF PoolNext

\* The messages that went out are 1, 2 and so on; when none waits, all went out.
LEMMA InSequenceSuffices == IInv => SentAsSubmitted
<1> SUFFICES ASSUME IInv PROVE SentAsSubmitted
  OBVIOUS
<1>1. /\ Len(out) \in Nat /\ DOMAIN out = 1 .. Len(out)
      /\ \A i \in 1 .. Len(out) : out[i] = i
  BY DEF IInv, InSequence
<1>2. \A i, j \in DOMAIN out : i < j => out[i] < out[j]
  BY <1>1
<1>3. ASSUME Waiting = << >> PROVE cleared + 1 .. submitted \subseteq Range(out)
  <2>1. SubSeq(sending, sent + 1, Len(sending)) \in Seq(Packet)
    <3>1. \A i \in sent + 1 .. Len(sending) : sending[i] \in Packet
      BY DEF IInv, PoolTypeOK
    <3>2. sent + 1 \in Int /\ Len(sending) \in Int
      BY DEF IInv, PoolTypeOK
    <3> QED  BY <3>1, <3>2, SubSeqProperties
  <2>2. SubSeq(sending, sent + 1, Len(sending)) = << >> /\ appended = << >>
    BY <1>3, <2>1, ConcatEqualIffEmpty DEF Waiting, IInv, PoolTypeOK
  <2>3. sent = Len(sending)
    <3>1. Len(SubSeq(sending, sent + 1, Len(sending)))
            = IF sent + 1 <= Len(sending) THEN Len(sending) - (sent + 1) + 1 ELSE 0
      BY SubSeqProperties DEF IInv, PoolTypeOK
    <3>2. Len(<< >>) = 0
      OBVIOUS
    <3>3. Len(SubSeq(sending, sent + 1, Len(sending))) = Len(<< >>)
      BY <2>2, Zenon
    <3> QED  BY <3>1, <3>2, <3>3, Places
  <2>4. submitted = Len(out)
    BY <2>2, <2>3, <1>1 DEF IInv, PoolTypeOK, InSequence
  <2>5. cleared \in Nat /\ cleared + 1 .. submitted \subseteq 1 .. Len(out)
    BY <2>4, <1>1, Places
  <2> QED  BY <2>5, <1>1 DEF Range
<1> QED  BY <1>2, <1>3 DEF SentAsSubmitted

-----------------------------------------------------------------------------
(* The theorems *)

\* The lists and the index stay what they should be, with any number of packets and
\* writers.
THEOREM PoolTypeCorrect == PoolSpec => []PoolTypeOK
<1>1. IInv => PoolTypeOK
  BY DEF IInv
<1> QED  BY InitInv, NextInv, <1>1, PTL DEF PoolSpec

\* A packet is in one list only, and there only once, or with one writer
\* (SendPackPool.cpp:133-229, 259-307).
THEOREM EveryPacketHasOneHome == PoolSpec => []OneHome
<1>1. IInv => OneHome
  BY DEF IInv
<1> QED  BY InitInv, NextInv, <1>1, PTL DEF PoolSpec

\* Packets are sent in the order in which they are submitted, as SendPackPool.h:7
\* says, each once, and none is left out - as long as the list is never cleared.
THEOREM SentInOrder == PoolSpec => []SentAsSubmitted
<1> QED  BY InitInv, NextInv, InSequenceSuffices, PTL DEF PoolSpec
=============================================================================
