-------------------------- MODULE StaleHandleProofs --------------------------
(***************************************************************************)
(* GetDataPtr of HandleMgr finds an object if and only if it is the one    *)
(* the handle was made for, as long as fewer than MAX_MAGIC objects were   *)
(* made since: the proof for every number of slots, magics and objects.    *)
(***************************************************************************)
EXTENDS HandleMgrProofs

\* How many steps of IncMagic lead from the magic m to a.
Distance(m, a) == IF m <= a THEN a - m ELSE a - m + MAX_MAGIC

\* A recent handle tells its age by its magic: two recent handles with the same
\* magic are of the same age.
MagicTellsAge ==
  \A h \in issued : h.idx \notin RenewedSlots /\ Recent(h) =>
    Distance(h.magic, autoMagic) = acquires - h.at

\* A slot that is in use has a live handle with its magic.
UsedSlotHasHandle ==
  \A k \in UsedSlots(magics) \ RenewedSlots : \E h \in live : h.idx = k /\ h.magic = magics[k]

\* A live handle is the newest one of its slot, and has its magic.
LiveIsNewest ==
  \A h \in live : h.idx \notin RenewedSlots =>
    /\ h.idx \in Slots /\ magics[h.idx] = h.magic
    /\ \A g \in issued : g.idx = h.idx => g.at <= h.at

HandleInv ==
  /\ acquires \in Nat
  /\ live \subseteq issued
  /\ \A h \in issued : h.at <= acquires
  /\ MagicTellsAge
  /\ UsedSlotHasHandle
  /\ LiveIsNewest

-----------------------------------------------------------------------------
(* Magic numbers and slots *)

LEMMA DistanceGrows ==
  ASSUME PoolAssumption, NEW m \in 1 .. MAX_MAGIC, NEW a \in 0 .. MAX_MAGIC,
         Distance(m, a) + 1 < MAX_MAGIC
  PROVE  Distance(m, IncMagic(a)) = Distance(m, a) + 1
  BY DEF PoolAssumption, Distance, IncMagic

\* Two handles of the same age in a slot that was not renewed are one.
LEMMA OneHandlePerAge ==
  ASSUME NEW g \in issued, NEW h \in issued, h.idx \notin RenewedSlots, g.at = h.at
  PROVE  g = h
  BY DEF RenewedSlots

LEMMA RenewedStays ==
  ASSUME issued \subseteq issued'
  PROVE  RenewedSlots \subseteq RenewedSlots'
  BY DEF RenewedSlots

LEMMA InvDecides ==
  ASSUME PoolAssumption, IInv, HandleInv
  PROVE  StaleHandleRejected
<1> SUFFICES ASSUME NEW h \in issued, Recent(h), h.idx \notin RenewedSlots
             PROVE  Resolves([idx |-> h.idx, magic |-> h.magic]) <=> h \in live
  BY DEF StaleHandleRejected
<1>1. /\ h.magic \in 1 .. MAX_MAGIC /\ h.at \in Nat /\ h.idx \in Nat
      /\ DOMAIN magics = Slots /\ MAX_MAGIC \in Nat /\ acquires \in Nat
  BY IInvFacts DEF IInv, TypeOK, PoolAssumption
<1>2. ASSUME h \in live PROVE Resolves([idx |-> h.idx, magic |-> h.magic])
  <2>1. h.idx \in Slots /\ magics[h.idx] = h.magic
    BY <1>2 DEF HandleInv, LiveIsNewest
  <2>2. [idx |-> h.idx, magic |-> h.magic] # NullHandle
    BY <1>1 DEF NullHandle
  <2> QED  BY <2>1, <2>2 DEF Resolves
<1>3. ASSUME Resolves([idx |-> h.idx, magic |-> h.magic]) PROVE h \in live
  <2>1. h.idx \in Slots /\ magics[h.idx] = h.magic
    BY <1>3 DEF Resolves
  <2>2. h.idx \in UsedSlots(magics) \ RenewedSlots
    BY <1>1, <2>1 DEF UsedSlots
  <2>3. PICK g \in live : g.idx = h.idx /\ g.magic = magics[h.idx]
    BY <2>2 DEF HandleInv, UsedSlotHasHandle
  <2>4. g \in issued /\ g.at \in Nat /\ h.at <= g.at
    BY <2>3 DEF HandleInv, LiveIsNewest, IInv, TypeOK
  <2>5. Recent(g)
    BY <2>4, <1>1 DEF Recent
  <2>6. Distance(g.magic, autoMagic) = acquires - g.at /\ Distance(h.magic, autoMagic) = acquires - h.at
    BY <2>3, <2>4, <2>5 DEF HandleInv, MagicTellsAge
  <2>7. g.at = h.at
    BY <2>1, <2>3, <2>4, <2>6, <1>1
  <2> QED  BY <2>3, <2>4, <2>7, OneHandlePerAge
<1> QED  BY <1>2, <1>3

-----------------------------------------------------------------------------
(* The steps *)

\* What Acquire does, whichever of its three ways it goes.
HandsOut(index) ==
  /\ index \in Slots' /\ index \notin UsedSlots(magics)
  /\ Slots \subseteq Slots'
  /\ autoMagic' = IncMagic(autoMagic)
  /\ acquires' = acquires + 1
  /\ UsedSlots(magics') = UsedSlots(magics) \cup {index}
  /\ magics'[index] = autoMagic'
  /\ \A k \in UsedSlots(magics) : magics'[k] = magics[k]
  /\ LET h == [idx |-> index, magic |-> autoMagic', at |-> acquires + 1]
     IN  issued' = issued \cup {h} /\ live' = live \cup {h}

LEMMA IssueHandsOut ==
  ASSUME PoolAssumption, Slots \subseteq Slots', NEW mg, NEW fc,
         NEW index \in Slots', mg[index] = 0, DOMAIN mg = Slots',
         UsedSlots(mg) = UsedSlots(magics), \A k \in UsedSlots(magics) : mg[k] = magics[k],
         autoMagic \in 0 .. MAX_MAGIC, Issue(index, mg, fc)
  PROVE  HandsOut(index)
<1>1. autoMagic' = IncMagic(autoMagic) /\ autoMagic' \in 1 .. MAX_MAGIC
  BY IncMagicType DEF Issue
<1>2. /\ magics' = SetMagic(mg, index, autoMagic')
      /\ acquires' = acquires + 1
      /\ issued' = issued \cup {[idx |-> index, magic |-> autoMagic', at |-> acquires + 1]}
      /\ live' = live \cup {[idx |-> index, magic |-> autoMagic', at |-> acquires + 1]}
  BY <1>1 DEF Issue
<1>3. /\ DOMAIN magics' = Slots'
      /\ \A k \in Slots' : magics'[k] = IF k = index THEN autoMagic' ELSE mg[k]
  BY <1>2 DEF SetMagic
<1>4. index \notin UsedSlots(magics)
  BY DEF UsedSlots
<1>5. UsedSlots(magics') = UsedSlots(magics) \cup {index}
  <2>1. autoMagic' # 0
    BY <1>1
  <2>2. UsedSlots(magics') = {k \in Slots' : magics'[k] # 0}
    BY <1>3 DEF UsedSlots
  <2>3. UsedSlots(mg) = {k \in Slots' : mg[k] # 0}
    BY DEF UsedSlots
  <2> QED  BY <2>1, <2>2, <2>3, <1>3
<1>6. \A k \in UsedSlots(magics) : magics'[k] = magics[k]
  BY <1>3, <1>4 DEF UsedSlots
<1>7. magics'[index] = autoMagic'
  BY <1>3
<1> QED  BY <1>1, <1>2, <1>4, <1>5, <1>6, <1>7 DEF HandsOut

LEMMA AcquireHandsOut ==
  ASSUME PoolAssumption, IInv, IInv', Acquire
  PROVE  \E index : HandsOut(index)
<1>1. /\ Slots \subseteq 0 .. MAX_INDEX /\ DOMAIN magics = Slots
      /\ chunks \in Nat /\ Total \in Nat
      /\ Exact(chunks, magics, freeCounts)
      /\ usedCount = Cardinality(UsedSlots(magics))
      /\ frontier \in Slots \cup {INVALID_INDEX}
      /\ autoMagic \in 0 .. MAX_MAGIC
      /\ INVALID_INDEX \in Nat /\ \A k \in Slots : k < INVALID_INDEX
  BY IInvFacts
<1>2. ASSUME NEW index \in Slots, magics[index] = 0, UNCHANGED chunks,
             Issue(index, magics, freeCounts)
      PROVE  HandsOut(index)
  <2>1. Slots' = Slots
    BY <1>2 DEF Slots, Total
  <2> QED  BY <1>1, <1>2, <2>1, IssueHandsOut
<1>3. CASE AcquireReleased
  <2>1. FreeBelow(magics, frontier) \in SUBSET (0 .. MAX_INDEX) /\ MAX_INDEX \in Nat
    BY <1>1 DEF FreeBelow, PoolAssumption
  <2>2. firstFree = LeastOr(FreeBelow(magics, frontier), INVALID_INDEX) /\ firstFree # INVALID_INDEX
    BY <1>3 DEF IInv, FirstFreeIsLowest, AcquireReleased
  <2>3. firstFree \in FreeBelow(magics, frontier)
    BY <2>1, <2>2, LeastOrValue
  <2> QED  BY <1>1, <1>2, <1>3, <2>3 DEF FreeBelow, AcquireReleased
<1>4. CASE AcquireFrontier
  <2>1. frontier \in Slots /\ frontier # INVALID_INDEX /\ frontier >= frontier
    BY <1>1, <1>4 DEF AcquireFrontier
  <2>2. magics[frontier] = 0
    BY <2>1 DEF IInv, FrontierUnused
  <2> QED  BY <1>2, <1>4, <2>1, <2>2 DEF AcquireFrontier
<1>5. CASE AcquireNewChunk
  <2>1. Issue(Total, GrownMagics, GrownCounts) /\ chunks' = chunks + 1
    BY <1>5 DEF AcquireNewChunk
  <2>2. ONE_CHUNK_COUNT \in Nat /\ ONE_CHUNK_COUNT > 0
    BY DEF PoolAssumption
  <2>3. Slots' = 0 .. Total + ONE_CHUNK_COUNT - 1 /\ Slots = 0 .. Total - 1
    BY <1>1, <2>1, <2>2 DEF Slots, Total
  <2>4. Slots \subseteq Slots' /\ Total \in Slots' /\ Total \notin Slots
    BY <1>1, <2>2, <2>3
  <2>5. DOMAIN GrownMagics = Slots'
    BY <2>3 DEF GrownMagics
  <2>6. \A k \in Slots' : GrownMagics[k] = IF k \in Slots THEN magics[k] ELSE 0
    BY <2>3 DEF GrownMagics
  <2>7. UsedSlots(GrownMagics) = UsedSlots(magics)
    BY <1>1, AddChunk
  <2>8. \A k \in UsedSlots(magics) : GrownMagics[k] = magics[k]
    BY <1>1, <2>4, <2>6 DEF UsedSlots
  <2>9. GrownMagics[Total] = 0
    BY <2>4, <2>6
  <2> QED  BY <1>1, <2>1, <2>4, <2>5, <2>7, <2>8, <2>9, IssueHandsOut
<1> QED  BY <1>3, <1>4, <1>5 DEF Acquire

LEMMA AcquireKeeps ==
  ASSUME PoolAssumption, IInv, HandleInv, NEW index, HandsOut(index)
  PROVE  HandleInv'
<1> DEFINE new == [idx |-> index, magic |-> autoMagic', at |-> acquires + 1]
<1>1. /\ index \in Slots' /\ index \notin UsedSlots(magics) /\ Slots \subseteq Slots'
      /\ autoMagic' = IncMagic(autoMagic) /\ acquires' = acquires + 1
      /\ UsedSlots(magics') = UsedSlots(magics) \cup {index}
      /\ magics'[index] = autoMagic'
      /\ \A k \in UsedSlots(magics) : magics'[k] = magics[k]
      /\ issued' = issued \cup {new} /\ live' = live \cup {new}
  BY DEF HandsOut
<1>2. /\ acquires \in Nat /\ live \subseteq issued /\ \A h \in issued : h.at <= acquires
      /\ MagicTellsAge /\ UsedSlotHasHandle /\ LiveIsNewest
  BY DEF HandleInv
<1>3. RenewedSlots \subseteq RenewedSlots'
  BY <1>1, RenewedStays
<1>4. \A h \in issued : h.magic \in 1 .. MAX_MAGIC /\ h.at \in Nat
  BY DEF IInv, TypeOK
<1>5. DOMAIN magics = Slots /\ autoMagic \in 0 .. MAX_MAGIC /\ MAX_MAGIC \in Nat
  BY IInvFacts DEF PoolAssumption
<1>6. new.idx = index /\ new.magic = autoMagic' /\ new.at = acquires + 1
  OBVIOUS
<1> HIDE DEF new
<1>7. acquires' \in Nat /\ live' \subseteq issued' /\ \A h \in issued' : h.at <= acquires'
  BY <1>1, <1>2, <1>4, <1>6
<1>8. MagicTellsAge'
  <2> SUFFICES ASSUME NEW h \in issued', h.idx \notin RenewedSlots', acquires' - h.at < MAX_MAGIC
               PROVE  Distance(h.magic, autoMagic') = acquires' - h.at
    BY DEF MagicTellsAge, Recent, Distance
  <2>1. CASE h = new
    <3>1. autoMagic' \in Nat
      BY <1>1, <1>5 DEF IncMagic
    <3> QED  BY <1>1, <1>2, <1>6, <2>1, <3>1 DEF Distance
  <2>2. CASE h \in issued
    <3>1. Distance(h.magic, autoMagic) = acquires - h.at
      BY <1>1, <1>2, <1>3, <1>4, <1>5, <2>2 DEF MagicTellsAge, Recent
    <3>2. acquires - h.at + 1 < MAX_MAGIC
      BY <1>1, <1>2, <1>4, <1>5, <2>2
    <3>3. Distance(h.magic, IncMagic(autoMagic)) = Distance(h.magic, autoMagic) + 1
      BY <1>4, <1>5, <2>2, <3>1, <3>2, DistanceGrows
    <3> QED  BY <1>1, <1>2, <1>4, <2>2, <3>1, <3>3
  <2> QED  BY <1>1, <2>1, <2>2
<1>9. UsedSlotHasHandle'
  <2> SUFFICES ASSUME NEW k \in UsedSlots(magics'), k \notin RenewedSlots'
               PROVE  \E h \in live' : h.idx = k /\ h.magic = magics'[k]
    BY DEF UsedSlotHasHandle
  <2>1. CASE k = index
    BY <1>1, <1>6, <2>1
  <2>2. CASE k \in UsedSlots(magics)
    BY <1>1, <1>2, <1>3, <2>2 DEF UsedSlotHasHandle
  <2> QED  BY <1>1, <2>1, <2>2
<1>10. LiveIsNewest'
  <2> SUFFICES ASSUME NEW h \in live', h.idx \notin RenewedSlots'
               PROVE  /\ h.idx \in Slots' /\ magics'[h.idx] = h.magic
                      /\ \A g \in issued' : g.idx = h.idx => g.at <= h.at
    BY DEF LiveIsNewest
  <2>1. CASE h = new
    BY <1>1, <1>2, <1>4, <1>6, <2>1
  <2>2. CASE h \in live
    <3>1. /\ h.idx \in Slots /\ magics[h.idx] = h.magic
          /\ \A g \in issued : g.idx = h.idx => g.at <= h.at
      BY <1>2, <1>3, <2>2 DEF LiveIsNewest
    <3>2. h.idx \in UsedSlots(magics)
      BY <1>2, <1>4, <1>5, <2>2, <3>1 DEF UsedSlots
    <3> QED  BY <1>1, <1>6, <3>1, <3>2
  <2> QED  BY <1>1, <2>1, <2>2
<1> QED  BY <1>7, <1>8, <1>9, <1>10 DEF HandleInv

LEMMA ElsewhereKeeps ==
  ASSUME PoolAssumption, IInv, HandleInv, AcquireElsewhere
  PROVE  HandleInv'
<1>1. /\ autoMagic' = IncMagic(autoMagic) /\ acquires' = acquires + 1
      /\ UNCHANGED <<chunks, magics, issued, live>>
  BY DEF AcquireElsewhere
<1>2. acquires \in Nat /\ MagicTellsAge /\ \A h \in issued : h.at <= acquires
  BY DEF HandleInv
<1>3. \A h \in issued : h.magic \in 1 .. MAX_MAGIC /\ h.at \in Nat
  BY DEF IInv, TypeOK
<1>4. autoMagic \in 0 .. MAX_MAGIC /\ MAX_MAGIC \in Nat
  BY IInvFacts DEF PoolAssumption
<1>5. RenewedSlots' = RenewedSlots /\ Slots' = Slots
  BY <1>1 DEF RenewedSlots, Slots, Total
<1>6. MagicTellsAge'
  <2> SUFFICES ASSUME NEW h \in issued, h.idx \notin RenewedSlots, acquires' - h.at < MAX_MAGIC
               PROVE  Distance(h.magic, autoMagic') = acquires' - h.at
    BY <1>1, <1>5 DEF MagicTellsAge, Recent, Distance
  <2>1. Distance(h.magic, autoMagic) = acquires - h.at
    BY <1>1, <1>2, <1>3, <1>4 DEF MagicTellsAge, Recent
  <2>2. acquires - h.at + 1 < MAX_MAGIC
    BY <1>1, <1>2, <1>3, <1>4
  <2>3. Distance(h.magic, IncMagic(autoMagic)) = Distance(h.magic, autoMagic) + 1
    BY <1>3, <1>4, <2>1, <2>2, DistanceGrows
  <2> QED  BY <1>1, <1>2, <1>3, <2>1, <2>3
<1>7. acquires' \in Nat /\ live' \subseteq issued' /\ \A h \in issued' : h.at <= acquires'
  BY <1>1, <1>2, <1>3 DEF HandleInv
<1>8. UsedSlotHasHandle' /\ LiveIsNewest'
  BY <1>1, <1>5 DEF HandleInv, UsedSlotHasHandle, LiveIsNewest, UsedSlots
<1> QED  BY <1>6, <1>7, <1>8 DEF HandleInv

\* A step that changes at most the slot index, and drops at most its live handles.
LEMMA SlotStepKeeps ==
  ASSUME HandleInv, UNCHANGED <<chunks, autoMagic, acquires, issued>>, NEW index,
         DOMAIN magics' = DOMAIN magics, DOMAIN magics = Slots,
         \A k \in Slots : k # index => magics'[k] = magics[k],
         live' \subseteq live, \A h \in live : h.idx # index => h \in live',
         index \in UsedSlots(magics') =>
           magics'[index] = magics[index] /\ \A h \in live : h.idx = index => h \in live',
         \A h \in live' : h.idx = index => magics'[index] = magics[index] \/ index \in RenewedSlots
  PROVE  HandleInv'
<1>1. RenewedSlots' = RenewedSlots /\ Slots' = Slots
  BY DEF RenewedSlots, Slots, Total
<1>2. acquires' \in Nat /\ live' \subseteq issued' /\ \A h \in issued' : h.at <= acquires'
  BY DEF HandleInv
<1>3. MagicTellsAge'
  BY <1>1 DEF HandleInv, MagicTellsAge, Recent, Distance
<1>4. UsedSlotHasHandle'
  <2> SUFFICES ASSUME NEW k \in UsedSlots(magics'), k \notin RenewedSlots
               PROVE  \E h \in live' : h.idx = k /\ h.magic = magics'[k]
    BY <1>1 DEF UsedSlotHasHandle
  <2>1. k \in Slots /\ magics'[k] = magics[k] /\ k \in UsedSlots(magics)
    BY DEF UsedSlots
  <2>2. PICK h \in live : h.idx = k /\ h.magic = magics[k]
    BY <2>1 DEF HandleInv, UsedSlotHasHandle
  <2> QED  BY <2>1, <2>2
<1>5. LiveIsNewest'
  <2> SUFFICES ASSUME NEW h \in live', h.idx \notin RenewedSlots
               PROVE  /\ h.idx \in Slots /\ magics'[h.idx] = h.magic
                      /\ \A g \in issued : g.idx = h.idx => g.at <= h.at
    BY <1>1 DEF LiveIsNewest
  <2>1. /\ h.idx \in Slots /\ magics[h.idx] = h.magic
        /\ \A g \in issued : g.idx = h.idx => g.at <= h.at
    BY DEF HandleInv, LiveIsNewest
  <2> QED  BY <2>1
<1> QED  BY <1>2, <1>3, <1>4, <1>5 DEF HandleInv

LEMMA ReleaseKeeps ==
  ASSUME PoolAssumption, IInv, HandleInv, NEW h \in issued, Release(h)
  PROVE  HandleInv'
<1>1. /\ Recent(h) /\ ReleaseSlot(h) /\ live' = live \ {h}
      /\ UNCHANGED <<chunks, autoMagic, acquires, issued>>
  BY DEF Release
<1>2. /\ DOMAIN magics = Slots /\ live \subseteq issued
      /\ h.magic \in 1 .. MAX_MAGIC /\ h.at \in Nat
      /\ \A g \in issued : g.at \in Nat
  BY IInvFacts DEF IInv, TypeOK, HandleInv
<1>3. [idx |-> h.idx, magic |-> h.magic] # NullHandle
  BY <1>2 DEF NullHandle
<1>4. CASE Resolves([idx |-> h.idx, magic |-> h.magic])
  <2>1. h.idx \in Slots /\ magics[h.idx] = h.magic /\ magics' = SetMagic(magics, h.idx, 0)
    BY <1>1, <1>4 DEF ReleaseSlot, Resolves
  <2>2. /\ DOMAIN magics' = DOMAIN magics /\ magics'[h.idx] = 0
        /\ \A k \in Slots : k # h.idx => magics'[k] = magics[k]
    BY <1>2, <2>1 DEF SetMagic
  <2>3. ASSUME NEW g \in live', g.idx = h.idx PROVE h.idx \in RenewedSlots
    <3> SUFFICES ASSUME h.idx \notin RenewedSlots PROVE FALSE
      OBVIOUS
    <3>1. h \in live
      BY <1>1, <1>4, InvDecides DEF StaleHandleRejected
    <3>2. g \in live /\ g # h /\ g \in issued
      BY <1>1, <1>2, <2>3
    <3>3. g.at <= h.at /\ h.at <= g.at
      BY <1>2, <2>3, <3>1, <3>2 DEF HandleInv, LiveIsNewest
    <3>4. g.at = h.at
      BY <1>2, <3>2, <3>3
    <3> QED  BY <3>2, <3>4, OneHandlePerAge
  <2>4. h.idx \notin UsedSlots(magics')
    BY <2>2 DEF UsedSlots
  <2> QED  BY <1>1, <1>2, <2>2, <2>3, <2>4, SlotStepKeeps
<1>5. CASE ~ Resolves([idx |-> h.idx, magic |-> h.magic])
  <2>1. magics' = magics
    BY <1>1, <1>5 DEF ReleaseSlot
  <2>2. h \in live => h.idx \in RenewedSlots
    BY <1>3, <1>5 DEF HandleInv, LiveIsNewest, Resolves
  <2>3. CASE h.idx \in RenewedSlots
    <3>1. RenewedSlots' = RenewedSlots /\ Slots' = Slots
      BY <1>1 DEF RenewedSlots, Slots, Total
    <3>2. MagicTellsAge'
      BY <1>1, <3>1 DEF HandleInv, MagicTellsAge, Recent, Distance
    <3>3. UsedSlotHasHandle'
      BY <1>1, <2>1, <2>3, <3>1 DEF HandleInv, UsedSlotHasHandle
    <3>4. LiveIsNewest'
      BY <1>1, <2>1, <3>1 DEF HandleInv, LiveIsNewest
    <3> QED  BY <1>1, <3>2, <3>3, <3>4 DEF HandleInv
  <2>4. CASE h \notin live
    <3>1. live' = live
      BY <1>1, <2>4
    <3> QED  BY <1>1, <1>2, <2>1, <3>1, SlotStepKeeps
  <2> QED  BY <2>2, <2>3, <2>4
<1> QED  BY <1>4, <1>5

LEMMA ReNewKeeps ==
  ASSUME PoolAssumption, IInv, HandleInv, NEW h \in issued, ReNew(h)
  PROVE  HandleInv'
<1> DEFINE new == [idx |-> h.idx, magic |-> IncMagic(h.magic), at |-> h.at]
<1>1. /\ Recent(h) /\ Resolves([idx |-> h.idx, magic |-> h.magic])
      /\ magics' = SetMagic(magics, h.idx, new.magic)
      /\ issued' = issued \cup {new} /\ live' = (live \ {h}) \cup {new}
      /\ UNCHANGED <<chunks, autoMagic, acquires>>
  BY DEF ReNew
<1>2. /\ acquires \in Nat /\ live \subseteq issued /\ \A g \in issued : g.at <= acquires
      /\ MagicTellsAge /\ UsedSlotHasHandle /\ LiveIsNewest
  BY DEF HandleInv
<1>3. /\ DOMAIN magics = Slots /\ magics[h.idx] = h.magic /\ h.idx \in Slots
      /\ h = [idx |-> h.idx, magic |-> h.magic, at |-> h.at]
  BY <1>1, IInvFacts DEF Resolves, IInv, TypeOK
<1>4. new.idx = h.idx /\ new.at = h.at
  OBVIOUS
<1>5. RenewedSlots \subseteq RenewedSlots' /\ Slots' = Slots
  BY <1>1, RenewedStays DEF Slots, Total
<1>6. acquires' \in Nat /\ live' \subseteq issued' /\ \A g \in issued' : g.at <= acquires'
  BY <1>1, <1>2, <1>4
<1>7. CASE new = h
  <2>1. new.magic = h.magic
    BY <1>7
  <2>2. magics' = magics
    BY <1>1, <1>3, <2>1 DEF SetMagic, IInv, TypeOK
  <2>3. issued' = issued /\ live' = live \cup {h}
    BY <1>1, <1>7
  <2>4. RenewedSlots' = RenewedSlots
    BY <2>3 DEF RenewedSlots
  <2>5. h.idx \notin RenewedSlots => h \in live
    BY <1>1, InvDecides DEF StaleHandleRejected
  <2>6. MagicTellsAge'
    BY <1>1, <1>2, <2>3, <2>4 DEF MagicTellsAge, Recent, Distance
  <2>7. UsedSlotHasHandle'
    BY <1>2, <2>2, <2>3, <2>4 DEF UsedSlotHasHandle
  <2>8. LiveIsNewest'
    BY <1>2, <1>5, <2>2, <2>3, <2>4, <2>5 DEF LiveIsNewest
  <2> QED  BY <1>6, <2>6, <2>7, <2>8 DEF HandleInv
<1>8. CASE new # h
  <2>1. h.idx \in RenewedSlots'
    BY <1>1, <1>4, <1>8 DEF RenewedSlots
  <2> HIDE DEF new
  <2>2. /\ DOMAIN magics' = DOMAIN magics
        /\ \A k \in Slots : k # h.idx => magics'[k] = magics[k]
    BY <1>1, <1>3 DEF SetMagic
  <2>3. MagicTellsAge'
    <3> SUFFICES ASSUME NEW g \in issued', g.idx \notin RenewedSlots', acquires - g.at < MAX_MAGIC
                 PROVE  Distance(g.magic, autoMagic) = acquires - g.at
      BY <1>1 DEF MagicTellsAge, Recent, Distance
    <3>1. g \in issued
      BY <1>1, <1>4, <2>1
    <3> QED  BY <1>2, <1>5, <3>1 DEF MagicTellsAge, Recent
  <2>4. UsedSlotHasHandle'
    <3> SUFFICES ASSUME NEW k \in UsedSlots(magics'), k \notin RenewedSlots'
                 PROVE  \E g \in live' : g.idx = k /\ g.magic = magics'[k]
      BY DEF UsedSlotHasHandle
    <3>1. k \in Slots /\ k # h.idx /\ magics'[k] = magics[k] /\ k \in UsedSlots(magics)
      BY <1>3, <2>1, <2>2 DEF UsedSlots
    <3>2. PICK g \in live : g.idx = k /\ g.magic = magics[k]
      BY <1>2, <1>5, <3>1 DEF UsedSlotHasHandle
    <3>3. g \in live'
      BY <1>1, <3>1, <3>2
    <3> QED  BY <3>1, <3>2, <3>3
  <2>5. LiveIsNewest'
    <3> SUFFICES ASSUME NEW g \in live', g.idx \notin RenewedSlots'
                 PROVE  /\ g.idx \in Slots /\ magics'[g.idx] = g.magic
                        /\ \A f \in issued' : f.idx = g.idx => f.at <= g.at
      BY <1>5 DEF LiveIsNewest
    <3>1. g \in live /\ g.idx # h.idx
      BY <1>1, <1>4, <2>1
    <3>2. /\ g.idx \in Slots /\ magics[g.idx] = g.magic
          /\ \A f \in issued : f.idx = g.idx => f.at <= g.at
      BY <1>2, <1>5, <3>1 DEF LiveIsNewest
    <3> QED  BY <1>1, <1>4, <2>2, <3>1, <3>2
  <2> QED  BY <1>6, <2>3, <2>4, <2>5 DEF HandleInv
<1> QED  BY <1>7, <1>8

LEMMA CloseNextKeeps ==
  ASSUME PoolAssumption, IInv, HandleInv, CloseNextActor
  PROVE  HandleInv'
<1>1. /\ phase = "closing" /\ ReleaseSlot(cursor)
      /\ live' = {h \in live : ~ (h.idx = cursor.idx /\ h.magic = cursor.magic)}
      /\ UNCHANGED <<chunks, autoMagic, acquires, issued>>
  BY DEF CloseNextActor
<1>2. /\ DOMAIN magics = Slots /\ cursor.idx \in UsedSlots(magics)
      /\ cursor.magic = magics[cursor.idx]
  BY <1>1, IInvFacts DEF IInv, CursorOnObject
<1>3. cursor.idx \in Slots /\ magics[cursor.idx] # 0
  BY <1>2 DEF UsedSlots
<1>4. Resolves([idx |-> cursor.idx, magic |-> cursor.magic])
  <2>1. [idx |-> cursor.idx, magic |-> cursor.magic] # NullHandle
    BY <1>2, <1>3 DEF NullHandle
  <2> QED  BY <1>2, <1>3, <2>1 DEF Resolves
<1>5. magics' = SetMagic(magics, cursor.idx, 0)
  BY <1>1, <1>4 DEF ReleaseSlot
<1>6. /\ DOMAIN magics' = DOMAIN magics /\ magics'[cursor.idx] = 0
      /\ \A k \in Slots : k # cursor.idx => magics'[k] = magics[k]
  BY <1>2, <1>3, <1>5 DEF SetMagic
<1>7. cursor.idx \notin UsedSlots(magics')
  BY <1>6 DEF UsedSlots
<1>8. \A h \in live' : h.idx = cursor.idx => cursor.idx \in RenewedSlots
  BY <1>1, <1>2 DEF HandleInv, LiveIsNewest
<1>9. live' \subseteq live /\ \A h \in live : h.idx # cursor.idx => h \in live'
  BY <1>1
<1> QED  BY <1>1, <1>2, <1>6, <1>7, <1>8, <1>9, SlotStepKeeps

LEMMA StutterKeeps ==
  ASSUME HandleInv, UNCHANGED <<chunks, magics, autoMagic, acquires, issued, live>>
  PROVE  HandleInv'
  BY DEF HandleInv, MagicTellsAge, UsedSlotHasHandle, LiveIsNewest, Recent, Distance,
         RenewedSlots, UsedSlots, Slots, Total

LEMMA InitHandleInv == ASSUME Init PROVE HandleInv
  BY DEF Init, HandleInv, MagicTellsAge, UsedSlotHasHandle, LiveIsNewest, UsedSlots

LEMMA NextHandleInv ==
  ASSUME PoolAssumption, IInv, IInv', HandleInv, [Next]_vars
  PROVE  HandleInv'
<1>1. CASE Acquire
  BY <1>1, AcquireHandsOut, AcquireKeeps
<1>2. CASE AcquireElsewhere
  BY <1>2, ElsewhereKeeps
<1>3. ASSUME NEW h \in issued, Release(h) \/ ReNew(h) PROVE HandleInv'
  BY <1>3, ReleaseKeeps, ReNewKeeps
<1>4. CASE CloseAllActor
  BY <1>4, StutterKeeps DEF CloseAllActor, poolVars
<1>5. CASE CloseNextActor
  BY <1>5, CloseNextKeeps
<1>6. CASE UNCHANGED vars
  BY <1>6, StutterKeeps DEF vars, poolVars
<1> QED  BY <1>1, <1>2, <1>3, <1>4, <1>5, <1>6 DEF Next

-----------------------------------------------------------------------------
\* GetDataPtr of HandleMgr.h finds an object for a recent handle exactly when the
\* handle's own object still exists: a stale handle never reaches the object that
\* took over the slot, whatever the number of slots and of magics.
THEOREM StaleHandlesRejected == Spec => []StaleHandleRejected
<1>1. Init => HandleInv
  BY InitHandleInv
<1>2. IInv /\ IInv' /\ HandleInv /\ [Next]_vars => HandleInv'
  BY PoolAssumption, NextHandleInv
<1>3. IInv /\ HandleInv => StaleHandleRejected
  BY PoolAssumption, InvDecides
<1> QED  BY <1>1, <1>2, <1>3, PoolInvariant, PTL DEF Spec

-----------------------------------------------------------------------------
(* Refinement of ObjectPool *)

Held == {[slot |-> h.idx, object |-> h.at] : h \in live}

\* The ideal pool says nothing about the slots that ReNew touched.
LEMMA RenamedStep ==
  ASSUME NEW k \in RenewedSlots, RenewedSlots' = RenewedSlots,
         UsedSlots(magics) \ {k} = UsedSlots(magics') \ {k},
         \A h \in live \cup live' : h.idx # k => h \in live /\ h \in live'
  PROVE  Ideal!Next
<1>1. \A p \in Held \cup Held' : p.slot # k => p \in Held /\ p \in Held'
  BY DEF Held
<1>2. Ideal!Anything(k)
  BY <1>1 DEF Ideal!Anything, Held
<1> QED  BY <1>2 DEF Ideal!Next

\* What the tables do is Create when an object is handed out.
LEMMA HandsOutCreates ==
  ASSUME PoolAssumption, IInv, HandleInv, Slots' \subseteq 0 .. MAX_INDEX,
         acquires < MaxHandles, NEW index, HandsOut(index)
  PROVE  Ideal!Next
<1> DEFINE new == [idx |-> index, magic |-> autoMagic', at |-> acquires + 1]
<1>1. /\ index \in 0 .. MAX_INDEX /\ index \notin UsedSlots(magics)
      /\ UsedSlots(magics') = UsedSlots(magics) \cup {index}
      /\ issued' = issued \cup {new} /\ live' = live \cup {new}
  BY DEF HandsOut
<1>2. /\ acquires \in Nat /\ MaxHandles \in Nat /\ live \subseteq issued
      /\ \A h \in issued : h.at \in Nat /\ h.at <= acquires
  BY DEF HandleInv, PoolAssumption, IInv, TypeOK
<1>3. new.idx = index /\ new.at = acquires + 1
  OBVIOUS
<1> HIDE DEF new
<1>4. acquires + 1 \in 1 .. MaxHandles /\ \A h \in issued : h.at # acquires + 1
  BY <1>2
<1>5. RenewedSlots' = RenewedSlots
  <2>1. \A x \in issued' : (\E g \in issued' : g.at = x.at /\ g # x)
                           <=> x \in issued /\ \E g \in issued : g.at = x.at /\ g # x
    BY <1>1, <1>3, <1>4
  <2> QED  BY <1>1, <2>1 DEF RenewedSlots
<1>6. Held' = Held \cup {[slot |-> index, object |-> acquires + 1]}
  BY <1>1, <1>3 DEF Held
<1>7. \A p \in Held : p.object # acquires + 1
  BY <1>2, <1>4 DEF Held
<1>8. \E o \in 1 .. MaxHandles : Ideal!Create(index, o)
  <2>1. PICK o \in 1 .. MaxHandles : o = acquires + 1
    BY <1>4
  <2>2. Ideal!Create(index, o)
    BY <1>1, <1>5, <1>6, <1>7, <2>1 DEF Ideal!Create, Held
  <2> QED  BY <2>2
<1> QED  BY <1>1, <1>8 DEF Ideal!Next

\* A slot is emptied: the holder of its object is the one that gives it back, and
\* the only live handle of the slot goes.
LEMMA EmptyingDestroys ==
  ASSUME PoolAssumption, IInv, HandleInv, UNCHANGED issued,
         NEW h \in live, h.idx \notin RenewedSlots,
         UsedSlots(magics') = UsedSlots(magics) \ {h.idx},
         live' \subseteq live, h \notin live', \A g \in live : g.idx # h.idx => g \in live'
  PROVE  Ideal!Next
<1>1. live \subseteq issued /\ \A g \in issued : g.at \in Nat /\ g.magic \in 1 .. MAX_MAGIC
  BY DEF HandleInv, IInv, TypeOK
<1>2. \A g \in live : g.idx = h.idx => g = h
  <2> SUFFICES ASSUME NEW g \in live, g.idx = h.idx PROVE g = h
    OBVIOUS
  <2>1. g.at <= h.at /\ h.at <= g.at
    BY <1>1 DEF HandleInv, LiveIsNewest
  <2>2. g.at = h.at
    BY <1>1, <2>1
  <2> QED  BY <1>1, <2>2, OneHandlePerAge
<1>3. h.idx \in UsedSlots(magics)
  <2>1. h.idx \in Slots /\ magics[h.idx] = h.magic
    BY DEF HandleInv, LiveIsNewest
  <2>2. DOMAIN magics = Slots /\ h.magic # 0
    <3>1. h \in issued
      BY <1>1
    <3> QED  BY <1>1, <3>1, IInvFacts
  <2> QED  BY <2>1, <2>2 DEF UsedSlots
<1> DEFINE p == [slot |-> h.idx, object |-> h.at]
<1>4. p \in Held /\ p.slot = h.idx
  BY DEF Held
<1>5. live' = live \ {h}
  BY <1>2
<1>6. Held' = Held \ {p}
  BY <1>2, <1>5 DEF Held
<1>7. RenewedSlots' = RenewedSlots
  BY DEF RenewedSlots
<1> HIDE DEF p
<1>8. Ideal!Destroy(p)
  BY <1>3, <1>4, <1>6, <1>7 DEF Ideal!Destroy, Held
<1> QED  BY <1>4, <1>8 DEF Ideal!Next, Held

LEMMA ReleaseRefines ==
  ASSUME PoolAssumption, IInv, HandleInv, NEW h \in issued, Release(h)
  PROVE  Ideal!Next \/ UNCHANGED <<UsedSlots(magics), Held, RenewedSlots>>
<1>1. Recent(h) /\ ReleaseSlot(h) /\ live' = live \ {h} /\ UNCHANGED issued
  BY DEF Release
<1>2. /\ DOMAIN magics = Slots /\ h.magic \in 1 .. MAX_MAGIC
      /\ RenewedSlots' = RenewedSlots
  BY <1>1, IInvFacts DEF IInv, TypeOK, RenewedSlots
<1>3. CASE Resolves([idx |-> h.idx, magic |-> h.magic])
  <2>1. h.idx \in Slots /\ magics' = SetMagic(magics, h.idx, 0)
    BY <1>1, <1>3 DEF ReleaseSlot, Resolves
  <2>2. UsedSlots(magics') = UsedSlots(magics) \ {h.idx}
    BY <1>2, <2>1 DEF UsedSlots, SetMagic
  <2>3. CASE h.idx \in RenewedSlots
    BY <1>1, <1>2, <2>2, <2>3, RenamedStep
  <2>4. CASE h.idx \notin RenewedSlots
    <3>1. h \in live
      BY <1>1, <1>3, <2>4, InvDecides DEF StaleHandleRejected
    <3> QED  BY <1>1, <2>2, <2>4, <3>1, EmptyingDestroys
  <2> QED  BY <2>3, <2>4
<1>4. CASE ~ Resolves([idx |-> h.idx, magic |-> h.magic])
  <2>1. magics' = magics
    BY <1>1, <1>4 DEF ReleaseSlot
  <2>2. CASE h \in live
    <3>1. h.idx \in RenewedSlots
      <4>1. [idx |-> h.idx, magic |-> h.magic] # NullHandle
        BY <1>2 DEF NullHandle
      <4> QED  BY <1>4, <2>2, <4>1 DEF HandleInv, LiveIsNewest, Resolves
    <3> QED  BY <1>1, <1>2, <2>1, <3>1, RenamedStep
  <2>3. CASE h \notin live
    BY <1>1, <1>2, <2>1, <2>3 DEF Held
  <2> QED  BY <2>2, <2>3
<1> QED  BY <1>3, <1>4

LEMMA ReNewRefines ==
  ASSUME PoolAssumption, IInv, HandleInv, NEW h \in issued, ReNew(h)
  PROVE  Ideal!Next \/ UNCHANGED <<UsedSlots(magics), Held, RenewedSlots>>
<1> DEFINE new == [idx |-> h.idx, magic |-> IncMagic(h.magic), at |-> h.at]
<1>1. /\ Recent(h) /\ Resolves([idx |-> h.idx, magic |-> h.magic])
      /\ magics' = SetMagic(magics, h.idx, new.magic)
      /\ issued' = issued \cup {new} /\ live' = (live \ {h}) \cup {new}
  BY DEF ReNew
<1>2. /\ DOMAIN magics = Slots /\ Slots \subseteq 0 .. MAX_INDEX
      /\ h.magic \in 1 .. MAX_MAGIC
      /\ magics[h.idx] = h.magic /\ h.idx \in Slots
  BY <1>1, IInvFacts DEF Resolves, IInv, TypeOK
<1>3. new.magic \in 1 .. MAX_MAGIC
  BY <1>2, IncMagicType DEF PoolAssumption
<1>4. new.idx = h.idx /\ new.at = h.at
  OBVIOUS
<1> HIDE DEF new
<1>5. UsedSlots(magics') = UsedSlots(magics) /\ h.idx \in UsedSlots(magics)
  BY <1>1, <1>2, <1>3 DEF UsedSlots, SetMagic
<1>6. RenewedSlots' = RenewedSlots \/ RenewedSlots' = RenewedSlots \cup {h.idx}
  <2>1. RenewedSlots \subseteq RenewedSlots'
    BY <1>1, RenewedStays
  <2>2. \A x \in issued', g \in issued' : g.at = x.at /\ g # x => x.idx \in RenewedSlots \cup {h.idx}
    <3> SUFFICES ASSUME NEW x \in issued', NEW g \in issued', g.at = x.at, g # x, x.idx # h.idx
                 PROVE  x.idx \in RenewedSlots
      OBVIOUS
    <3>1. x \in issued /\ x # h
      BY <1>1, <1>4
    <3>2. CASE g \in issued
      BY <3>1, <3>2 DEF RenewedSlots
    <3>3. CASE g = new
      BY <1>4, <3>1, <3>3 DEF RenewedSlots
    <3> QED  BY <1>1, <3>2, <3>3
  <2>3. RenewedSlots' \subseteq RenewedSlots \cup {h.idx}
    BY <2>2 DEF RenewedSlots
  <2> QED  BY <2>1, <2>3
<1>7. CASE h.idx \in RenewedSlots
  <2>1. RenewedSlots' = RenewedSlots
    BY <1>6, <1>7
  <2>2. \A g \in live \cup live' : g.idx # h.idx => g \in live /\ g \in live'
    BY <1>1, <1>4
  <2> QED  BY <1>5, <1>7, <2>1, <2>2, RenamedStep
<1>8. CASE h.idx \notin RenewedSlots
  <2>1. h \in live
    BY <1>1, <1>8, InvDecides DEF StaleHandleRejected
  <2>2. Held' = Held
    BY <1>1, <1>4, <2>1 DEF Held
  <2>3. CASE RenewedSlots' = RenewedSlots \cup {h.idx}
    <3>1. Ideal!ReName(h.idx)
      BY <1>5, <2>2, <2>3 DEF Ideal!ReName, Held
    <3> QED  BY <1>2, <3>1 DEF Ideal!Next
  <2>4. CASE RenewedSlots' = RenewedSlots
    BY <1>5, <2>2, <2>4
  <2> QED  BY <1>6, <2>3, <2>4
<1> QED  BY <1>7, <1>8

LEMMA CloseNextRefines ==
  ASSUME PoolAssumption, IInv, HandleInv, CloseNextActor
  PROVE  Ideal!Next
<1>1. /\ phase = "closing" /\ ReleaseSlot(cursor) /\ UNCHANGED issued
      /\ live' = {h \in live : ~ (h.idx = cursor.idx /\ h.magic = cursor.magic)}
  BY DEF CloseNextActor
<1>2. /\ DOMAIN magics = Slots /\ cursor.idx \in UsedSlots(magics)
      /\ cursor.magic = magics[cursor.idx]
  BY <1>1, IInvFacts DEF IInv, CursorOnObject
<1>3. cursor.idx \in Slots /\ magics[cursor.idx] # 0
  BY <1>2 DEF UsedSlots
<1>4. Resolves([idx |-> cursor.idx, magic |-> cursor.magic])
  <2>1. [idx |-> cursor.idx, magic |-> cursor.magic] # NullHandle
    BY <1>2, <1>3 DEF NullHandle
  <2> QED  BY <1>2, <1>3, <2>1 DEF Resolves
<1>5. magics' = SetMagic(magics, cursor.idx, 0) /\ RenewedSlots' = RenewedSlots
  BY <1>1, <1>4 DEF ReleaseSlot, RenewedSlots
<1>6. UsedSlots(magics') = UsedSlots(magics) \ {cursor.idx}
  BY <1>2, <1>3, <1>5 DEF UsedSlots, SetMagic
<1>7. CASE cursor.idx \in RenewedSlots
  BY <1>1, <1>5, <1>6, <1>7, RenamedStep
<1>8. CASE cursor.idx \notin RenewedSlots
  <2>1. PICK h \in live : h.idx = cursor.idx /\ h.magic = cursor.magic
    BY <1>2, <1>8 DEF HandleInv, UsedSlotHasHandle
  <2>2. h \notin live' /\ live' \subseteq live /\ \A g \in live : g.idx # h.idx => g \in live'
    BY <1>1, <2>1
  <2> QED  BY <1>1, <1>6, <1>8, <2>1, <2>2, EmptyingDestroys
<1> QED  BY <1>7, <1>8

LEMMA NextRefines ==
  ASSUME PoolAssumption, IInv, IInv', HandleInv, [Next]_vars
  PROVE  Ideal!Next \/ UNCHANGED <<UsedSlots(magics), Held, RenewedSlots>>
<1>1. CASE Acquire
  <2>1. acquires < MaxHandles /\ Slots' \subseteq 0 .. MAX_INDEX
    BY <1>1 DEF Acquire, IInv, TypeOK
  <2> QED  BY <1>1, <2>1, AcquireHandsOut, HandsOutCreates
<1>2. CASE AcquireElsewhere \/ CloseAllActor \/ UNCHANGED vars
  BY <1>2 DEF AcquireElsewhere, CloseAllActor, vars, poolVars, Held, RenewedSlots
<1>3. ASSUME NEW h \in issued, Release(h) \/ ReNew(h)
      PROVE  Ideal!Next \/ UNCHANGED <<UsedSlots(magics), Held, RenewedSlots>>
  BY <1>3, ReleaseRefines, ReNewRefines
<1>4. CASE CloseNextActor
  BY <1>4, CloseNextRefines
<1> QED  BY <1>1, <1>2, <1>3, <1>4 DEF Next

\* The tables of HandleMgr implement the ideal pool: an object is only ever put into a
\* free slot, and stays there until its own handle is released, whatever other handles
\* are released late or twice; slots that ReNew touched are excepted.
THEOREM PoolRefinesIdeal == Spec => ImplementsIdealPool
<1>1. Init => HandleInv
  BY InitHandleInv
<1>2. IInv /\ IInv' /\ HandleInv /\ [Next]_vars => HandleInv'
  BY PoolAssumption, NextHandleInv
<1>3. Init => Ideal!Init
  BY DEF Init, Ideal!Init, UsedSlots, RenewedSlots
<1>4. IInv /\ IInv' /\ HandleInv /\ [Next]_vars =>
        [Ideal!Next]_<<UsedSlots(magics), {[slot |-> h.idx, object |-> h.at] : h \in live}, RenewedSlots>>
  BY PoolAssumption, NextRefines DEF Held
<1> QED  BY <1>1, <1>2, <1>3, <1>4, PoolInvariant, PTL DEF Spec, ImplementsIdealPool, Ideal!Spec
=============================================================================
