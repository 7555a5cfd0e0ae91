---------------------------- MODULE HandleMgrProofs ----------------------------
(***************************************************************************)
(* Proofs about HandleMgr for every chunk size, number of chunks and       *)
(* number of magics: the free lists and counters of the pool are exact     *)
(* (IInv is inductive).  StaleHandleProofs goes on from there.             *)
(***************************************************************************)
EXTENDS HandleMgr, FiniteSetTheorems, TLAPS

\* The walk of CloseAllActor stands on an object that exists: what it releases is one.
CursorOnObject ==
  phase = "closing" => cursor.idx \in UsedSlots(magics) /\ cursor.magic = magics[cursor.idx]

\* The inductive invariant.  The scan of Acquire trusts the counters, and the
\* counters are only right if no slot is handed out twice, so each conjunct
\* needs the others.
IInv ==
  /\ TypeOK
  /\ cursor \in [idx : Nat, magic : 0 .. MAX_MAGIC]
  /\ FrontierUnused
  /\ FirstFreeIsLowest
  /\ CountsExact
  /\ CursorOnObject

-----------------------------------------------------------------------------
(* Lemmas about the operators of the pool *)

\* A set of numbers below a bound has a least element, and Min returns it.
LEMMA MinIsLeast ==
  ASSUME NEW n \in Nat, NEW S \in SUBSET (0 .. n), S # {}
  PROVE  Min(S) \in S /\ \A y \in S : Min(S) <= y
<1> DEFINE upTo(x) == {y \in S : y <= x}
           T == {upTo(x) : x \in S}
<1>1. IsFiniteSet(S)
  <2>1. IsFiniteSet(0 .. n)
    BY FS_Interval
  <2> QED
    BY <2>1, FS_Subset
<1>2. IsWellFoundedOn(StrictSubsetOrdering(S), FiniteSubsetsOf(S))
  BY FS_StrictSubsetOrderingWellFounded
<1>3. T \subseteq FiniteSubsetsOf(S)
  <2> SUFFICES ASSUME NEW x \in S PROVE upTo(x) \in FiniteSubsetsOf(S)
    OBVIOUS
  <2> QED
    BY <1>1, FS_Subset DEF FiniteSubsetsOf
<1>4. PICK U \in T : \A V \in T : ~ (<<V, U>> \in StrictSubsetOrdering(S))
  <2>1. T # {}
    OBVIOUS
  <2> HIDE DEF T
  <2>2. \E U \in T : \A V \in T : ~ (<<V, U>> \in StrictSubsetOrdering(S))
    BY <1>2, <1>3, <2>1, WFMin
  <2> QED
    BY <2>2
<1>5. PICK x \in S : U = upTo(x)
  OBVIOUS
<1>6. \A y \in S : x <= y
  <2> SUFFICES ASSUME NEW y \in S, y < x PROVE FALSE
    OBVIOUS
  <2>1. upTo(y) \in T /\ upTo(y) \in SUBSET S /\ upTo(x) \in SUBSET S
    OBVIOUS
  <2>2. upTo(y) \subseteq upTo(x) /\ x \in upTo(x) /\ x \notin upTo(y)
    <3>1. x \in Int /\ y \in Int /\ ~ (x <= y) /\ x <= x
      OBVIOUS
    <3>2. \A z \in S : z <= y => z <= x
      OBVIOUS
    <3> QED
      BY <3>1, <3>2
  <2>3. <<upTo(y), upTo(x)>> \in StrictSubsetOrdering(S)
    BY <2>1, <2>2 DEF StrictSubsetOrdering
  <2> QED
    BY <1>4, <1>5, <2>1, <2>3
<1> QED
  BY <1>6 DEF Min

\* What LeastOr returns, and that only the least element is it.
LEMMA LeastOrValue ==
  ASSUME NEW n \in Nat, NEW S \in SUBSET (0 .. n), NEW d
  PROVE  /\ S = {} => LeastOr(S, d) = d
         /\ S # {} => LeastOr(S, d) \in S /\ \A y \in S : LeastOr(S, d) <= y
<1>1. CASE S = {}
  BY <1>1 DEF LeastOr
<1>2. CASE S # {}
  <2>1. LeastOr(S, d) = Min(S)
    BY <1>2 DEF LeastOr
  <2>2. Min(S) \in S /\ \A y \in S : Min(S) <= y
    BY <1>2, MinIsLeast
  <2> QED
    BY <1>2, <2>1, <2>2
<1> QED
  BY <1>1, <1>2

LEMMA LeastOrUnique ==
  ASSUME NEW n \in Nat, NEW S \in SUBSET (0 .. n), NEW d,
         NEW x \in S, \A y \in S : x <= y
  PROVE  LeastOr(S, d) = x
<1>1. LeastOr(S, d) \in S /\ \A y \in S : LeastOr(S, d) <= y
  BY LeastOrValue
<1>2. \A y \in S : y \in Int
  OBVIOUS
<1>3. LeastOr(S, d) <= x /\ x <= LeastOr(S, d)
  BY <1>1
<1>4. LeastOr(S, d) \in Int /\ x \in Int
  BY <1>1, <1>2
<1> QED
  BY <1>3, <1>4

\* GetChunkIdPos maps the slots of n chunks to the chunks 0 .. n - 1.
LEMMA ChunkOfSlot ==
  ASSUME PoolAssumption, NEW n \in Nat
  PROVE  /\ \A k \in 0 .. n * ONE_CHUNK_COUNT - 1 : Chunk(k) \in 0 .. n - 1
         /\ \A k \in Nat :
              Chunk(k) = n <=> k \in n * ONE_CHUNK_COUNT .. n * ONE_CHUNK_COUNT + ONE_CHUNK_COUNT - 1
  BY DEF PoolAssumption, Chunk

\* The magic a handle gets is never the null magic 0.
LEMMA IncMagicType ==
  ASSUME PoolAssumption, NEW m \in 0 .. MAX_MAGIC
  PROVE  IncMagic(m) \in 1 .. MAX_MAGIC
  BY DEF PoolAssumption, IncMagic

\* The magics and free counts of n chunks agree.
Exact(n, mg, fc) ==
  /\ mg \in [0 .. n * ONE_CHUNK_COUNT - 1 -> 0 .. MAX_MAGIC]
  /\ fc \in [0 .. n - 1 -> 0 .. ONE_CHUNK_COUNT]
  /\ \A c \in 0 .. n - 1 : fc[c] = Cardinality(FreeSlots(mg, c))

\* The sets of slots are finite.
LEMMA SlotSetsFinite ==
  ASSUME PoolAssumption, NEW n \in Nat,
         NEW mg \in [0 .. n * ONE_CHUNK_COUNT - 1 -> 0 .. MAX_MAGIC]
  PROVE  /\ IsFiniteSet(UsedSlots(mg)) /\ Cardinality(UsedSlots(mg)) \in Nat
         /\ \A c : IsFiniteSet(FreeSlots(mg, c)) /\ Cardinality(FreeSlots(mg, c)) \in Nat
<1>1. n * ONE_CHUNK_COUNT - 1 \in Int
  BY DEF PoolAssumption
<1>2. IsFiniteSet(0 .. n * ONE_CHUNK_COUNT - 1)
  BY <1>1, FS_Interval
<1>3. UsedSlots(mg) \in SUBSET (0 .. n * ONE_CHUNK_COUNT - 1)
  BY DEF UsedSlots
<1>4. \A c : FreeSlots(mg, c) \in SUBSET (0 .. n * ONE_CHUNK_COUNT - 1)
  BY DEF FreeSlots
<1> HIDE DEF UsedSlots, FreeSlots
<1> QED
  BY <1>2, <1>3, <1>4, FS_Subset, FS_CardinalityType

\* Putting an object into a free slot keeps the counts exact.
LEMMA OccupySlot ==
  ASSUME PoolAssumption, NEW n \in Nat, NEW mg, NEW fc, Exact(n, mg, fc),
         NEW index \in DOMAIN mg, mg[index] = 0, NEW m \in 1 .. MAX_MAGIC
  PROVE  /\ Exact(n, SetMagic(mg, index, m), AddFree(fc, index, -1))
         /\ Cardinality(UsedSlots(SetMagic(mg, index, m))) = Cardinality(UsedSlots(mg)) + 1
<1> DEFINE mg2 == SetMagic(mg, index, m)
           fc2 == AddFree(fc, index, -1)
<1> USE DEF SetMagic, AddFree
<1>1. /\ mg \in [0 .. n * ONE_CHUNK_COUNT - 1 -> 0 .. MAX_MAGIC]
      /\ fc \in [0 .. n - 1 -> 0 .. ONE_CHUNK_COUNT]
      /\ \A c \in 0 .. n - 1 : fc[c] = Cardinality(FreeSlots(mg, c))
  BY DEF Exact
<1>2. index \in 0 .. n * ONE_CHUNK_COUNT - 1 /\ Chunk(index) \in 0 .. n - 1
  <2>1. index \in 0 .. n * ONE_CHUNK_COUNT - 1
    BY <1>1
  <2> QED
    BY <2>1, ChunkOfSlot
<1>3. mg2 \in [0 .. n * ONE_CHUNK_COUNT - 1 -> 0 .. MAX_MAGIC]
  BY <1>1
<1>4. UsedSlots(mg2) = UsedSlots(mg) \cup {index} /\ index \notin UsedSlots(mg)
  BY <1>1 DEF UsedSlots
<1>5. Cardinality(UsedSlots(mg2)) = Cardinality(UsedSlots(mg)) + 1
  <2>1. IsFiniteSet(UsedSlots(mg))
    BY <1>1, SlotSetsFinite
  <2> HIDE DEF mg2
  <2> QED
    BY <1>4, <2>1, FS_AddElement
<1>6. FreeSlots(mg2, Chunk(index)) = FreeSlots(mg, Chunk(index)) \ {index}
  BY <1>1 DEF FreeSlots
<1>7. index \in FreeSlots(mg, Chunk(index))
  BY <1>1 DEF FreeSlots
<1>8. Cardinality(FreeSlots(mg2, Chunk(index))) = Cardinality(FreeSlots(mg, Chunk(index))) - 1
  <2>1. IsFiniteSet(FreeSlots(mg, Chunk(index)))
    BY <1>1, SlotSetsFinite
  <2>2. Cardinality(FreeSlots(mg, Chunk(index)) \ {index}) = Cardinality(FreeSlots(mg, Chunk(index))) - 1
    BY ONLY <1>7, <2>1, FS_RemoveElement
  <2> QED
    BY ONLY <1>6, <2>2
<1>9. \A c : c # Chunk(index) => FreeSlots(mg2, c) = FreeSlots(mg, c)
  BY <1>1 DEF FreeSlots
<1>10. Cardinality(FreeSlots(mg2, Chunk(index))) \in Nat
  BY <1>3, SlotSetsFinite
<1>11. fc2 \in [0 .. n - 1 -> 0 .. ONE_CHUNK_COUNT]
  <2>1. fc[Chunk(index)] - 1 \in 0 .. ONE_CHUNK_COUNT
    BY <1>1, <1>2, <1>8, <1>10 DEF PoolAssumption
  <2> QED
    BY <1>1, <2>1
<1>12. \A c \in 0 .. n - 1 : fc2[c] = Cardinality(FreeSlots(mg2, c))
  BY <1>1, <1>2, <1>8, <1>9
<1> QED
  BY <1>3, <1>4, <1>5, <1>11, <1>12 DEF Exact

\* Releasing the object of a slot keeps the counts exact.
LEMMA VacateSlot ==
  ASSUME PoolAssumption, NEW n \in Nat, NEW mg, NEW fc, Exact(n, mg, fc),
         NEW index \in DOMAIN mg, mg[index] # 0
  PROVE  /\ Exact(n, SetMagic(mg, index, 0), AddFree(fc, index, 1))
         /\ Cardinality(UsedSlots(SetMagic(mg, index, 0))) = Cardinality(UsedSlots(mg)) - 1
<1> DEFINE mg2 == SetMagic(mg, index, 0)
           fc2 == AddFree(fc, index, 1)
<1> USE DEF SetMagic, AddFree
<1>1. /\ mg \in [0 .. n * ONE_CHUNK_COUNT - 1 -> 0 .. MAX_MAGIC]
      /\ fc \in [0 .. n - 1 -> 0 .. ONE_CHUNK_COUNT]
      /\ \A c \in 0 .. n - 1 : fc[c] = Cardinality(FreeSlots(mg, c))
  BY DEF Exact
<1>2. index \in 0 .. n * ONE_CHUNK_COUNT - 1 /\ Chunk(index) \in 0 .. n - 1
  <2>1. index \in 0 .. n * ONE_CHUNK_COUNT - 1
    BY <1>1
  <2> QED
    BY <2>1, ChunkOfSlot
<1>3. mg2 \in [0 .. n * ONE_CHUNK_COUNT - 1 -> 0 .. MAX_MAGIC]
  BY <1>1 DEF PoolAssumption
<1>4. UsedSlots(mg2) = UsedSlots(mg) \ {index} /\ index \in UsedSlots(mg)
  BY <1>1 DEF UsedSlots
<1>5. Cardinality(UsedSlots(mg2)) = Cardinality(UsedSlots(mg)) - 1
  <2>1. IsFiniteSet(UsedSlots(mg))
    BY <1>1, SlotSetsFinite
  <2> HIDE DEF mg2
  <2> QED
    BY <1>4, <2>1, FS_RemoveElement
<1>6. FreeSlots(mg2, Chunk(index)) = FreeSlots(mg, Chunk(index)) \cup {index}
  BY <1>1 DEF FreeSlots
<1>7. index \notin FreeSlots(mg, Chunk(index))
  BY <1>1 DEF FreeSlots
<1>8. Cardinality(FreeSlots(mg2, Chunk(index))) = Cardinality(FreeSlots(mg, Chunk(index))) + 1
  <2>1. IsFiniteSet(FreeSlots(mg, Chunk(index)))
    BY <1>1, SlotSetsFinite
  <2> HIDE DEF mg2
  <2> QED
    BY <1>6, <1>7, <2>1, FS_AddElement
<1>9. \A c : c # Chunk(index) => FreeSlots(mg2, c) = FreeSlots(mg, c)
  BY <1>1 DEF FreeSlots
<1>10. Cardinality(FreeSlots(mg2, Chunk(index))) \in 0 .. ONE_CHUNK_COUNT
  <2> DEFINE lo == Chunk(index) * ONE_CHUNK_COUNT
             hi == lo + ONE_CHUNK_COUNT - 1
  <2>1. lo \in Int /\ hi \in Int /\ ~ (lo > hi) /\ hi - lo + 1 = ONE_CHUNK_COUNT
    BY <1>2 DEF PoolAssumption
  <2>2. FreeSlots(mg2, Chunk(index)) \in SUBSET (lo .. hi)
    <3>1. \A k \in Nat : Chunk(k) = Chunk(index) => k \in lo .. hi
      <4>1. Chunk(index) \in Nat
        BY <1>2
      <4> QED
        BY <4>1, ChunkOfSlot
    <3>2. FreeSlots(mg2, Chunk(index)) \subseteq {k \in Nat : Chunk(k) = Chunk(index)}
      BY <1>3 DEF FreeSlots
    <3> QED
      BY <3>1, <3>2
  <2> HIDE DEF lo, hi, mg2
  <2>3. IsFiniteSet(lo .. hi) /\ Cardinality(lo .. hi) = ONE_CHUNK_COUNT
    BY <2>1, FS_Interval
  <2>4. Cardinality(FreeSlots(mg2, Chunk(index))) <= ONE_CHUNK_COUNT
    BY <2>2, <2>3, FS_Subset
  <2>5. Cardinality(FreeSlots(mg2, Chunk(index))) \in Nat
    BY <1>3, SlotSetsFinite
  <2> QED
    BY <2>4, <2>5 DEF PoolAssumption
<1>11. fc2 \in [0 .. n - 1 -> 0 .. ONE_CHUNK_COUNT]
  <2>1. fc[Chunk(index)] + 1 \in 0 .. ONE_CHUNK_COUNT
    BY <1>1, <1>2, <1>8, <1>10 DEF PoolAssumption
  <2> QED
    BY <1>1, <2>1
<1>12. \A c \in 0 .. n - 1 : fc2[c] = Cardinality(FreeSlots(mg2, c))
  BY <1>1, <1>2, <1>8, <1>9
<1> QED
  BY <1>3, <1>4, <1>5, <1>11, <1>12 DEF Exact

\* Giving the object of a slot another magic changes no count.
LEMMA RenameSlot ==
  ASSUME PoolAssumption, NEW n \in Nat, NEW mg, NEW fc, Exact(n, mg, fc),
         NEW index \in DOMAIN mg, mg[index] # 0, NEW m \in 1 .. MAX_MAGIC
  PROVE  /\ Exact(n, SetMagic(mg, index, m), fc)
         /\ UsedSlots(SetMagic(mg, index, m)) = UsedSlots(mg)
<1> DEFINE mg2 == SetMagic(mg, index, m)
<1> USE DEF SetMagic
<1>1. mg2 \in [0 .. n * ONE_CHUNK_COUNT - 1 -> 0 .. MAX_MAGIC]
  BY DEF Exact
<1>2. UsedSlots(mg2) = UsedSlots(mg)
  BY DEF Exact, UsedSlots
<1>3. \A c : FreeSlots(mg2, c) = FreeSlots(mg, c)
  BY DEF Exact, FreeSlots
<1> QED
  BY <1>1, <1>2, <1>3 DEF Exact

\* A new chunk of free slots keeps the counts exact.
LEMMA AddChunk ==
  ASSUME PoolAssumption, chunks \in Nat, Exact(chunks, magics, freeCounts)
  PROVE  /\ Exact(chunks + 1, GrownMagics, GrownCounts)
         /\ UsedSlots(GrownMagics) = UsedSlots(magics)
<1> DEFINE n == chunks
           mg == magics
           fc == freeCounts
           total == n * ONE_CHUNK_COUNT
           last == total + ONE_CHUNK_COUNT - 1
           mg2 == [k \in 0 .. last |-> IF k \in 0 .. total - 1 THEN mg[k] ELSE 0]
           fc2 == [c \in 0 .. n |-> IF c = n THEN ONE_CHUNK_COUNT ELSE fc[c]]
<1>1. /\ mg \in [0 .. total - 1 -> 0 .. MAX_MAGIC]
      /\ fc \in [0 .. n - 1 -> 0 .. ONE_CHUNK_COUNT]
      /\ \A c \in 0 .. n - 1 : fc[c] = Cardinality(FreeSlots(mg, c))
  BY DEF Exact
<1>2. /\ total \in Nat /\ last \in Int /\ total - 1 < last
      /\ last = (n + 1) * ONE_CHUNK_COUNT - 1
      /\ ~ (total > last) /\ last - total + 1 = ONE_CHUNK_COUNT
  BY DEF PoolAssumption
<1> HIDE DEF total, last
<1>3. mg2 \in [0 .. last -> 0 .. MAX_MAGIC]
  BY <1>1, <1>2 DEF PoolAssumption
<1>4. UsedSlots(mg2) = UsedSlots(mg)
  BY <1>1, <1>2 DEF UsedSlots
<1>5. \A k \in 0 .. total - 1 : Chunk(k) \in 0 .. n - 1
  BY ChunkOfSlot DEF total
<1>6. \A k \in Nat : Chunk(k) = n <=> k \in total .. last
  BY ChunkOfSlot DEF total, last
<1>7. ASSUME NEW c \in 0 .. n - 1 PROVE FreeSlots(mg2, c) = FreeSlots(mg, c)
  <2>1. \A k \in total .. last : Chunk(k) # c
    BY <1>2, <1>6
  <2>2. \A k \in 0 .. last : k \in 0 .. total - 1 \/ k \in total .. last
    BY <1>2
  <2> QED
    BY <1>1, <1>2, <2>1, <2>2, SMTT(30) DEF FreeSlots
<1>8. FreeSlots(mg2, n) = total .. last
  <2>1. \A k \in 0 .. total - 1 : Chunk(k) # n
    BY <1>5
  <2>2. \A k \in total .. last : k \in 0 .. last /\ Chunk(k) = n /\ mg2[k] = 0
    BY <1>2, <1>6
  <2>3. \A k \in 0 .. last : k \in 0 .. total - 1 \/ k \in total .. last
    BY <1>2
  <2> QED
    BY <2>1, <2>2, <2>3 DEF FreeSlots
<1>9. Cardinality(FreeSlots(mg2, n)) = ONE_CHUNK_COUNT
  <2>1. total \in Int /\ Cardinality(total .. last) = IF total > last THEN 0 ELSE last - total + 1
    BY <1>2, FS_Interval
  <2> HIDE DEF mg2
  <2> QED
    BY <1>2, <1>8, <2>1
<1>10. fc2 \in [0 .. n -> 0 .. ONE_CHUNK_COUNT]
  BY <1>1 DEF PoolAssumption
<1>11. \A c \in 0 .. n : fc2[c] = Cardinality(FreeSlots(mg2, c))
  <2> HIDE DEF mg2
  <2> QED
    BY <1>1, <1>7, <1>9
<1>12. Exact(n + 1, mg2, fc2)
  <2> HIDE DEF mg2, fc2
  <2> QED
    BY <1>2, <1>3, <1>10, <1>11 DEF Exact
<1> QED
  BY <1>4, <1>12 DEF total, last, GrownMagics, GrownCounts, Total, Slots

-----------------------------------------------------------------------------
(* What the invariant says in the terms of the lemmas *)

LEMMA IInvFacts ==
  ASSUME PoolAssumption, IInv
  PROVE  /\ chunks \in Nat /\ Total \in Nat /\ Slots \subseteq 0 .. MAX_INDEX
         /\ DOMAIN magics = Slots
         /\ Exact(chunks, magics, freeCounts)
         /\ usedCount = Cardinality(UsedSlots(magics))
         /\ firstFree \in Slots \cup {INVALID_INDEX}
         /\ frontier \in Slots \cup {INVALID_INDEX}
         /\ INVALID_INDEX \in Nat /\ \A k \in Slots : k < INVALID_INDEX
         /\ autoMagic \in 0 .. MAX_MAGIC
<1>1. chunks \in Nat /\ Total \in Nat /\ Slots \subseteq 0 .. MAX_INDEX
  BY DEF IInv, TypeOK, Total, PoolAssumption
<1>2. Exact(chunks, magics, freeCounts)
  BY DEF IInv, TypeOK, CountsExact, Exact, Slots, Total
<1>3. INVALID_INDEX \in Nat /\ \A k \in Slots : k < INVALID_INDEX
  BY <1>1 DEF PoolAssumption
<1> QED
  BY <1>1, <1>2, <1>3 DEF IInv, TypeOK, CountsExact

\* The scan of Acquire skips no free slot behind the one it hands out: the
\* counters it trusts are exact.
LEMMA ScanFindsAll ==
  ASSUME PoolAssumption, IInv, NEW index \in Slots, magics[index] = 0
  PROVE  NextFreeSlots(index) = {k \in Slots : k > index /\ magics[k] = 0}
<1>1. Exact(chunks, magics, freeCounts) /\ chunks \in Nat /\ DOMAIN magics = Slots
  BY IInvFacts
<1>2. magics \in [0 .. chunks * ONE_CHUNK_COUNT - 1 -> 0 .. MAX_MAGIC]
  BY <1>1 DEF Exact
<1>3. ASSUME NEW k \in Slots, k > index, magics[k] = 0
      PROVE  /\ freeCounts[Chunk(k)] > 0
             /\ Chunk(k) = Chunk(index) => freeCounts[Chunk(k)] # 1
  <2> DEFINE F == FreeSlots(magics, Chunk(k))
  <2>1. Chunk(k) \in 0 .. chunks - 1
    BY <1>1, ChunkOfSlot DEF Slots, Total
  <2>2. freeCounts[Chunk(k)] = Cardinality(F)
    BY <1>1, <2>1 DEF Exact
  <2>3. IsFiniteSet(F) /\ Cardinality(F) \in Nat
    BY <1>1, <1>2, SlotSetsFinite
  <2>4. k \in F
    BY <1>1, <1>3 DEF FreeSlots
  <2>5. Chunk(k) = Chunk(index) => index \in F /\ index # k
    BY <1>1, <1>3 DEF FreeSlots, Slots
  <2> HIDE DEF F
  <2>6. Cardinality(F) # 0
    BY <2>3, <2>4, FS_EmptySet
  <2>7. Cardinality(F) = 1 => \E x : F = {x}
    BY <2>3, FS_Singleton
  <2>8. Chunk(k) = Chunk(index) => Cardinality(F) # 1
    BY <2>4, <2>5, <2>7
  <2> QED
    BY <2>2, <2>3, <2>6, <2>8
<1> QED
  BY <1>3 DEF NextFreeSlots

\* Building an object in a free slot.
LEMMA IssueStep ==
  ASSUME PoolAssumption, IInv,
         NEW n \in Nat, NEW mg, NEW fc, Exact(n, mg, fc),
         Cardinality(UsedSlots(mg)) = usedCount,
         NEW index \in DOMAIN mg, mg[index] = 0,
         Issue(index, mg, fc)
  PROVE  /\ autoMagic' \in 1 .. MAX_MAGIC
         /\ magics' = SetMagic(mg, index, autoMagic')
         /\ Exact(n, magics', freeCounts')
         /\ usedCount' = Cardinality(UsedSlots(magics')) /\ usedCount' \in Nat
         /\ acquires' \in Nat
         /\ issued' \subseteq [idx : Nat, magic : 1 .. MAX_MAGIC, at : Nat]
<1>1. autoMagic' \in 1 .. MAX_MAGIC /\ magics' = SetMagic(mg, index, autoMagic')
  BY IncMagicType DEF Issue, IInv, TypeOK
<1>2. freeCounts' = AddFree(fc, index, -1) /\ usedCount' = usedCount + 1
  BY DEF Issue
<1>3. /\ Exact(n, magics', freeCounts')
      /\ Cardinality(UsedSlots(magics')) = Cardinality(UsedSlots(mg)) + 1
  <2>1. Exact(n, SetMagic(mg, index, autoMagic'), AddFree(fc, index, -1))
    BY <1>1, OccupySlot
  <2>2. Cardinality(UsedSlots(SetMagic(mg, index, autoMagic'))) = Cardinality(UsedSlots(mg)) + 1
    BY <1>1, OccupySlot, ZenonT(60)
  <2> QED
    BY <1>1, <1>2, <2>1, <2>2
<1>4. usedCount = Cardinality(UsedSlots(mg)) /\ usedCount \in Nat
  BY DEF IInv, TypeOK
<1>5. index \in Nat
  BY DEF Exact
<1>6. /\ acquires' \in Nat
      /\ issued' \subseteq [idx : Nat, magic : 1 .. MAX_MAGIC, at : Nat]
  <2>1. acquires \in Nat /\ issued \subseteq [idx : Nat, magic : 1 .. MAX_MAGIC, at : Nat]
    BY DEF IInv, TypeOK
  <2>2. /\ acquires' = acquires + 1
        /\ issued' = issued \cup {[idx |-> index, magic |-> autoMagic', at |-> acquires + 1]}
    BY DEF Issue
  <2> QED
    BY <1>1, <1>5, <2>1, <2>2
<1>7. usedCount' = Cardinality(UsedSlots(magics')) /\ usedCount' \in Nat
  BY <1>2, <1>3, <1>4
<1> QED
  BY <1>1, <1>3, <1>6, <1>7

-----------------------------------------------------------------------------
(* Every step preserves the invariant *)

LEMMA InitIInv == ASSUME PoolAssumption, Init PROVE IInv
<1>1. chunks * ONE_CHUNK_COUNT = 0
  BY DEF Init, PoolAssumption
<1>2. Slots = {} /\ magics \in [Slots -> 0 .. MAX_MAGIC] /\ DOMAIN magics = {}
  BY <1>1 DEF Init, Slots, Total
<1>3. UsedSlots(magics) = {} /\ FreeBelow(magics, frontier) = {}
  BY <1>2 DEF UsedSlots, FreeBelow
<1>4. TypeOK
  <2>1. freeCounts \in [0 .. chunks - 1 -> 0 .. ONE_CHUNK_COUNT]
    BY DEF Init
  <2> QED
    BY <1>2, <2>1 DEF Init, TypeOK, PoolAssumption
<1>5. FirstFreeIsLowest
  BY <1>3 DEF FirstFreeIsLowest, LeastOr, Init
<1>6. CountsExact
  BY <1>3, FS_EmptySet DEF Init, CountsExact
<1>7. FrontierUnused /\ CursorOnObject
  BY DEF Init, FrontierUnused, CursorOnObject
<1>8. cursor \in [idx : Nat, magic : 0 .. MAX_MAGIC]
  BY DEF Init, NullHandle, PoolAssumption
<1> QED
  BY <1>4, <1>5, <1>6, <1>7, <1>8 DEF IInv

\* What is left to show for a step that hands out a slot of the tables mg and
\* fc, which have n chunks.
LEMMA AcquireStep ==
  ASSUME PoolAssumption, IInv,
         NEW n \in Nat, NEW mg, NEW fc, Exact(n, mg, fc),
         Cardinality(UsedSlots(mg)) = usedCount,
         NEW index \in DOMAIN mg, mg[index] = 0,
         Issue(index, mg, fc),
         chunks' = n, Slots' \subseteq 0 .. MAX_INDEX,
         firstFree' \in Slots' \cup {INVALID_INDEX},
         frontier' \in Slots' \cup {INVALID_INDEX},
         FrontierUnused', FirstFreeIsLowest',
         phase = "running", UNCHANGED <<phase, cursor>>
  PROVE  IInv'
<1>1. /\ autoMagic' \in 1 .. MAX_MAGIC
      /\ Exact(n, magics', freeCounts')
      /\ usedCount' = Cardinality(UsedSlots(magics')) /\ usedCount' \in Nat
      /\ acquires' \in Nat
      /\ issued' \subseteq [idx : Nat, magic : 1 .. MAX_MAGIC, at : Nat]
  BY IssueStep
<1>2. TypeOK'
  <2>1. magics' \in [Slots' -> 0 .. MAX_MAGIC]
    BY <1>1 DEF Exact, Slots, Total
  <2>2. chunks' \in Nat /\ freeCounts' \in [0 .. chunks' - 1 -> 0 .. ONE_CHUNK_COUNT]
    BY <1>1 DEF Exact
  <2>3. autoMagic' \in 0 .. MAX_MAGIC /\ phase' \in {"running", "closing", "closed"}
    BY <1>1
  <2> QED
    BY <1>1, <2>1, <2>2, <2>3 DEF TypeOK
<1>3. CountsExact'
  BY <1>1 DEF CountsExact, Exact
<1>4. CursorOnObject'
  BY DEF CursorOnObject
<1> QED
  BY <1>2, <1>3, <1>4 DEF IInv

LEMMA AcquireReleasedStep ==
  ASSUME PoolAssumption, IInv, AcquireReleased,
         phase = "running", UNCHANGED <<phase, cursor>>
  PROVE  IInv'
<1>1. /\ chunks \in Nat /\ Slots \subseteq 0 .. MAX_INDEX /\ DOMAIN magics = Slots
      /\ Exact(chunks, magics, freeCounts)
      /\ usedCount = Cardinality(UsedSlots(magics))
      /\ firstFree \in Slots \cup {INVALID_INDEX} /\ frontier \in Slots \cup {INVALID_INDEX}
      /\ INVALID_INDEX \in Nat /\ \A k \in Slots : k < INVALID_INDEX
  BY IInvFacts
<1>2. MAX_INDEX \in Nat
  BY DEF PoolAssumption
<1> DEFINE free == FreeBelow(magics, frontier)
           later == {k \in Slots : k > firstFree /\ magics[k] = 0}
           next == LeastOr(later, INVALID_INDEX)
<1>3. free \in SUBSET (0 .. MAX_INDEX) /\ later \in SUBSET (0 .. MAX_INDEX)
  BY <1>1 DEF FreeBelow
<1>4. firstFree = LeastOr(free, INVALID_INDEX) /\ firstFree # INVALID_INDEX
  BY DEF IInv, FirstFreeIsLowest, AcquireReleased
<1>5. firstFree \in free /\ \A y \in free : firstFree <= y
  BY <1>2, <1>3, <1>4, LeastOrValue
<1>6. firstFree \in Slots /\ magics[firstFree] = 0 /\ firstFree < frontier
  BY <1>1, <1>5 DEF FreeBelow
<1>7. firstFree' = IF next = frontier THEN INVALID_INDEX ELSE next
  BY <1>6, ScanFindsAll DEF AcquireReleased
<1>8. Issue(firstFree, magics, freeCounts) /\ chunks' = chunks /\ frontier' = frontier
  BY DEF AcquireReleased
<1>9. Slots' = Slots
  BY <1>8 DEF Slots, Total
<1>10. autoMagic' \in 1 .. MAX_MAGIC /\ magics' = SetMagic(magics, firstFree, autoMagic')
  BY <1>1, <1>6, <1>8, IssueStep
<1>11. DOMAIN magics' = Slots /\ \A k \in Slots : magics'[k] = IF k = firstFree THEN autoMagic' ELSE magics[k]
  BY <1>1, <1>10 DEF SetMagic
<1>12. FrontierUnused'
  BY <1>1, <1>6, <1>8, <1>9, <1>11 DEF IInv, FrontierUnused
<1>13. FreeBelow(magics', frontier') = {k \in later : k < frontier}
  <2>1. \A k \in Slots : (magics'[k] = 0 /\ k < frontier) <=> (k \in later /\ k < frontier)
    <3> SUFFICES ASSUME NEW k \in Slots
                 PROVE  (magics'[k] = 0 /\ k < frontier) <=> (k \in later /\ k < frontier)
      OBVIOUS
    <3>1. CASE k = firstFree
      <4>1. k \notin later /\ magics'[k] # 0
        BY <1>1, <1>6, <1>10, <1>11, <3>1
      <4> QED
        BY <4>1
    <3>2. CASE k # firstFree
      <4>1. magics'[k] = magics[k]
        BY <1>11, <3>2
      <4>2. magics[k] = 0 /\ k < frontier => k > firstFree
        <5>1. magics[k] = 0 /\ k < frontier => firstFree <= k
          BY <1>1, <1>5 DEF FreeBelow
        <5> QED
          BY <1>1, <1>6, <3>2, <5>1
      <4> QED
        BY <4>1, <4>2
    <3> QED
      BY <3>1, <3>2
  <2> QED
    BY <1>8, <1>11, <2>1 DEF FreeBelow
<1>14. frontier # INVALID_INDEX => frontier \in later
  BY <1>1, <1>6 DEF IInv, FrontierUnused
<1>15. /\ later = {} => next = INVALID_INDEX
       /\ later # {} => next \in later /\ \A y \in later : next <= y
  BY <1>2, <1>3, LeastOrValue
<1>16. FirstFreeIsLowest'
  <2> DEFINE rest == {k \in later : k < frontier}
  <2>1. rest \in SUBSET (0 .. MAX_INDEX) /\ \A k \in later : k \in Int /\ k < INVALID_INDEX
    BY <1>1, <1>3
  <2>2. firstFree' = LeastOr(rest, INVALID_INDEX)
    <3>1. CASE rest = {}
      <4>1. LeastOr(rest, INVALID_INDEX) = INVALID_INDEX
        BY <1>2, <2>1, <3>1, LeastOrValue
      <4>2. next = frontier \/ next = INVALID_INDEX
        <5>1. CASE frontier = INVALID_INDEX
          BY <1>15, <2>1, <3>1, <5>1
        <5>2. CASE frontier # INVALID_INDEX
          <6>1. next \in later /\ next <= frontier /\ frontier \in Int
            BY <1>1, <1>14, <1>15, <2>1, <5>2
          <6>2. ~ (next < frontier)
            BY <3>1, <6>1
          <6> QED
            BY <2>1, <6>1, <6>2
        <5> QED
          BY <5>1, <5>2
      <4> QED
        BY <1>7, <4>1, <4>2
    <3>2. CASE rest # {}
      <4>1. PICK y \in rest : TRUE
        BY <3>2
      <4>2. next \in later /\ next <= y /\ y < frontier /\ frontier \in Int
        BY <1>1, <1>15, <4>1
      <4>3. next \in rest /\ next # frontier
        BY <2>1, <4>1, <4>2
      <4>4. \A z \in rest : next <= z
        BY <1>15, <4>2
      <4>5. LeastOr(rest, INVALID_INDEX) = next
        <5> HIDE DEF next, rest
        <5> QED
          BY <1>2, <2>1, <4>3, <4>4, LeastOrUnique
      <4> QED
        BY <1>7, <4>3, <4>5
    <3> QED
      BY <3>1, <3>2
  <2> QED
    BY <1>13, <2>2 DEF FirstFreeIsLowest
<1>17. firstFree' \in Slots \cup {INVALID_INDEX}
  BY <1>7, <1>15
<1> QED
  BY <1>1, <1>6, <1>8, <1>9, <1>12, <1>16, <1>17, AcquireStep

LEMMA AcquireFrontierStep ==
  ASSUME PoolAssumption, IInv, AcquireFrontier,
         phase = "running", UNCHANGED <<phase, cursor>>
  PROVE  IInv'
<1>1. /\ chunks \in Nat /\ Slots \subseteq 0 .. MAX_INDEX /\ DOMAIN magics = Slots
      /\ Total \in Nat
      /\ Exact(chunks, magics, freeCounts)
      /\ usedCount = Cardinality(UsedSlots(magics))
      /\ frontier \in Slots \cup {INVALID_INDEX}
      /\ INVALID_INDEX \in Nat /\ \A k \in Slots : k < INVALID_INDEX
  BY IInvFacts
<1>2. MAX_INDEX \in Nat
  BY DEF PoolAssumption
<1>3. /\ firstFree = INVALID_INDEX /\ frontier \in Slots
      /\ frontier' = IF frontier + 1 >= Total THEN INVALID_INDEX ELSE frontier + 1
      /\ Issue(frontier, magics, freeCounts) /\ chunks' = chunks /\ firstFree' = firstFree
  BY <1>1 DEF AcquireFrontier
<1>4. Slots' = Slots
  BY <1>3 DEF Slots, Total
<1>5. magics[frontier] = 0 /\ \A k \in Slots : k >= frontier => magics[k] = 0
  BY <1>1, <1>3 DEF IInv, FrontierUnused
<1>6. \A k \in Slots : k < frontier => magics[k] # 0
  <2>1. FreeBelow(magics, frontier) \in SUBSET (0 .. MAX_INDEX)
    BY <1>1 DEF FreeBelow
  <2>2. INVALID_INDEX = LeastOr(FreeBelow(magics, frontier), INVALID_INDEX)
    BY <1>3 DEF IInv, FirstFreeIsLowest
  <2>3. INVALID_INDEX \notin FreeBelow(magics, frontier)
    BY <1>1 DEF FreeBelow
  <2>4. FreeBelow(magics, frontier) # {} =>
          LeastOr(FreeBelow(magics, frontier), INVALID_INDEX) \in FreeBelow(magics, frontier)
    BY <1>2, <2>1, LeastOrValue
  <2> QED
    BY <1>1, <2>2, <2>3, <2>4 DEF FreeBelow
<1>7. autoMagic' \in 1 .. MAX_MAGIC /\ magics' = SetMagic(magics, frontier, autoMagic')
  BY <1>1, <1>3, <1>5, IssueStep
<1>8. DOMAIN magics' = Slots /\ \A k \in Slots : magics'[k] = IF k = frontier THEN autoMagic' ELSE magics[k]
  BY <1>1, <1>7 DEF SetMagic
<1>9. frontier' \in Slots \cup {INVALID_INDEX}
  BY <1>1, <1>3 DEF Slots
<1>10. \A k \in Slots : k \in Int /\ k < Total /\ frontier \in Int
  BY <1>1, <1>3 DEF Slots
<1>11. FrontierUnused'
  <2> SUFFICES ASSUME frontier' # INVALID_INDEX, NEW k \in Slots, k >= frontier'
               PROVE  magics'[k] = 0
    BY <1>4 DEF FrontierUnused
  <2>1. k > frontier
    BY <1>3, <1>10
  <2> QED
    BY <1>5, <1>8, <1>10, <2>1
<1>12. FreeBelow(magics', frontier') = {}
  <2> SUFFICES ASSUME NEW k \in Slots, k < frontier' PROVE magics'[k] # 0
    BY <1>8 DEF FreeBelow
  <2>1. k < frontier \/ k = frontier
    BY <1>1, <1>3, <1>10
  <2> QED
    BY <1>3, <1>6, <1>7, <1>8, <1>10, <2>1
<1>13. FirstFreeIsLowest'
  BY <1>3, <1>12 DEF FirstFreeIsLowest, LeastOr
<1> QED
  BY <1>1, <1>3, <1>4, <1>5, <1>9, <1>11, <1>13, AcquireStep

LEMMA AcquireNewChunkStep ==
  ASSUME PoolAssumption, IInv, AcquireNewChunk,
         phase = "running", UNCHANGED <<phase, cursor>>
  PROVE  IInv'
<1>1. /\ chunks \in Nat /\ Slots \subseteq 0 .. MAX_INDEX /\ DOMAIN magics = Slots
      /\ Total \in Nat
      /\ Exact(chunks, magics, freeCounts)
      /\ usedCount = Cardinality(UsedSlots(magics))
      /\ INVALID_INDEX \in Nat /\ \A k \in Slots : k < INVALID_INDEX
  BY IInvFacts
<1>2. MAX_INDEX \in Nat /\ ONE_CHUNK_COUNT \in Nat /\ ONE_CHUNK_COUNT > 0 /\ MAX_INDEX < INVALID_INDEX
  BY DEF PoolAssumption
<1>3. /\ firstFree = INVALID_INDEX /\ frontier = INVALID_INDEX /\ Total < MAX_INDEX
      /\ frontier' = IF ONE_CHUNK_COUNT = 1 THEN INVALID_INDEX ELSE Total + 1
      /\ Issue(Total, GrownMagics, GrownCounts)
      /\ chunks' = chunks + 1 /\ firstFree' = firstFree
  BY DEF AcquireNewChunk
<1>4. Slots' = 0 .. Total + ONE_CHUNK_COUNT - 1
  BY <1>1, <1>2, <1>3 DEF Slots, Total
<1>5. Total + ONE_CHUNK_COUNT <= MAX_INDEX + 1
  <2>1. PICK n \in 1 .. MAX_INDEX + 1 : MAX_INDEX + 1 = n * ONE_CHUNK_COUNT
    BY DEF PoolAssumption
  <2>2. n \in Nat /\ chunks < n
    BY <1>1, <1>2, <1>3, <2>1 DEF Total
  <2>3. (chunks + 1) * ONE_CHUNK_COUNT <= n * ONE_CHUNK_COUNT
    BY <1>1, <1>2, <2>2
  <2> QED
    BY <1>1, <1>2, <2>1, <2>3 DEF Total
<1>6. Slots' \subseteq 0 .. MAX_INDEX
  BY <1>1, <1>2, <1>4, <1>5
<1>7. \A k \in Slots : magics[k] # 0
  <2>1. FreeBelow(magics, frontier) \in SUBSET (0 .. MAX_INDEX)
    BY <1>1 DEF FreeBelow
  <2>2. INVALID_INDEX = LeastOr(FreeBelow(magics, frontier), INVALID_INDEX)
    BY <1>3 DEF IInv, FirstFreeIsLowest
  <2>3. INVALID_INDEX \notin FreeBelow(magics, frontier)
    BY <1>1 DEF FreeBelow
  <2>4. FreeBelow(magics, frontier) # {} =>
          LeastOr(FreeBelow(magics, frontier), INVALID_INDEX) \in FreeBelow(magics, frontier)
    BY <1>2, <2>1, LeastOrValue
  <2> QED
    BY <1>1, <1>3, <2>2, <2>3, <2>4 DEF FreeBelow
<1>8. /\ Exact(chunks + 1, GrownMagics, GrownCounts)
      /\ Cardinality(UsedSlots(GrownMagics)) = usedCount
  <2>1. UsedSlots(GrownMagics) = UsedSlots(magics) /\ Exact(chunks + 1, GrownMagics, GrownCounts)
    BY <1>1, AddChunk
  <2> QED
    BY <1>1, <2>1
<1>9. /\ DOMAIN GrownMagics = Slots' /\ Total \in Slots'
      /\ \A k \in Slots' : GrownMagics[k] = IF k \in Slots THEN magics[k] ELSE 0
      /\ Total \notin Slots
  <2>1. DOMAIN GrownMagics = Slots'
    BY <1>4 DEF GrownMagics
  <2>2. \A k \in Slots' : GrownMagics[k] = IF k \in Slots THEN magics[k] ELSE 0
    BY <1>4 DEF GrownMagics
  <2>3. Total \in Slots'
    BY <1>1, <1>2, <1>4
  <2>4. Total \notin Slots
    BY <1>1 DEF Slots
  <2> QED
    BY <2>1, <2>2, <2>3, <2>4
<1>10. Total \in DOMAIN GrownMagics /\ GrownMagics[Total] = 0 /\ chunks + 1 \in Nat
  BY <1>1, <1>9
<1>11. autoMagic' \in 1 .. MAX_MAGIC /\ magics' = SetMagic(GrownMagics, Total, autoMagic')
  BY <1>3, <1>8, <1>10, IssueStep
<1>12. /\ DOMAIN magics' = Slots'
       /\ \A k \in Slots' : magics'[k] = IF k = Total THEN autoMagic' ELSE GrownMagics[k]
  BY <1>9, <1>11 DEF SetMagic
<1>13. firstFree' \in Slots' \cup {INVALID_INDEX} /\ frontier' \in Slots' \cup {INVALID_INDEX}
  BY <1>1, <1>2, <1>3, <1>4
<1>14. \A k \in Slots' : k \in Int /\ (k \in Slots <=> k < Total) /\ k < INVALID_INDEX
  BY <1>1, <1>2, <1>4, <1>6 DEF Slots
<1>15. FrontierUnused'
  <2> SUFFICES ASSUME frontier' # INVALID_INDEX, NEW k \in Slots', k >= frontier'
               PROVE  magics'[k] = 0
    BY DEF FrontierUnused
  <2>1. k > Total
    BY <1>1, <1>3, <1>14
  <2> QED
    BY <1>1, <1>9, <1>12, <1>14, <2>1
<1>16. FreeBelow(magics', frontier') = {}
  <2> SUFFICES ASSUME NEW k \in Slots', k < frontier' PROVE magics'[k] # 0
    BY <1>12 DEF FreeBelow
  <2>1. k < Total \/ k = Total
    BY <1>1, <1>2, <1>3, <1>4, <1>14
  <2> QED
    BY <1>7, <1>9, <1>11, <1>12, <1>14, <2>1
<1>17. FirstFreeIsLowest'
  BY <1>3, <1>16 DEF FirstFreeIsLowest, LeastOr
<1> QED
  BY <1>3, <1>6, <1>8, <1>10, <1>13, <1>15, <1>17, AcquireStep

\* Releasing a handle, whether its object exists or not.
LEMMA ReleaseStep ==
  ASSUME PoolAssumption, IInv,
         NEW h, h.idx \in Nat, h.magic \in 1 .. MAX_MAGIC,
         ReleaseSlot(h), UNCHANGED <<chunks, frontier, autoMagic, acquires, issued>>,
         phase' \in {"running", "closing", "closed"},
         cursor' \in [idx : Nat, magic : 0 .. MAX_MAGIC], CursorOnObject'
  PROVE  IInv'
<1>1. /\ chunks \in Nat /\ Slots \subseteq 0 .. MAX_INDEX /\ DOMAIN magics = Slots
      /\ Exact(chunks, magics, freeCounts)
      /\ usedCount = Cardinality(UsedSlots(magics))
      /\ firstFree \in Slots \cup {INVALID_INDEX} /\ frontier \in Slots \cup {INVALID_INDEX}
      /\ INVALID_INDEX \in Nat /\ \A k \in Slots : k < INVALID_INDEX
  BY IInvFacts
<1>2. MAX_INDEX \in Nat
  BY DEF PoolAssumption
<1>3. Slots' = Slots
  BY DEF Slots, Total
<1>4. CASE ~ Resolves([idx |-> h.idx, magic |-> h.magic])
  <2>1. UNCHANGED <<firstFree, magics, freeCounts, usedCount>>
    BY <1>4 DEF ReleaseSlot
  <2> QED
    BY <1>3, <2>1 DEF IInv, TypeOK, FrontierUnused, FirstFreeIsLowest, CountsExact,
                      FreeBelow, UsedSlots, FreeSlots
<1>5. CASE Resolves([idx |-> h.idx, magic |-> h.magic])
  <2>1. h.idx \in Slots /\ magics[h.idx] # 0
    <3>1. h.idx \in Slots /\ magics[h.idx] = h.magic
      BY <1>5 DEF Resolves
    <3> QED
      BY <3>1 DEF PoolAssumption
  <2>2. /\ firstFree' = IF h.idx < firstFree THEN h.idx ELSE firstFree
        /\ magics' = SetMagic(magics, h.idx, 0)
        /\ freeCounts' = AddFree(freeCounts, h.idx, 1)
        /\ usedCount' = usedCount - 1
    BY <1>5 DEF ReleaseSlot
  <2>3. /\ DOMAIN magics' = Slots
        /\ \A k \in Slots : magics'[k] = IF k = h.idx THEN 0 ELSE magics[k]
    BY <1>1, <2>2 DEF SetMagic
  <2>4. Exact(chunks, magics', freeCounts')
    BY <1>1, <2>1, <2>2, VacateSlot
  <2>5. Cardinality(UsedSlots(magics')) = Cardinality(UsedSlots(magics)) - 1
    BY <1>1, <2>1, <2>2, VacateSlot
  <2>6. usedCount' = Cardinality(UsedSlots(magics')) /\ usedCount' \in Nat
    <3>1. magics' \in [0 .. chunks * ONE_CHUNK_COUNT - 1 -> 0 .. MAX_MAGIC]
      BY <2>4 DEF Exact
    <3>2. Cardinality(UsedSlots(magics')) \in Nat
      BY <1>1, <3>1, SlotSetsFinite
    <3> QED
      BY <1>1, <2>2, <2>5, <3>2
  <2>7. TypeOK'
    <3>1. magics' \in [Slots' -> 0 .. MAX_MAGIC]
      BY <1>3, <2>4 DEF Exact, Slots, Total
    <3>2. freeCounts' \in [0 .. chunks' - 1 -> 0 .. ONE_CHUNK_COUNT]
      BY <2>4 DEF Exact
    <3>3. firstFree' \in Slots' \cup {INVALID_INDEX}
      BY <1>1, <1>3, <2>1, <2>2
    <3> QED
      BY <1>1, <1>3, <2>6, <3>1, <3>2, <3>3 DEF IInv, TypeOK
  <2>8. \A k \in Slots : k \in Int /\ frontier \in Int /\ firstFree \in Int
    BY <1>1
  <2>9. h.idx < frontier
    <3>1. CASE frontier = INVALID_INDEX
      BY <1>1, <2>1, <3>1
    <3>2. CASE frontier # INVALID_INDEX
      BY <2>1, <2>8, <3>2 DEF IInv, FrontierUnused
    <3> QED
      BY <3>1, <3>2
  <2>10. FrontierUnused'
    BY <1>3, <2>3 DEF IInv, FrontierUnused
  <2>11. FirstFreeIsLowest'
    <3> DEFINE old == FreeBelow(magics, frontier)
               new == FreeBelow(magics', frontier')
    <3>1. old \in SUBSET (0 .. MAX_INDEX) /\ new \in SUBSET (0 .. MAX_INDEX)
      BY <1>1, <2>3 DEF FreeBelow
    <3>2. \A k \in Slots : (k \in new <=> k \in old \/ k = h.idx)
      BY <1>1, <2>1, <2>3, <2>9 DEF FreeBelow
    <3>3. firstFree = LeastOr(old, INVALID_INDEX)
      BY DEF IInv, FirstFreeIsLowest
    <3>4. /\ old = {} => firstFree = INVALID_INDEX
          /\ old # {} => firstFree \in old /\ \A y \in old : firstFree <= y
      BY <1>2, <3>1, <3>3, LeastOrValue
    <3>5. new \subseteq Slots /\ old \subseteq Slots
      BY <1>1, <2>3 DEF FreeBelow
    <3> HIDE DEF old, new
    <3>6. firstFree' \in new
      <4>1. CASE h.idx < firstFree
        BY <2>1, <2>2, <3>2, <4>1
      <4>2. CASE ~ (h.idx < firstFree)
        <5>1. firstFree # INVALID_INDEX
          BY <1>1, <2>1, <4>2
        <5> QED
          BY <2>2, <3>2, <3>4, <3>5, <4>2, <5>1
      <4> QED
        BY <4>1, <4>2
    <3>7. ASSUME NEW y \in new PROVE firstFree' <= y
      <4>1. y \in Int /\ firstFree \in Int /\ h.idx \in Int
        BY <2>1, <2>8, <3>5
      <4>2. CASE y = h.idx
        BY <2>2, <4>1, <4>2
      <4>3. CASE y \in old
        <5>1. firstFree <= y
          BY <3>4, <4>3
        <5> QED
          BY <2>2, <4>1, <5>1
      <4> QED
        BY <3>2, <3>5, <4>2, <4>3
    <3>8. LeastOr(new, INVALID_INDEX) = firstFree'
      BY <1>2, <3>1, <3>6, <3>7, LeastOrUnique
    <3> QED
      BY <3>8 DEF FirstFreeIsLowest, new
  <2>12. CountsExact'
    BY <2>4, <2>6 DEF CountsExact, Exact
  <2> QED
    BY <2>7, <2>10, <2>11, <2>12 DEF IInv
<1> QED
  BY <1>4, <1>5

LEMMA ReNewStep ==
  ASSUME PoolAssumption, IInv, NEW h \in issued, ReNew(h)
  PROVE  IInv'
<1> DEFINE m == IncMagic(h.magic)
<1>1. /\ chunks \in Nat /\ DOMAIN magics = Slots
      /\ Exact(chunks, magics, freeCounts)
      /\ usedCount = Cardinality(UsedSlots(magics))
  BY IInvFacts
<1>2. h.idx \in Nat /\ h.magic \in 1 .. MAX_MAGIC /\ h.at \in Nat
  BY DEF IInv, TypeOK
<1>3. m \in 1 .. MAX_MAGIC
  BY <1>2, IncMagicType DEF PoolAssumption
<1>4. h.idx \in Slots /\ magics[h.idx] # 0
  <2>1. h.idx \in Slots /\ magics[h.idx] = h.magic
    BY DEF ReNew, Resolves
  <2> QED
    BY <1>2, <2>1
<1>5. /\ magics' = SetMagic(magics, h.idx, m)
      /\ issued' = issued \cup {[idx |-> h.idx, magic |-> m, at |-> h.at]}
      /\ phase = "running"
      /\ UNCHANGED <<chunks, freeCounts, firstFree, frontier, usedCount, autoMagic,
                     acquires, phase, cursor>>
  BY DEF ReNew
<1> HIDE DEF m
<1>6. Slots' = Slots /\ DOMAIN magics' = Slots
  BY <1>1, <1>5 DEF Slots, Total, SetMagic
<1>7. \A k \in Slots : magics'[k] = IF k = h.idx THEN m ELSE magics[k]
  BY <1>1, <1>5 DEF SetMagic
<1>8. Exact(chunks, magics', freeCounts)
  BY <1>1, <1>3, <1>4, <1>5, RenameSlot
<1>9. \A k \in Slots : magics'[k] = 0 <=> magics[k] = 0
  BY <1>3, <1>4, <1>7
<1>10. UsedSlots(magics') = UsedSlots(magics) /\ FreeBelow(magics', frontier) = FreeBelow(magics, frontier)
  BY <1>1, <1>6, <1>9 DEF UsedSlots, FreeBelow
<1>11. TypeOK'
  <2>1. magics' \in [Slots' -> 0 .. MAX_MAGIC]
    BY <1>6, <1>8 DEF Exact, Slots, Total
  <2>2. issued' \subseteq [idx : Nat, magic : 1 .. MAX_MAGIC, at : Nat]
    BY <1>2, <1>3, <1>5 DEF IInv, TypeOK
  <2> QED
    BY <1>5, <1>6, <2>1, <2>2 DEF IInv, TypeOK
<1>12. FrontierUnused'
  BY <1>5, <1>6, <1>9 DEF IInv, FrontierUnused
<1>13. FirstFreeIsLowest'
  BY <1>5, <1>10 DEF IInv, FirstFreeIsLowest
<1>14. CountsExact'
  BY <1>1, <1>5, <1>8, <1>10 DEF CountsExact, Exact
<1>15. CursorOnObject'
  BY <1>5 DEF CursorOnObject
<1> QED
  BY <1>5, <1>11, <1>12, <1>13, <1>14, <1>15 DEF IInv

\* First and Next return an object that exists, or nothing.
LEMMA WalkOnObjects ==
  ASSUME PoolAssumption, Slots \subseteq 0 .. MAX_INDEX,
         NEW mg \in [Slots -> 0 .. MAX_MAGIC],
         NEW used, used \subseteq UsedSlots(mg), used # {}
  PROVE  /\ Min(used) \in UsedSlots(mg)
         /\ [idx |-> Min(used), magic |-> mg[Min(used)]] \in [idx : Nat, magic : 0 .. MAX_MAGIC]
<1>1. MAX_INDEX \in Nat /\ used \in SUBSET (0 .. MAX_INDEX)
  BY DEF PoolAssumption, UsedSlots
<1>2. Min(used) \in used
  BY <1>1, MinIsLeast
<1>3. Min(used) \in UsedSlots(mg)
  BY <1>2
<1>4. Min(used) \in Slots
  BY <1>3 DEF UsedSlots
<1>5. Min(used) \in Nat
  <2>1. Min(used) \in 0 .. MAX_INDEX
    BY <1>4
  <2> QED
    BY <2>1
<1> QED
  BY <1>3, <1>4, <1>5

LEMMA CloseAllStep ==
  ASSUME PoolAssumption, IInv, CloseAllActor
  PROVE  IInv'
<1>1. /\ UNCHANGED poolVars /\ UNCHANGED <<acquires, issued>>
      /\ cursor' = FirstUsed
      /\ phase' = IF FirstUsed = NullHandle THEN "closed" ELSE "closing"
  BY DEF CloseAllActor
<1> DEFINE used == {k \in Slots : freeCounts[Chunk(k)] < ONE_CHUNK_COUNT /\ magics[k] # 0}
<1>2. magics \in [Slots -> 0 .. MAX_MAGIC] /\ Slots \subseteq 0 .. MAX_INDEX
  BY DEF IInv, TypeOK
<1>3. FirstUsed # NullHandle =>
        /\ FirstUsed.idx \in UsedSlots(magics) /\ FirstUsed.magic = magics[FirstUsed.idx]
        /\ FirstUsed \in [idx : Nat, magic : 0 .. MAX_MAGIC]
  <2> SUFFICES ASSUME FirstUsed # NullHandle
               PROVE  /\ FirstUsed.idx \in UsedSlots(magics)
                      /\ FirstUsed.magic = magics[FirstUsed.idx]
                      /\ FirstUsed \in [idx : Nat, magic : 0 .. MAX_MAGIC]
    OBVIOUS
  <2>1. used # {} /\ FirstUsed = [idx |-> Min(used), magic |-> magics[Min(used)]]
    BY DEF FirstUsed
  <2>2. used \subseteq UsedSlots(magics)
    BY <1>2 DEF UsedSlots
  <2> HIDE DEF used
  <2> QED
    BY <1>2, <2>1, <2>2, WalkOnObjects
<1>4. NullHandle \in [idx : Nat, magic : 0 .. MAX_MAGIC]
  BY DEF NullHandle, PoolAssumption
<1>5. cursor' \in [idx : Nat, magic : 0 .. MAX_MAGIC]
  BY <1>1, <1>3, <1>4
<1>6. CursorOnObject'
  BY <1>1, <1>3 DEF CursorOnObject, poolVars
<1> QED
  BY <1>1, <1>5, <1>6 DEF IInv, TypeOK, FrontierUnused, FirstFreeIsLowest, CountsExact,
       FreeBelow, UsedSlots, FreeSlots, Slots, Total, poolVars

LEMMA CloseNextStep ==
  ASSUME PoolAssumption, IInv, CloseNextActor
  PROVE  IInv'
<1>1. /\ phase = "closing" /\ ReleaseSlot(cursor)
      /\ cursor' = NextUsed(magics', freeCounts', cursor.idx)
      /\ phase' = IF cursor' = NullHandle THEN "closed" ELSE "closing"
      /\ UNCHANGED <<chunks, frontier, autoMagic, acquires, issued>>
  BY DEF CloseNextActor
<1>2. magics \in [Slots -> 0 .. MAX_MAGIC] /\ Slots \subseteq 0 .. MAX_INDEX
  BY DEF IInv, TypeOK
<1>3. cursor.idx \in Nat /\ cursor.magic \in 1 .. MAX_MAGIC
  <2>1. cursor.idx \in Nat /\ cursor.magic \in 0 .. MAX_MAGIC
    BY DEF IInv
  <2>2. cursor.magic # 0
    BY <1>1 DEF IInv, CursorOnObject, UsedSlots
  <2> QED
    BY <2>1, <2>2 DEF PoolAssumption
<1>4. magics' \in [Slots -> 0 .. MAX_MAGIC]
  BY <1>1, <1>2 DEF ReleaseSlot, SetMagic, PoolAssumption
<1> DEFINE used == {k \in Slots : /\ k > cursor.idx
                                  /\ freeCounts'[Chunk(k)] < ONE_CHUNK_COUNT
                                  /\ Chunk(k) = Chunk(cursor.idx) => freeCounts'[Chunk(k)] # 1
                                  /\ magics'[k] # 0}
<1>5. cursor' = IF used = {} THEN NullHandle
                ELSE [idx |-> Min(used), magic |-> magics'[Min(used)]]
  BY <1>1 DEF NextUsed
<1>6. used \subseteq UsedSlots(magics')
  BY <1>4 DEF UsedSlots
<1>7. NullHandle \in [idx : Nat, magic : 0 .. MAX_MAGIC]
  BY DEF NullHandle, PoolAssumption
<1> HIDE DEF used
<1>8. used # {} =>
        /\ cursor'.idx \in UsedSlots(magics') /\ cursor'.magic = magics'[cursor'.idx]
        /\ cursor' \in [idx : Nat, magic : 0 .. MAX_MAGIC]
  BY <1>2, <1>4, <1>5, <1>6, WalkOnObjects
<1>9. cursor' \in [idx : Nat, magic : 0 .. MAX_MAGIC]
  BY <1>5, <1>7, <1>8
<1>10. CursorOnObject'
  BY <1>1, <1>5, <1>8 DEF CursorOnObject
<1> QED
  BY <1>1, <1>3, <1>9, <1>10, ReleaseStep

LEMMA UnchangedPoolStep ==
  ASSUME PoolAssumption, IInv,
         UNCHANGED <<chunks, magics, freeCounts, firstFree, frontier, usedCount,
                     issued, phase, cursor>>,
         autoMagic' \in 0 .. MAX_MAGIC, acquires' \in Nat
  PROVE  IInv'
  BY DEF IInv, TypeOK, FrontierUnused, FirstFreeIsLowest, CountsExact, CursorOnObject,
         FreeBelow, UsedSlots, FreeSlots, Slots, Total

LEMMA NextIInv == ASSUME PoolAssumption, IInv, [Next]_vars PROVE IInv'
<1>1. CASE Acquire
  BY <1>1, AcquireReleasedStep, AcquireFrontierStep, AcquireNewChunkStep DEF Acquire
<1>2. CASE AcquireElsewhere
  <2>1. autoMagic' \in 1 .. MAX_MAGIC
    BY <1>2, IncMagicType DEF AcquireElsewhere, IInv, TypeOK
  <2>2. acquires' \in Nat
    BY <1>2 DEF AcquireElsewhere, IInv, TypeOK
  <2> QED
    BY <1>2, <2>1, <2>2, UnchangedPoolStep DEF AcquireElsewhere
<1>3. ASSUME NEW h \in issued, Release(h) PROVE IInv'
  <2>1. h.idx \in Nat /\ h.magic \in 1 .. MAX_MAGIC
    BY DEF IInv, TypeOK
  <2>2. cursor \in [idx : Nat, magic : 0 .. MAX_MAGIC]
    BY DEF IInv
  <2>3. phase = "running" /\ UNCHANGED <<phase, cursor>> /\ ReleaseSlot(h)
    BY <1>3 DEF Release
  <2>4. CursorOnObject'
    BY <2>3 DEF CursorOnObject
  <2> QED
    BY <1>3, <2>1, <2>2, <2>3, <2>4, ReleaseStep DEF Release
<1>4. ASSUME NEW h \in issued, ReNew(h) PROVE IInv'
  BY <1>4, ReNewStep
<1>5. CASE CloseAllActor
  BY <1>5, CloseAllStep
<1>6. CASE CloseNextActor
  BY <1>6, CloseNextStep
<1>7. CASE UNCHANGED vars
  <2>1. autoMagic \in 0 .. MAX_MAGIC /\ acquires \in Nat
    BY DEF IInv, TypeOK
  <2> QED
    BY <1>7, <2>1, UnchangedPoolStep DEF vars, poolVars
<1> QED
  BY <1>1, <1>2, <1>3, <1>4, <1>5, <1>6, <1>7 DEF Next

-----------------------------------------------------------------------------
(* The theorems *)

\* The tables of the pool are exact in every reachable state, whatever the
\* sequence of Acquire, Release and ReNew calls of HandleMgr.h.
THEOREM PoolInvariant == Spec => []IInv
<1>1. Init => IInv
  BY PoolAssumption, InitIInv
<1>2. IInv /\ [Next]_vars => IInv'
  BY PoolAssumption, NextIInv
<1> QED
  BY <1>1, <1>2, PTL DEF Spec

\* Types, and every index fits into the bits of a handle.
THEOREM TypeCorrect == Spec => []TypeOK
<1>1. IInv => TypeOK
  BY DEF IInv
<1> QED
  BY <1>1, PoolInvariant, PTL

\* The slots from m_nLastChunkFirstFreeIndex on have never been used, so the search
\* for a free slot may stop there.
THEOREM FrontierNeverUsed == Spec => []FrontierUnused
<1>1. IInv => FrontierUnused
  BY DEF IInv
<1> QED
  BY <1>1, PoolInvariant, PTL

\* No released slot is lost: m_nFirstFreeIndex always is the lowest free slot
\* below the frontier, so Acquire only grows the pool when it is full.
THEOREM NoSlotLost == Spec => []FirstFreeIsLowest
<1>1. IInv => FirstFreeIsLowest
  BY DEF IInv
<1> QED
  BY <1>1, PoolInvariant, PTL

\* m_FreeCounts and m_nUsedCount are exact, so the scans of Acquire and First
\* skip no chunk they should look into.
THEOREM CountsCorrect == Spec => []CountsExact
<1>1. IInv => CountsExact
  BY DEF IInv
<1> QED
  BY <1>1, PoolInvariant, PTL
================================================================================
