------------------------------ MODULE HandleMgr ------------------------------
(***************************************************************************)
(* HandleMgr<DATA, HANDLE, ONE_CHUNK_COUNT> of                             *)
(* sdk/commonLib/include/HandleMgr.h, the pool every entity (actor,        *)
(* monster, pet), team, scene and script callback of the logic server is   *)
(* allocated from.  A slot has an index; the pool grows by chunks of       *)
(* ONE_CHUNK_COUNT slots; a handle is an index and a magic number, and a   *)
(* handle is honoured only while the slot still holds the same magic.      *)
(*                                                                         *)
(* All calls are made by the logic thread, so one call is one action.      *)
(* issued and live are history: every handle the pool gave out, and those  *)
(* whose object has been neither released nor renewed since.               *)
(***************************************************************************)
EXTENDS Integers, FiniteSets, FiniteSetsExt

CONSTANTS
  ONE_CHUNK_COUNT,  \* slots of a chunk (64 for actors, 1024 for monsters)
  MAX_INDEX,        \* largest index of a handle (21 bits in the code)
  MAX_MAGIC,        \* largest magic number (11 bits in the code)
  INVALID_INDEX,    \* ~0, greater than every index
  MaxHandles        \* bound: how many objects are created, and handles issued

ASSUME PoolAssumption ==
  /\ ONE_CHUNK_COUNT \in Nat \ {0}
  /\ MAX_INDEX \in Nat \ {0}
  /\ MAX_MAGIC \in Nat \ {0}
  /\ \E n \in 1 .. MAX_INDEX + 1 : MAX_INDEX + 1 = n * ONE_CHUNK_COUNT   \* both are powers of 2
  /\ INVALID_INDEX \in Nat
  /\ INVALID_INDEX > MAX_INDEX
  /\ MaxHandles \in Nat

VARIABLES
  chunks,      \* how many chunks are allocated (count() of both tables)
  magics,      \* m_MagicNumbers: slot -> magic, 0 for a free slot
  freeCounts,  \* m_FreeCounts: chunk -> its number of free slots
  firstFree,   \* m_nFirstFreeIndex: lowest slot that was used and is free again
  frontier,    \* m_nLastChunkFirstFreeIndex: first slot never used so far
  usedCount,   \* m_nUsedCount
  autoMagic,   \* s_AutoMagic of Handle::Init
  acquires,    \* number of objects created so far, here or elsewhere
  issued,      \* handles given out, with the value of acquires at that moment
  live,        \* those of them whose object still exists
  phase,       \* "running", then "closing" and "closed" (CloseAllActor)
  cursor       \* the handle CloseAllActor has reached

poolVars == <<chunks, magics, freeCounts, firstFree, frontier, usedCount, autoMagic>>
vars == <<poolVars, acquires, issued, live, phase, cursor>>

-----------------------------------------------------------------------------
(* Handles and the lookups *)

Handles == [idx : 0 .. INVALID_INDEX, magic : 0 .. MAX_MAGIC]
NullHandle == [idx |-> 0, magic |-> 0]

\* GetTotalHandleCount: the slots allocated so far are 0 .. Total - 1.
Total == chunks * ONE_CHUNK_COUNT
Slots == 0 .. Total - 1
Chunk(k) == k \div ONE_CHUNK_COUNT

UsedSlots(mg) == {k \in DOMAIN mg : mg[k] # 0}
FreeSlots(mg, c) == {k \in DOMAIN mg : Chunk(k) = c /\ mg[k] = 0}

\* GetDataPtr: the object of a handle exists when the slot has the same magic.
Resolves(h) ==
  /\ h # NullHandle
  /\ h.idx \in Slots
  /\ magics[h.idx] = h.magic

LeastOr(S, default) == IF S = {} THEN default ELSE Min(S)

\* Mutants: the magic number leaves its bits, comes to 0, that of a free slot, or
\* is not counted up.
IncMagicNoWrap(m) == m + 1
IncMagicMissed(m) == IF m = 0 THEN 1 ELSE m
IncMagicToZero(m) == (m + 1) % (MAX_MAGIC + 1)

IncMagic(m) == IF m + 1 > MAX_MAGIC THEN 1 ELSE m + 1

\* The scan for the next free slot behind index: it trusts the free counts to
\* skip chunks, and skips the rest of the chunk of index when its count is 1,
\* as that one is index itself.
NextFreeSlots(index) ==
  {k \in Slots : /\ k > index
                 /\ freeCounts[Chunk(k)] > 0
                 /\ Chunk(k) = Chunk(index) => freeCounts[Chunk(k)] # 1
                 /\ magics[k] = 0}

\* First and Next walk over the objects that exist; Next is called with the
\* slot of the last one, and with the tables as they are by then.
FirstUsed ==
  LET used == {k \in Slots : freeCounts[Chunk(k)] < ONE_CHUNK_COUNT /\ magics[k] # 0}
  IN  IF used = {} THEN NullHandle
      ELSE [idx |-> Min(used), magic |-> magics[Min(used)]]

NextUsed(mg, fc, index) ==
  LET used == {k \in Slots : /\ k > index
                             /\ fc[Chunk(k)] < ONE_CHUNK_COUNT
                             /\ Chunk(k) = Chunk(index) => fc[Chunk(k)] # 1
                             /\ mg[k] # 0}
  IN  IF used = {} THEN NullHandle
      ELSE [idx |-> Min(used), magic |-> mg[Min(used)]]

-----------------------------------------------------------------------------
Init ==
  /\ chunks = 0
  /\ magics = [k \in {} |-> 0]
  /\ freeCounts = [c \in {} |-> 0]
  /\ firstFree = INVALID_INDEX
  /\ frontier = INVALID_INDEX
  /\ usedCount = 0
  /\ autoMagic \in 0 .. MAX_MAGIC   \* rand(); larger values wrap at once
  /\ acquires = 0
  /\ issued = {}
  /\ live = {}
  /\ phase = "running"
  /\ cursor = NullHandle

\* One slot of the magic table, one entry of the free counts, and both tables
\* with a new chunk of free slots.
SetMagic(mg, index, m) == [mg EXCEPT ![index] = m]
AddFree(fc, index, d) == [fc EXCEPT ![Chunk(index)] = @ + d]
GrownMagics ==
  [k \in 0 .. Total + ONE_CHUNK_COUNT - 1 |-> IF k \in Slots THEN magics[k] ELSE 0]
GrownCounts ==
  [c \in 0 .. chunks |-> IF c = chunks THEN ONE_CHUNK_COUNT ELSE freeCounts[c]]

\* The tail of Acquire: the handle is made, the slot marked, the object built.
Issue(index, mg, fc) ==
  LET m == IncMagic(autoMagic)
      h == [idx |-> index, magic |-> m, at |-> acquires + 1]
  IN  /\ autoMagic' = m
      /\ magics' = SetMagic(mg, index, m)
      /\ freeCounts' = AddFree(fc, index, -1)
      /\ usedCount' = usedCount + 1
      /\ acquires' = acquires + 1
      /\ issued' = issued \cup {h}
      /\ live' = live \cup {h}

\* Mutant: the next free slot is not compared with the frontier.
AcquireReleasedUnchecked ==
  /\ firstFree # INVALID_INDEX
  /\ firstFree' = LeastOr(NextFreeSlots(firstFree), INVALID_INDEX)
  /\ Issue(firstFree, magics, freeCounts)
  /\ UNCHANGED <<chunks, frontier>>

\* Acquire from the slots that were released.
AcquireReleased ==
  /\ firstFree # INVALID_INDEX
  /\ LET next == LeastOr(NextFreeSlots(firstFree), INVALID_INDEX)
     IN  firstFree' = IF next = frontier THEN INVALID_INDEX ELSE next
  /\ Issue(firstFree, magics, freeCounts)
  /\ UNCHANGED <<chunks, frontier>>

\* Acquire from the slots never used so far of the last chunk.
AcquireFrontier ==
  /\ firstFree = INVALID_INDEX
  /\ frontier # INVALID_INDEX
  /\ frontier' = IF frontier + 1 >= Total THEN INVALID_INDEX ELSE frontier + 1
  /\ Issue(frontier, magics, freeCounts)
  /\ UNCHANGED <<chunks, firstFree>>

\* Acquire with no free slot at all: a new chunk, if indices are left.
AcquireNewChunk ==
  /\ firstFree = INVALID_INDEX
  /\ frontier = INVALID_INDEX
  /\ Total < MAX_INDEX
  /\ chunks' = chunks + 1
  /\ frontier' = IF ONE_CHUNK_COUNT = 1 THEN INVALID_INDEX ELSE Total + 1
  /\ Issue(Total, GrownMagics, GrownCounts)
  /\ UNCHANGED firstFree

Acquire ==
  /\ phase = "running"
  /\ acquires < MaxHandles
  /\ AcquireReleased \/ AcquireFrontier \/ AcquireNewChunk
  /\ UNCHANGED <<phase, cursor>>

\* Mutants: the free index goes up, too; the magic is not compared.
ReleaseSlotUp(h) ==
  IF Resolves([idx |-> h.idx, magic |-> h.magic])
  THEN /\ firstFree' = h.idx
       /\ magics' = SetMagic(magics, h.idx, 0)
       /\ freeCounts' = AddFree(freeCounts, h.idx, 1)
       /\ usedCount' = usedCount - 1
  ELSE UNCHANGED <<firstFree, magics, freeCounts, usedCount>>

ReleaseSlotUnchecked(h) ==
  /\ firstFree' = IF h.idx < firstFree THEN h.idx ELSE firstFree
  /\ magics' = SetMagic(magics, h.idx, 0)
  /\ freeCounts' = AddFree(freeCounts, h.idx, IF magics[h.idx] = 0 THEN 0 ELSE 1)
  /\ usedCount' = usedCount - (IF magics[h.idx] = 0 THEN 0 ELSE 1)

\* What Release does to the tables; a handle whose slot has another magic is
\* a duplicate release and changes nothing.
ReleaseSlot(h) ==
  IF Resolves([idx |-> h.idx, magic |-> h.magic])
  THEN /\ firstFree' = IF h.idx < firstFree THEN h.idx ELSE firstFree
       /\ magics' = SetMagic(magics, h.idx, 0)
       /\ freeCounts' = AddFree(freeCounts, h.idx, 1)
       /\ usedCount' = usedCount - 1
  ELSE UNCHANGED <<firstFree, magics, freeCounts, usedCount>>

\* A handle is recent when fewer than MAX_MAGIC objects were made since.
Recent(h) == acquires - h.at < MAX_MAGIC

\* s_AutoMagic is one counter for all pools of the same handle type.
AcquireElsewhere ==
  /\ phase = "running"
  /\ acquires < MaxHandles
  /\ autoMagic' = IncMagic(autoMagic)
  /\ acquires' = acquires + 1
  /\ UNCHANGED <<chunks, magics, freeCounts, firstFree, frontier, usedCount,
                 issued, live, phase, cursor>>

\* Any recent handle may be released, also for the second time.
Release(h) ==
  /\ phase = "running"
  /\ Recent(h)
  /\ ReleaseSlot(h)
  /\ live' = live \ {h}
  /\ UNCHANGED <<chunks, frontier, autoMagic, acquires, issued, phase, cursor>>

\* ReNew gives the object of a handle a new magic, the handle's own plus one.
ReNew(h) ==
  LET new == [idx |-> h.idx, magic |-> IncMagic(h.magic), at |-> h.at]
  IN  /\ phase = "running"
      /\ Recent(h)
      /\ Cardinality(issued) < MaxHandles
      /\ Resolves([idx |-> h.idx, magic |-> h.magic])
      /\ magics' = SetMagic(magics, h.idx, new.magic)
      /\ issued' = issued \cup {new}
      /\ live' = (live \ {h}) \cup {new}
      /\ UNCHANGED <<chunks, freeCounts, firstFree, frontier, usedCount, autoMagic,
                     acquires, phase, cursor>>

\* CEntityManager::CloseAllActor at shutdown: First, then close and Next.
CloseAllActor ==
  /\ phase = "running"
  /\ phase' = IF FirstUsed = NullHandle THEN "closed" ELSE "closing"
  /\ cursor' = FirstUsed
  /\ UNCHANGED <<poolVars, acquires, issued, live>>

CloseNextActor ==
  /\ phase = "closing"
  /\ ReleaseSlot(cursor)
  /\ live' = {h \in live : ~ (h.idx = cursor.idx /\ h.magic = cursor.magic)}
  /\ cursor' = NextUsed(magics', freeCounts', cursor.idx)
  /\ phase' = IF cursor' = NullHandle THEN "closed" ELSE "closing"
  /\ UNCHANGED <<chunks, frontier, autoMagic, acquires, issued>>

Next ==
  \/ Acquire
  \/ AcquireElsewhere
  \/ \E h \in issued : Release(h) \/ ReNew(h)
  \/ CloseAllActor
  \/ CloseNextActor

Spec == Init /\ [][Next]_vars

-----------------------------------------------------------------------------
(* Correctness *)

\* The tables have their types, every index fits into the bits of a handle, and
\* the free-slot indices are INVALID_INDEX or an allocated slot.
TypeOK ==
  /\ chunks \in Nat
  /\ Slots \subseteq 0 .. MAX_INDEX
  /\ magics \in [Slots -> 0 .. MAX_MAGIC]
  /\ freeCounts \in [0 .. chunks - 1 -> 0 .. ONE_CHUNK_COUNT]
  /\ firstFree \in Slots \cup {INVALID_INDEX}
  /\ frontier \in Slots \cup {INVALID_INDEX}
  /\ usedCount \in Nat
  /\ autoMagic \in 0 .. MAX_MAGIC
  /\ acquires \in Nat
  /\ issued \subseteq [idx : Nat, magic : 1 .. MAX_MAGIC, at : Nat]
  /\ phase \in {"running", "closing", "closed"}

\* Every slot from the frontier on has never been used.
FrontierUnused == frontier # INVALID_INDEX => \A k \in Slots : k >= frontier => magics[k] = 0

FreeBelow(mg, bound) == {k \in DOMAIN mg : mg[k] = 0 /\ k < bound}

\* m_nFirstFreeIndex is the lowest free slot below the frontier, so that no
\* released slot is lost: INVALID_INDEX means that there is none.
FirstFreeIsLowest == firstFree = LeastOr(FreeBelow(magics, frontier), INVALID_INDEX)

\* m_FreeCounts and m_nUsedCount say how many slots are free and used: the
\* scans rely on them to skip chunks.
CountsExact ==
  /\ \A c \in 0 .. chunks - 1 : freeCounts[c] = Cardinality(FreeSlots(magics, c))
  /\ usedCount = Cardinality(UsedSlots(magics))

\* The slots whose object got a second magic number: ReNew makes it from the handle
\* instead of s_AutoMagic, so it may meet that of another object of the slot.
RenewedSlots == {h.idx : h \in {x \in issued : \E g \in issued : g.at = x.at /\ g # x}}

\* GetDataPtr finds exactly the objects that exist: no stale handle reaches the
\* object that took over its slot, for as long as fewer than MAX_MAGIC objects
\* have been created since the handle was made, and ReNew did not touch the slot.
StaleHandleRejected ==
  \A h \in issued :
    Recent(h) /\ h.idx \notin RenewedSlots =>
      (Resolves([idx |-> h.idx, magic |-> h.magic]) <=> h \in live)

\* The tables implement an ideal pool: an object is put into a slot nobody uses, and
\* stays there until its own handle is released, whatever other handles are released,
\* for the first or the second time; only slots that ReNew touched are excepted.
Ideal == INSTANCE ObjectPool WITH
           Slot <- 0 .. MAX_INDEX,
           Object <- 1 .. MaxHandles,
           used <- UsedSlots(magics),
           holders <- {[slot |-> h.idx, object |-> h.at] : h \in live},
           renamed <- RenewedSlots
ImplementsIdealPool == Ideal!Spec

\* CloseAllActor closes, and so saves, every actor (EntityManager.cpp:1360-1365:
\* all players are kicked when the component is released).
CloseAllClosesEveryActor == phase = "closed" => usedCount = 0
=============================================================================
