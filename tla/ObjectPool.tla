------------------------------ MODULE ObjectPool ------------------------------
(***************************************************************************)
(* What a pool of handles promises the holders of its objects, without     *)
(* free lists, chunks, counters or magic numbers: an object is put into a  *)
(* slot nobody uses, and it stays there until its own holder gives it      *)
(* back.  Nothing any other holder does, now or with a handle of an object *)
(* that is long gone, takes it away.                                       *)
(*                                                                         *)
(* The promise ends for a slot whose object was once renamed: there, who   *)
(* holds a handle of an earlier object may take away the present one.      *)
(***************************************************************************)
EXTENDS Integers

CONSTANTS
  Slot,     \* the slots there can ever be
  Object    \* the identities of objects

VARIABLES
  used,     \* the slots that hold an object
  holders,  \* who has not given back its object yet, with the object's slot
  renamed   \* the slots whose object was renamed once

Init == used = {} /\ holders = {} /\ renamed = {}

Create(k, o) ==
  /\ k \notin used
  /\ \A p \in holders : p.object # o
  /\ used' = used \cup {k}
  /\ holders' = holders \cup {[slot |-> k, object |-> o]}
  /\ UNCHANGED renamed

Destroy(p) ==
  /\ p.slot \in used
  /\ used' = used \ {p.slot}
  /\ holders' = holders \ {p}
  /\ UNCHANGED renamed

\* The object in the slot keeps its holder.
ReName(k) ==
  /\ k \in used
  /\ renamed' = renamed \cup {k}
  /\ UNCHANGED <<used, holders>>

\* All that can be said of a slot that was renamed.
Anything(k) ==
  /\ k \in renamed
  /\ used \ {k} = used' \ {k}
  /\ \A p \in holders \cup holders' : p.slot # k => p \in holders /\ p \in holders'
  /\ UNCHANGED renamed

Next ==
  \/ \E k \in Slot : (\E o \in Object : Create(k, o)) \/ ReName(k)
  \/ \E p \in holders : Destroy(p)
  \/ \E k \in renamed : Anything(k)

Spec == Init /\ [][Next]_<<used, holders, renamed>>
=============================================================================
