---------------------------- MODULE MCLoginHandoff ----------------------------
(* Instances of LoginHandoff for TLC. *)
EXTENDS LoginHandoff, TLC

CONSTANTS a1, a2, c1, c2

FdSymmetry == Permutations(Fd)

\* One account with two characters, and two accounts with one character each.
OwnerA == (c1 :> a1) @@ (c2 :> a1)
PicksOne == {<<a1, c1>>}
OwnerB == (c1 :> a1) @@ (c2 :> a2)
PicksB == {<<a1, c1>>, <<a1, c2>>, <<a2, c2>>}
=============================================================================
