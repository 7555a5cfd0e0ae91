-------------------------------- MODULE MCDeal --------------------------------
(* Instances of Deal for TLC. *)
EXTENDS Deal, TLC

CONSTANTS p1, p2, p3, c1, c2, SmallBag

\* One player has everything, one has a small bag.
BagSizesMC == (p1 :> 3) @@ (p2 :> 3) @@ (p3 :> SmallBag)
BagsMC == (p1 :> {c1, c2}) @@ (p2 :> {}) @@ (p3 :> {})
CountsMC == (c1 :> 2) @@ (c2 :> 1)
MoneyMC == (p1 :> 2) @@ (p2 :> 2) @@ (p3 :> 0)
=============================================================================
