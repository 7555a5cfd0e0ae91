-------------------------------- MODULE Barter --------------------------------
(***************************************************************************)
(* What a deal between two players promises: a player agrees to terms, who *)
(* gets what for what, and when the other one accepts the same terms, the  *)
(* items and the coins change hands in one step, exactly as agreed, less   *)
(* the dues.  Nothing else ever moves an item from one bag to another.     *)
(* A bag that cannot take all it is given may take less: what does not go  *)
(* in is lost, and only then.                                              *)
(***************************************************************************)
EXTENDS Integers, FiniteSets

CONSTANTS
  Player, Item,
  MaxCount,   \* largest number of pieces of an item
  MaxMoney,   \* the most coins a player can have
  BagSize,    \* the most items a player can have
  Dues(_)     \* what is kept of a number of coins

VARIABLES
  bag,     \* the items of a player
  count,   \* the number of pieces of an item, 0 for one that does not exist
  money,   \* the coins of a player
  agreed   \* the terms a player has agreed to, if any

vars == <<bag, count, money, agreed>>

\* Items with their number of pieces, and coins.
Offers == [items : SUBSET (Item \X (1 .. MaxCount)), coin : 0 .. MaxMoney]
Terms == [with : Player, give : Offers, get : Offers]
NoTerms == [with |-> {}]

ItemsOf(offer) == {x[1] : x \in offer.items}

TypeOK ==
  /\ bag \in [Player -> SUBSET Item]
  /\ count \in [Item -> 0 .. MaxCount]
  /\ money \in [Player -> 0 .. MaxMoney]
  /\ \A p \in Player : agreed[p] = NoTerms \/ agreed[p] \in Terms

Init ==
  /\ TypeOK
  /\ \A p, q \in Player : p # q => bag[p] \cap bag[q] = {}
  /\ \A i \in Item : count[i] = 0 <=> \A p \in Player : i \notin bag[p]
  /\ agreed = [p \in Player |-> NoTerms]

\* Agreements are given up; the coins and the items stay where they are.
Withdraw ==
  /\ \E S \in SUBSET Player :
       agreed' = [p \in Player |-> IF p \in S THEN NoTerms ELSE agreed[p]]
  /\ UNCHANGED <<bag, count, money>>

\* A player agrees, to terms of its own choice.
Agree(p) ==
  /\ agreed[p] = NoTerms
  /\ agreed'[p] \in Terms
  /\ agreed' = [agreed EXCEPT ![p] = agreed'[p]]
  /\ UNCHANGED <<bag, count, money>>

Fits(p, S) == Cardinality(bag[p] \cup S) <= BagSize[p]

\* p accepts the terms q has agreed to.
Exchange(p, q) ==
  LET give == agreed[q].get   \* of p, to q
      get == agreed[q].give   \* of q, to p
  IN  /\ p # q
      /\ agreed[q] # NoTerms /\ agreed[q].with = p
      /\ ItemsOf(give) \subseteq bag[p] /\ ItemsOf(get) \subseteq bag[q]
      /\ \A x \in give.items \cup get.items : count[x[1]] = x[2]
      /\ \E lost \in SUBSET (ItemsOf(give) \cup ItemsOf(get)) :
           /\ Fits(p, ItemsOf(get)) => lost \cap ItemsOf(get) = {}
           /\ Fits(q, ItemsOf(give)) => lost \cap ItemsOf(give) = {}
           /\ bag' = [bag EXCEPT ![p] = (bag[p] \ ItemsOf(give)) \cup (ItemsOf(get) \ lost),
                                 ![q] = (bag[q] \ ItemsOf(get)) \cup (ItemsOf(give) \ lost)]
      /\ money' = [money EXCEPT ![p] = @ - give.coin + get.coin - Dues(get.coin),
                                ![q] = @ - get.coin + give.coin - Dues(give.coin)]
      /\ agreed' = [agreed EXCEPT ![p] = NoTerms, ![q] = NoTerms]
      /\ UNCHANGED count

\* Items are used and found, and coins are spent, outside of any exchange.
Use(p, i) ==
  /\ i \in bag[p]
  /\ count' = [count EXCEPT ![i] = @ - 1]
  /\ bag' = IF count[i] = 1 THEN [bag EXCEPT ![p] = @ \ {i}] ELSE bag
  /\ UNCHANGED <<money, agreed>>

Find(p, i) ==
  /\ count[i] = 0
  /\ \E n \in 1 .. MaxCount : count' = [count EXCEPT ![i] = n]
  /\ bag' = [bag EXCEPT ![p] = @ \cup {i}]
  /\ UNCHANGED <<money, agreed>>

Spend(p) ==
  /\ money[p] > 0
  /\ money' = [money EXCEPT ![p] = @ - 1]
  /\ UNCHANGED <<bag, count, agreed>>

Next ==
  \/ Withdraw
  \/ \E p \in Player : Agree(p) \/ Spend(p)
  \/ \E p, q \in Player : Exchange(p, q)
  \/ \E p \in Player, i \in Item : Use(p, i) \/ Find(p, i)

Spec == Init /\ [][Next]_vars
=============================================================================
