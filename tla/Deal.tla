--------------------------------- MODULE Deal ---------------------------------
(***************************************************************************)
(* The deal between two players: CDealSystem of                            *)
(* server/LogicServer/entitysystem/DealSystem.cpp, one object per player.  *)
(* Each side puts items and coins on the table, locks its offer, and when  *)
(* both are locked confirms; the second confirmation completes the deal.   *)
(*                                                                         *)
(* The handlers run in the logic thread, one message at a time, so each is *)
(* one action; what interleaves are the messages of the players, and all   *)
(* else they do in the meantime: items are used up and found, coins spent. *)
(* An item on the table is a pointer: Cell is the memory of an item, which *)
(* is given out again once the item is used up.                            *)
(*                                                                         *)
(* Players have to stay near each other.  A handler that finds the partner *)
(* too far off calls CancelDeal, as does the death of the player: that is  *)
(* the action Cancel.                                                      *)
(***************************************************************************)
EXTENDS Integers, FiniteSets

CONSTANTS
  Player, Nobody,    \* players, and m_pDealTarget NULL
  Cell, NoCell,      \* the memory of items, and NULL
  MaxDealItemCount,  \* positions on the table (5 in the code)
  BagSize,           \* cells of a player's bag (m_BagMaxCounts)
  Spare,             \* cells CanAddItem keeps free: 10, or 0 for items of package type 0
  MaxCount,          \* largest number of pieces of an item
  MaxMoney,          \* INT_MAX
  DuesRate,          \* nDues, in percent
  MinItemCount,      \* bound: how far m_nItemCount goes down
  Busy,              \* bound: the players that leave, use, find and buy things meanwhile
  InitBag, InitCount, InitMoney

ASSUME DealAssumption ==
  /\ Nobody \notin Player /\ NoCell \notin Cell
  /\ IsFiniteSet(Player) /\ IsFiniteSet(Cell)
  /\ MaxDealItemCount \in Nat \ {0} /\ Spare \in Nat
  /\ BagSize \in [Player -> Nat]
  /\ MaxCount \in Nat \ {0} /\ MaxMoney \in Nat /\ DuesRate \in 0 .. 100
  /\ MinItemCount \in Int /\ MinItemCount <= 0 /\ Busy \subseteq Player
  /\ InitBag \in [Player -> SUBSET Cell]
  /\ \A p \in Player : Cardinality(InitBag[p]) <= BagSize[p]
  /\ \A p, q \in Player : p # q => InitBag[p] \cap InitBag[q] = {}
  /\ InitCount \in [Cell -> 0 .. MaxCount]
  /\ \A c \in Cell : InitCount[c] = 0 <=> \A p \in Player : c \notin InitBag[p]
  /\ InitMoney \in [Player -> 0 .. MaxMoney]

VARIABLES
  online,  \* the players in the game
  deal,    \* the deal system of each player
  bag,     \* the items in the bag of each player
  count,   \* wCount of the item in a cell, 0 when the cell is free
  money    \* the coins of each player

vars == <<online, deal, bag, count, money>>

-----------------------------------------------------------------------------
Pos == 1 .. MaxDealItemCount

\* ClearDealData.  m_boDealing is set and reset together with the target, and
\* m_DealItemList tells the same as m_DealItems.
NoDeal == [target |-> Nobody, locked |-> FALSE, confirmed |-> FALSE,
           items |-> [i \in Pos |-> NoCell], counts |-> [i \in Pos |-> 0],
           itemCount |-> 0, coin |-> 0]

IsDealing(p) == deal[p].target # Nobody
OnTable(p) == {i \in Pos : deal[p].items[i] # NoCell}
Available(b, p) == BagSize[p] - Cardinality(b[p])

Init ==
  /\ online = Player
  /\ deal = [p \in Player |-> NoDeal]
  /\ bag = InitBag
  /\ count = InitCount
  /\ money = InitMoney

-----------------------------------------------------------------------------
(* What a player does with its deal *)

\* Mutant: the other player may be dealing with somebody else.
ReplyAnyone(p, q) ==
  /\ p # q
  /\ p \in online /\ q \in online
  /\ ~ IsDealing(p)
  /\ deal' = [deal EXCEPT ![p] = [NoDeal EXCEPT !.target = q], ![q] = [NoDeal EXCEPT !.target = p]]
  /\ UNCHANGED <<online, bag, count, money>>

\* ClientReplyDeal: p accepts a deal with q; that q asked for it is not checked.
Reply(p, q) ==
  /\ p # q
  /\ p \in online /\ q \in online
  /\ ~ IsDealing(p) /\ ~ IsDealing(q)
  /\ deal' = [deal EXCEPT ![p] = [NoDeal EXCEPT !.target = q], ![q] = [NoDeal EXCEPT !.target = p]]
  /\ UNCHANGED <<online, bag, count, money>>

\* ClientDealAddItem, to add: an item of the own bag that is not on the table yet;
\* what was at the position before is taken off it.
AddItem(p, i, c) ==
  /\ IsDealing(p) /\ ~ deal[p].locked
  /\ deal[p].itemCount < MaxDealItemCount
  /\ c \in bag[p]
  /\ \A j \in Pos : deal[p].items[j] # c
  /\ deal' = [deal EXCEPT ![p].items[i] = c, ![p].counts[i] = count[c],
                          ![p].itemCount = @ + (IF deal[p].items[i] = NoCell THEN 1 ELSE 0)]
  /\ UNCHANGED <<online, bag, count, money>>

\* ClientDealAddItem, to remove: the count goes down for an empty position, too.
RemoveItem(p, i) ==
  /\ IsDealing(p) /\ ~ deal[p].locked
  /\ deal[p].itemCount > MinItemCount
  /\ deal' = [deal EXCEPT ![p].items[i] = NoCell, ![p].counts[i] = 0, ![p].itemCount = @ - 1]
  /\ UNCHANGED <<online, bag, count, money>>

\* ClientChangeDealCoin: no more than the player has.
ChangeCoin(p, n) ==
  /\ IsDealing(p) /\ ~ deal[p].locked
  /\ n <= money[p]
  /\ deal' = [deal EXCEPT ![p].coin = n]
  /\ UNCHANGED <<online, bag, count, money>>

\* ClientLockDeal
Lock(p) ==
  /\ IsDealing(p)
  /\ deal' = [deal EXCEPT ![p].locked = TRUE]
  /\ UNCHANGED <<online, bag, count, money>>

\* CancelDeal, which calls CancelDeal of the partner, whose partner is p again.
Cancelled(p) == [q \in Player |-> IF q \in {p, deal[p].target} THEN NoDeal ELSE deal[q]]

Cancel(p) ==
  /\ IsDealing(p)
  /\ deal' = Cancelled(p)
  /\ UNCHANGED <<online, bag, count, money>>

-----------------------------------------------------------------------------
(* The confirmation *)

\* FindItemByGuid in the own bag, for the item at a position.  Series are unique,
\* so that the item found is the one in that cell, or there is none.
InBag(p, i) == deal[p].items[i] \in bag[p]

ValidateDealItems(p) == \A i \in OnTable(p) : InBag(p, i)

\* Mutant: the numbers of pieces are not looked at again.
SameCountsAlways(p) == OnTable(p) \subseteq Pos

Affordable(p) == money[p] >= deal[p].coin

\* Each item has as many pieces as it was put on the table with.
SameCounts(p) == \A i \in OnTable(p) : count[deal[p].items[i]] = deal[p].counts[i]

\* Mutant: there is no limit.
RoomForMoneyAlways(p, q) == money[p] + deal[q].coin >= 0

\* INT_MAX - money of p < coins of q cancels the deal.
RoomForMoney(p, q) == money[p] + deal[q].coin <= MaxMoney

\* CanAddItem, for every item of q by itself: one more has to fit beside the spare cells.
CanAddItems(p, q) == OnTable(q) = {} \/ Available(bag, p) - Spare >= 1

\* What p receives of q is less the dues, at least one coin; ChangeMoney takes no
\* more than there is.
Dues(n) == IF n = 0 THEN 0 ELSE IF (DuesRate * n) \div 100 = 0 THEN 1 ELSE (DuesRate * n) \div 100
Received(m, p, q) ==
  [m EXCEPT ![p] = @ + deal[q].coin - Dues(deal[q].coin),
            ![q] = IF deal[q].coin > @ THEN @ ELSE @ - deal[q].coin]

\* Mutant: what is given stays in the bag of q, too.
TakenKept(b, p, q) ==
  [b EXCEPT ![p] = @ \cup {deal[q].items[i] : i \in {j \in OnTable(q) : deal[q].items[j] \in b[q]}}]

\* CompleteDeal of p: the items of q leave its bag, from the last position to the
\* first, and go into the bag of p while there is a cell left.
Taken(b, p, q) ==
  LET given == {i \in OnTable(q) : deal[q].items[i] \in b[q]}
      added == {i \in given : Cardinality({j \in given : j > i}) < Available(b, p)}
  IN  [b EXCEPT ![q] = @ \ {deal[q].items[i] : i \in given},
                ![p] = @ \cup {deal[q].items[i] : i \in added}]

\* ClientConfimDeal: the first confirmation is noted; the second one checks both
\* offers and completes the deal or cancels it.
Confirm(p) ==
  LET q == deal[p].target
      complete == \A x \in {<<p, q>>, <<q, p>>} :
                    /\ Affordable(x[1])
                    /\ ValidateDealItems(x[1])
                    /\ RoomForMoney(x[1], x[2])
                    /\ SameCounts(x[1])
                    /\ CanAddItems(x[1], x[2])
  IN  /\ IsDealing(p)
      /\ deal[p].locked /\ deal[q].locked
      /\ IF ~ deal[q].confirmed
         THEN /\ deal' = [deal EXCEPT ![p].confirmed = TRUE]
              /\ UNCHANGED <<bag, money>>
         ELSE /\ deal' = Cancelled(p)
              /\ IF complete
                 THEN /\ money' = Received(Received(money, p, q), q, p)
                      /\ bag' = Taken(Taken(bag, p, q), q, p)
                 ELSE UNCHANGED <<bag, money>>
      /\ UNCHANGED <<online, count>>

-----------------------------------------------------------------------------
(* What else happens to players in the meantime *)

\* PreCloseActor and Destroy; a new CDealSystem is made when the player comes back.
Leave(p) ==
  /\ p \in online \cap Busy
  /\ online' = online \ {p}
  /\ deal' = IF IsDealing(p) THEN Cancelled(p) ELSE deal
  /\ UNCHANGED <<bag, count, money>>

Return(p) ==
  /\ p \notin online
  /\ online' = online \cup {p}
  /\ UNCHANGED <<deal, bag, count, money>>

\* HandUseItem and DeleteItem do not ask whether the item is on the table.
UseItem(p, c) ==
  /\ p \in online \cap Busy
  /\ c \in bag[p]
  /\ count' = [count EXCEPT ![c] = @ - 1]
  /\ bag' = IF count[c] = 1 THEN [bag EXCEPT ![p] = @ \ {c}] ELSE bag
  /\ UNCHANGED <<online, deal, money>>

\* A new item, in memory that was free; the allocator gives any.
FindItem(p, c, n) ==
  /\ p \in online \cap Busy
  /\ count[c] = 0
  /\ Available(bag, p) > 0
  /\ count' = [count EXCEPT ![c] = n]
  /\ bag' = [bag EXCEPT ![p] = @ \cup {c}]
  /\ UNCHANGED <<online, deal, money>>

SpendMoney(p) ==
  /\ p \in online \cap Busy
  /\ money[p] > 0
  /\ money' = [money EXCEPT ![p] = @ - 1]
  /\ UNCHANGED <<online, deal, bag, count>>

Next ==
  \/ \E p, q \in Player : Reply(p, q)
  \/ \E p \in Player :
       \/ \E i \in Pos : RemoveItem(p, i) \/ \E c \in Cell : AddItem(p, i, c)
       \/ \E n \in 0 .. MaxMoney : ChangeCoin(p, n)
       \/ Lock(p) \/ Cancel(p) \/ Confirm(p)
       \/ Leave(p) \/ Return(p)
       \/ SpendMoney(p)
       \/ \E c \in Cell : UseItem(p, c) \/ \E n \in 1 .. MaxCount : FindItem(p, c, n)

Spec == Init /\ [][Next]_vars

-----------------------------------------------------------------------------
(* Correctness *)

TypeOK ==
  /\ online \subseteq Player
  /\ deal \in [Player -> [target : Player \cup {Nobody}, locked : BOOLEAN, confirmed : BOOLEAN,
                          items : [Pos -> Cell \cup {NoCell}], counts : [Pos -> 0 .. MaxCount],
                          itemCount : MinItemCount .. MaxDealItemCount, coin : 0 .. MaxMoney]]
  /\ bag \in [Player -> SUBSET Cell]
  /\ \A p \in Player : Cardinality(bag[p]) <= BagSize[p]
  /\ count \in [Cell -> 0 .. MaxCount]
  /\ money \in [Player -> 0 .. MaxMoney]

\* The two sides agree that they deal with each other, a player has no remains of an
\* earlier deal, and nobody deals with a player that left: m_pDealTarget never dangles
\* (the warning in DealSystem.h about players that go off line).
PartnersAgree ==
  \A p \in Player :
    /\ IsDealing(p) => /\ {p, deal[p].target} \subseteq online
                       /\ deal[p].target # p
                       /\ deal[deal[p].target].target = p
    /\ ~ IsDealing(p) => deal[p] = NoDeal

\* No item is in two bags, and no bag keeps one that was used up, whatever happens to the
\* items on the table in the meantime (CompleteDeal adds only what it could remove).
NoItemDoubled ==
  /\ \A p, q \in Player : p # q => bag[p] \cap bag[q] = {}
  /\ \A p \in Player : \A c \in bag[p] : count[c] > 0

\* The deal implements barter: the terms a player agreed to are its own offer and that
\* of its partner as they were when it confirmed, and that is what is exchanged; items
\* are lost on the way only if a bag cannot take all of them.
Offer(p) == [items |-> {<<deal[p].items[i], deal[p].counts[i]>> : i \in OnTable(p)},
             coin |-> deal[p].coin]
Agreed == [p \in Player |->
             IF deal[p].confirmed
             THEN [with |-> deal[p].target, give |-> Offer(p), get |-> Offer(deal[p].target)]
             ELSE [with |-> {}]]
Bartering == INSTANCE Barter WITH Item <- Cell, agreed <- Agreed
ImplementsBarter == Bartering!Spec

-----------------------------------------------------------------------------
(* What one would expect, and this code does not keep *)

\* An item that was not used up is in exactly one bag (DealSystem.cpp:931: the deal is
\* cancelled when a bag cannot take all the items of the other side).
EveryItemInOneBag ==
  \A c \in Cell : Cardinality({p \in Player : c \in bag[p]}) = IF count[c] = 0 THEN 0 ELSE 1
=============================================================================
