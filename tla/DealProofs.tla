------------------------------ MODULE DealProofs ------------------------------
(***************************************************************************)
(* Theorems about Deal: the two sides of every deal agree that they deal   *)
(* with each other, for any number of players and items.                   *)
(***************************************************************************)
EXTENDS Deal, FiniteSetTheorems, TLAPS

\* The types the argument needs.  Numbers are just integers here: that they stay within
\* their bounds is not needed to know who deals with whom.
Systems == [target : Player \cup {Nobody}, locked : BOOLEAN, confirmed : BOOLEAN,
            items : [Pos -> Cell \cup {NoCell}], counts : [Pos -> Int],
            itemCount : Int, coin : Int]

Typed ==
  /\ online \in SUBSET Player
  /\ deal \in [Player -> Systems]
  /\ count \in [Cell -> Int]

\* The inductive invariant.
IInv == Typed /\ PartnersAgree

LEMMA NoDealTyped == NoDeal \in Systems /\ NoDeal.target = Nobody
BY DEF NoDeal, Systems

LEMMA InitInv == Init => IInv
<1>1. SUFFICES ASSUME Init PROVE IInv
  OBVIOUS
<1>2. Typed
  BY <1>1, NoDealTyped, DealAssumption DEF Init, Typed
<1>3. PartnersAgree
  BY <1>1, NoDealTyped DEF Init, PartnersAgree, IsDealing
<1> QED  BY <1>2, <1>3 DEF IInv

\* A player with a partner is in the game, and so is its partner.
LEMMA Partner ==
  ASSUME IInv, NEW p \in Player, IsDealing(p)
  PROVE  /\ deal[p].target \in Player /\ deal[p].target # p
         /\ deal[deal[p].target].target = p
         /\ p \in online /\ deal[p].target \in online
BY DEF IInv, Typed, PartnersAgree, IsDealing, Systems

\* Cancelling ends the deal of both sides and leaves all others alone.
LEMMA CancelledInv ==
  ASSUME IInv, NEW p \in Player, IsDealing(p), deal' = Cancelled(p),
         online' \in SUBSET Player, online \ {p} \subseteq online'
  PROVE  deal' \in [Player -> Systems] /\ PartnersAgree'
<1> DEFINE t == deal[p].target
<1>1. t \in Player /\ t # p /\ deal[t].target = p
  BY Partner
<1>2. deal' \in [Player -> Systems]
  BY NoDealTyped DEF IInv, Typed, Cancelled
<1>3. ASSUME NEW q \in Player
      PROVE  deal'[q] = IF q \in {p, t} THEN NoDeal ELSE deal[q]
  BY DEF Cancelled
<1>4. ASSUME NEW q \in Player, deal'[q].target # Nobody
      PROVE  /\ {q, deal'[q].target} \subseteq online'
             /\ deal'[q].target # q
             /\ deal'[deal'[q].target].target = q
  <2> DEFINE u == deal[q].target
  <2>1. q \notin {p, t} /\ deal'[q] = deal[q] /\ IsDealing(q)
    BY <1>3, <1>4, NoDealTyped DEF IsDealing
  <2>2. u \in Player /\ u # q /\ deal[u].target = q /\ q \in online /\ u \in online
    BY <2>1, Partner
  <2>3. u \notin {p, t}
    BY <1>1, <2>1, <2>2
  <2>4. deal'[u] = deal[u]
    BY <1>3, <2>2, <2>3
  <2> QED  BY <2>1, <2>2, <2>3, <2>4
<1>5. ASSUME NEW q \in Player, deal'[q].target = Nobody
      PROVE  deal'[q] = NoDeal
  BY <1>3, <1>5 DEF IInv, PartnersAgree, IsDealing
<1> QED  BY <1>2, <1>4, <1>5 DEF PartnersAgree, IsDealing

\* A change of the own offer, lock or confirmation leaves the partners as they are.
LEMMA OfferInv ==
  ASSUME IInv, NEW p \in Player, IsDealing(p), NEW s \in Systems,
         s.target = deal[p].target,
         deal' = [deal EXCEPT ![p] = s], online' = online
  PROVE  deal' \in [Player -> Systems] /\ PartnersAgree'
<1>1. deal' \in [Player -> Systems]
  BY DEF IInv, Typed
<1>2. \A q \in Player : deal'[q].target = deal[q].target /\ (q # p => deal'[q] = deal[q])
  BY DEF IInv, Typed
<1>3. ASSUME NEW q \in Player, IsDealing(q)'
      PROVE  /\ {q, deal'[q].target} \subseteq online'
             /\ deal'[q].target # q
             /\ deal'[deal'[q].target].target = q
  BY <1>2, <1>3, Partner DEF IsDealing
<1>4. ASSUME NEW q \in Player, ~ IsDealing(q)'
      PROVE  deal'[q] = NoDeal
  BY <1>2, <1>4 DEF IsDealing, IInv, PartnersAgree
<1> QED  BY <1>1, <1>3, <1>4 DEF PartnersAgree, IsDealing

\* Two players without a deal become partners.
LEMMA ReplyInv ==
  ASSUME IInv, NEW p \in Player, NEW q \in Player, Reply(p, q)
  PROVE  IInv'
<1> DEFINE sp == [NoDeal EXCEPT !.target = q]
           sq == [NoDeal EXCEPT !.target = p]
<1>1. sp \in Systems /\ sp.target = q /\ sq \in Systems /\ sq.target = p
  BY NoDealTyped DEF Systems
<1>2. deal' = [deal EXCEPT ![p] = sp, ![q] = sq] /\ p # q /\ ~ IsDealing(p) /\ ~ IsDealing(q)
      /\ p \in online /\ q \in online /\ UNCHANGED <<online, count>>
  BY DEF Reply
<1> HIDE DEF sp, sq
<1>3. deal' \in [Player -> Systems] /\ deal'[p] = sp /\ deal'[q] = sq
      /\ \A r \in Player \ {p, q} : deal'[r] = deal[r]
  BY <1>1, <1>2 DEF IInv, Typed
<1>4. p # Nobody /\ q # Nobody
  BY DealAssumption
<1>5. ASSUME NEW r \in Player, IsDealing(r)'
      PROVE  /\ {r, deal'[r].target} \subseteq online'
             /\ deal'[r].target # r
             /\ deal'[deal'[r].target].target = r
  <2>1. CASE r \in {p, q}
    BY <2>1, <1>1, <1>2, <1>3
  <2>2. CASE r \notin {p, q}
    <3>1. deal'[r] = deal[r] /\ IsDealing(r)
      BY <1>3, <1>5, <2>2 DEF IsDealing
    <3>2. deal[r].target \in Player /\ deal[deal[r].target].target = r /\ deal[r].target # r
          /\ r \in online /\ deal[r].target \in online
      BY <3>1, Partner
    <3>3. deal[r].target \notin {p, q}
      BY <1>2, <3>2, DealAssumption DEF IsDealing
    <3> QED  BY <1>2, <1>3, <3>1, <3>2, <3>3
  <2> QED  BY <2>1, <2>2
<1>6. ASSUME NEW r \in Player, ~ IsDealing(r)'
      PROVE  deal'[r] = NoDeal
  <2>1. r \notin {p, q}
    BY <1>1, <1>3, <1>4, <1>6 DEF IsDealing
  <2> QED  BY <1>3, <1>6, <2>1 DEF IsDealing, IInv, PartnersAgree
<1>7. PartnersAgree'
  BY <1>5, <1>6 DEF PartnersAgree, IsDealing
<1> QED  BY <1>2, <1>3, <1>7 DEF IInv, Typed

LEMMA NextInv == IInv /\ [Next]_vars => IInv'
<1>1. SUFFICES ASSUME IInv, [Next]_vars PROVE IInv'
  OBVIOUS
<1> USE <1>1
<1>2. ASSUME NEW p \in Player, NEW i \in Pos, NEW c \in Cell, AddItem(p, i, c)
      PROVE  IInv'
  <2> DEFINE s == [deal[p] EXCEPT !.items[i] = c, !.counts[i] = count[c],
                     !.itemCount = @ + (IF deal[p].items[i] = NoCell THEN 1 ELSE 0)]
  <2>1. s \in Systems /\ s.target = deal[p].target
    <3>1. deal[p] \in Systems /\ count[c] \in Int
      BY DEF IInv, Typed
    <3>2. [deal[p].items EXCEPT ![i] = c] \in [Pos -> Cell \cup {NoCell}]
      BY <3>1 DEF Systems
    <3>3. [deal[p].counts EXCEPT ![i] = count[c]] \in [Pos -> Int]
      BY <3>1 DEF Systems
    <3>4. deal[p].itemCount + (IF deal[p].items[i] = NoCell THEN 1 ELSE 0) \in Int
      BY <3>1 DEF Systems
    <3> QED  BY <3>1, <3>2, <3>3, <3>4 DEF Systems
  <2>2. deal' = [deal EXCEPT ![p] = s]
    BY <1>2 DEF AddItem, IInv, Typed
  <2> HIDE DEF s
  <2> QED  BY <1>2, <2>1, <2>2, OfferInv DEF AddItem, IInv, Typed
<1>3. ASSUME NEW p \in Player, NEW i \in Pos, RemoveItem(p, i)
      PROVE  IInv'
  <2> DEFINE s == [deal[p] EXCEPT !.items[i] = NoCell, !.counts[i] = 0, !.itemCount = @ - 1]
  <2>1. s \in Systems /\ s.target = deal[p].target
    <3>1. deal[p] \in Systems
      BY DEF IInv, Typed
    <3>2. [deal[p].items EXCEPT ![i] = NoCell] \in [Pos -> Cell \cup {NoCell}]
      BY <3>1 DEF Systems
    <3>3. [deal[p].counts EXCEPT ![i] = 0] \in [Pos -> Int]
      BY <3>1 DEF Systems
    <3>4. deal[p].itemCount - 1 \in Int
      BY <3>1 DEF Systems
    <3> QED  BY <3>1, <3>2, <3>3, <3>4 DEF Systems
  <2>2. deal' = [deal EXCEPT ![p] = s]
    BY <1>3 DEF RemoveItem, IInv, Typed
  <2> HIDE DEF s
  <2> QED  BY <1>3, <2>1, <2>2, OfferInv DEF RemoveItem, IInv, Typed
<1>4. ASSUME NEW p \in Player, NEW n \in 0 .. MaxMoney, ChangeCoin(p, n)
      PROVE  IInv'
  <2> DEFINE s == [deal[p] EXCEPT !.coin = n]
  <2>1. s \in Systems /\ s.target = deal[p].target
    <3>1. deal[p] \in Systems /\ n \in Int
      BY DealAssumption DEF IInv, Typed
    <3> QED  BY <3>1 DEF Systems
  <2>2. deal' = [deal EXCEPT ![p] = s]
    BY <1>4 DEF ChangeCoin, IInv, Typed
  <2> HIDE DEF s
  <2> QED  BY <1>4, <2>1, <2>2, OfferInv DEF ChangeCoin, IInv, Typed
<1>5. ASSUME NEW p \in Player, Lock(p)
      PROVE  IInv'
  <2> DEFINE s == [deal[p] EXCEPT !.locked = TRUE]
  <2>1. s \in Systems /\ s.target = deal[p].target
    <3>1. deal[p] \in Systems 
      BY DEF IInv, Typed
    <3> QED  BY <3>1 DEF Systems
  <2>2. deal' = [deal EXCEPT ![p] = s]
    BY <1>5 DEF Lock, IInv, Typed
  <2> HIDE DEF s
  <2> QED  BY <1>5, <2>1, <2>2, OfferInv DEF Lock, IInv, Typed
<1>6. ASSUME NEW p \in Player, Confirm(p)
      PROVE  IInv'
  <2>1. IsDealing(p) /\ UNCHANGED <<online, count>>
    BY <1>6 DEF Confirm
  <2>2. CASE ~ deal[deal[p].target].confirmed
    <3> DEFINE s == [deal[p] EXCEPT !.confirmed = TRUE]
    <3>1. s \in Systems /\ s.target = deal[p].target
      BY DEF IInv, Typed, Systems
    <3>2. deal' = [deal EXCEPT ![p] = s]
      BY <1>6, <2>2 DEF Confirm, IInv, Typed
    <3> HIDE DEF s
    <3> QED  BY <2>1, <3>1, <3>2, OfferInv DEF IInv, Typed
  <2>3. CASE deal[deal[p].target].confirmed
    <3>1. deal' = Cancelled(p)
      BY <1>6, <2>3 DEF Confirm
    <3> QED  BY <2>1, <3>1, CancelledInv DEF IInv, Typed
  <2> QED  BY <2>2, <2>3
<1>7. ASSUME NEW p \in Player, Cancel(p)
      PROVE  IInv'
  BY <1>7, CancelledInv DEF Cancel, IInv, Typed
<1>8. ASSUME NEW p \in Player, Leave(p)
      PROVE  IInv'
  <2>1. CASE IsDealing(p)
    BY <1>8, <2>1, CancelledInv DEF Leave, IInv, Typed
  <2>2. CASE ~ IsDealing(p)
    <3>1. deal' = deal /\ count' = count /\ online' = online \ {p}
      BY <1>8, <2>2 DEF Leave
    <3>2. \A q \in Player : deal[q].target # p
      <4> SUFFICES ASSUME NEW q \in Player, deal[q].target = p PROVE FALSE
        OBVIOUS
      <4>1. IsDealing(q)
        BY DealAssumption DEF IsDealing
      <4>2. deal[p].target = q
        BY <4>1, Partner
      <4> QED  BY <2>2, <4>2, DealAssumption DEF IsDealing
    <3>3. PartnersAgree'
      BY <2>2, <3>1, <3>2 DEF IInv, PartnersAgree, IsDealing
    <3> QED  BY <3>1, <3>3 DEF IInv, Typed
  <2> QED  BY <2>1, <2>2
<1>9. ASSUME NEW p \in Player, Return(p)
      PROVE  IInv'
  BY <1>9 DEF Return, IInv, Typed, PartnersAgree, IsDealing
<1>10. ASSUME NEW p \in Player, SpendMoney(p)
       PROVE  IInv'
  BY <1>10 DEF SpendMoney, IInv, Typed, PartnersAgree, IsDealing
<1>11. ASSUME NEW p \in Player, NEW c \in Cell, UseItem(p, c)
       PROVE  IInv'
  BY <1>11 DEF UseItem, IInv, Typed, PartnersAgree, IsDealing
<1>12. ASSUME NEW p \in Player, NEW c \in Cell, NEW n \in 1 .. MaxCount, FindItem(p, c, n)
       PROVE  IInv'
  BY <1>12, DealAssumption DEF FindItem, IInv, Typed, PartnersAgree, IsDealing
<1>13. CASE UNCHANGED vars
  BY <1>13 DEF vars, IInv, Typed, PartnersAgree, IsDealing
<1> QED
  BY <1>2, <1>3, <1>4, <1>5, <1>6, <1>7, <1>8, <1>9, <1>10, <1>11, <1>12, <1>13, ReplyInv
  DEF Next

-----------------------------------------------------------------------------
(* The theorem *)

\* In every state of the deal system, for all players and items: the partner of a player
\* has it as its partner, both are in the game, and who has no partner has no remains of
\* an earlier deal (m_pDealTarget never dangles).
THEOREM PartnersAlwaysAgree == Spec => []PartnersAgree
<1>1. IInv => PartnersAgree
  BY DEF IInv
<1> QED  BY InitInv, NextInv, <1>1, PTL DEF Spec

-----------------------------------------------------------------------------
(* No item is doubled *)

\* No item is in the bags of two players.
Disjoint(b) == \A p, q \in Player : p # q => b[p] \cap b[q] = {}

\* Found items come from memory that is free, so what is in a bag must not be free.
BagInv ==
  /\ bag \in [Player -> SUBSET Cell]
  /\ count \in [Cell -> Int]
  /\ Disjoint(bag)
  /\ \A p \in Player : \A c \in bag[p] : count[c] > 0

\* What a player takes of its partner leaves the bag of the partner, whether it finds room
\* or not, and nothing comes from elsewhere.
LEMMA TakenDisjoint ==
  ASSUME NEW b \in [Player -> SUBSET Cell], Disjoint(b),
         NEW p \in Player, NEW q \in Player, p # q
  PROVE  /\ Taken(b, p, q) \in [Player -> SUBSET Cell]
         /\ Disjoint(Taken(b, p, q))
         /\ \A r \in Player : \A c \in Taken(b, p, q)[r] : \E s \in Player : c \in b[s]
<1> DEFINE given == {i \in OnTable(q) : deal[q].items[i] \in b[q]}
           added == {i \in given : Cardinality({j \in given : j > i}) < Available(b, p)}
           Gone == {deal[q].items[i] : i \in given}
           Come == {deal[q].items[i] : i \in added}
           t == Taken(b, p, q)
<1>1. t = [b EXCEPT ![q] = @ \ Gone, ![p] = @ \cup Come]
  BY DEF Taken
<1>2. Come \subseteq Gone /\ Gone \subseteq b[q]
  OBVIOUS
<1> HIDE DEF Gone, Come
<1>3. /\ t \in [Player -> SUBSET Cell]
      /\ t[q] = b[q] \ Gone /\ t[p] = b[p] \cup Come
      /\ \A r \in Player \ {p, q} : t[r] = b[r]
  BY <1>1, <1>2
<1> HIDE DEF t
<1>4. Disjoint(t)
  BY <1>2, <1>3 DEF Disjoint
<1>5. \A r \in Player : \A c \in t[r] : \E s \in Player : c \in b[s]
  BY <1>2, <1>3
<1> QED  BY <1>3, <1>4, <1>5 DEF t

LEMMA InitBagInv == Init => BagInv
BY DealAssumption DEF Init, BagInv, Disjoint

\* The second confirmation moves items between the two bags.
LEMMA ConfirmBagInv ==
  ASSUME IInv, BagInv, NEW p \in Player, Confirm(p)
  PROVE  BagInv'
<1> DEFINE q == deal[p].target
<1>1. q \in Player /\ q # p
  BY Partner DEF Confirm
<1>2. count' = count
  BY DEF Confirm
<1>3. CASE bag' = bag
  BY <1>2, <1>3 DEF BagInv, Disjoint
<1>4. CASE bag' = Taken(Taken(bag, p, q), q, p)
  <2> DEFINE m == Taken(bag, p, q)
             n == Taken(m, q, p)
  <2>1. /\ m \in [Player -> SUBSET Cell] /\ Disjoint(m)
        /\ \A r \in Player : \A c \in m[r] : \E s \in Player : c \in bag[s]
    BY <1>1, TakenDisjoint DEF BagInv
  <2> HIDE DEF m
  <2>2. /\ n \in [Player -> SUBSET Cell] /\ Disjoint(n)
        /\ \A r \in Player : \A c \in n[r] : \E s \in Player : c \in m[s]
    BY <1>1, <2>1, TakenDisjoint
  <2> HIDE DEF n
  <2>3. bag' = n
    BY <1>4 DEF n, m
  <2>4. \A r \in Player : \A c \in n[r] : count[c] > 0
    BY <2>1, <2>2 DEF BagInv
  <2> QED  BY <1>2, <2>2, <2>3, <2>4 DEF BagInv, Disjoint
<1> QED  BY <1>3, <1>4 DEF Confirm

LEMMA NextBagInv == IInv /\ BagInv /\ [Next]_vars => BagInv'
<1> SUFFICES ASSUME IInv, BagInv, [Next]_vars PROVE BagInv'
  OBVIOUS
<1>1. ASSUME UNCHANGED <<bag, count>>
      PROVE  BagInv'
  BY <1>1 DEF BagInv, Disjoint
<1>2. ASSUME NEW p \in Player, NEW c \in Cell, UseItem(p, c)
      PROVE  BagInv'
  <2>1. c \in bag[p] /\ count[c] \in Int /\ count[c] > 0
    BY <1>2 DEF UseItem, BagInv
  <2>2. \A r \in Player : r # p => c \notin bag[r]
    BY <2>1 DEF BagInv, Disjoint
  <2>3. count' \in [Cell -> Int] /\ count'[c] = count[c] - 1
        /\ \A d \in Cell \ {c} : count'[d] = count[d]
    BY <1>2, <2>1 DEF UseItem, BagInv
  <2>4. CASE count[c] = 1
    <3>1. bag' = [bag EXCEPT ![p] = @ \ {c}]
      BY <1>2, <2>4 DEF UseItem
    <3>2. \A r \in Player : bag'[r] \subseteq bag[r] \ {c}
      BY <2>2, <3>1 DEF BagInv
    <3>3. bag' \in [Player -> SUBSET Cell]
      BY <3>1 DEF BagInv
    <3> QED  BY <2>3, <3>2, <3>3 DEF BagInv, Disjoint
  <2>5. CASE count[c] # 1
    <3>1. bag' = bag
      BY <1>2, <2>5 DEF UseItem
    <3>2. count'[c] > 0
      BY <2>1, <2>3, <2>5
    <3> QED  BY <2>3, <3>1, <3>2 DEF BagInv, Disjoint
  <2> QED  BY <2>4, <2>5
<1>3. ASSUME NEW p \in Player, NEW c \in Cell, NEW n \in 1 .. MaxCount, FindItem(p, c, n)
      PROVE  BagInv'
  <2>1. \A r \in Player : c \notin bag[r]
    BY <1>3 DEF FindItem, BagInv
  <2>2. /\ bag' = [bag EXCEPT ![p] = @ \cup {c}]
        /\ count' = [count EXCEPT ![c] = n]
        /\ n \in Int /\ n > 0
    BY <1>3, DealAssumption DEF FindItem
  <2>3. bag' \in [Player -> SUBSET Cell] /\ count' \in [Cell -> Int]
    BY <2>2 DEF BagInv
  <2>4. /\ bag'[p] = bag[p] \cup {c} /\ \A r \in Player \ {p} : bag'[r] = bag[r]
        /\ count'[c] = n /\ \A d \in Cell \ {c} : count'[d] = count[d]
    BY <2>2 DEF BagInv
  <2>5. Disjoint(bag')
    BY <2>1, <2>4 DEF BagInv, Disjoint
  <2>6. \A r \in Player : \A d \in bag'[r] : count'[d] > 0
    BY <2>2, <2>3, <2>4 DEF BagInv
  <2> QED  BY <2>3, <2>5, <2>6 DEF BagInv, Disjoint
<1>4. ASSUME NEW p \in Player, NEW q \in Player, Reply(p, q)
      PROVE  BagInv'
  BY <1>1, <1>4 DEF Reply
<1>5. ASSUME NEW p \in Player, \/ \E i \in Pos : RemoveItem(p, i) \/ \E c \in Cell : AddItem(p, i, c)
                               \/ \E n \in 0 .. MaxMoney : ChangeCoin(p, n)
                               \/ Lock(p) \/ Cancel(p)
      PROVE  BagInv'
  BY <1>1, <1>5 DEF RemoveItem, AddItem, ChangeCoin, Lock, Cancel
<1>6. ASSUME NEW p \in Player, Leave(p) \/ Return(p) \/ SpendMoney(p)
      PROVE  BagInv'
  BY <1>1, <1>6 DEF Leave, Return, SpendMoney
<1>7. CASE UNCHANGED vars
  BY <1>1, <1>7 DEF vars
<1> QED
  BY <1>2, <1>3, <1>4, <1>5, <1>6, <1>7, ConfirmBagInv DEF Next

\* In every state, for all players, items, sizes of bags and tables: no item is in two
\* bags and none that was used up is in any, whatever the two sides of a deal do and
\* whatever happens to the items on the table meanwhile (CompleteDeal removes first and
\* adds only what it removed).
THEOREM NothingIsDoubled == Spec => []NoItemDoubled
<1>1. BagInv => NoItemDoubled
  BY DEF BagInv, NoItemDoubled, Disjoint
<1> QED  BY InitInv, NextInv, InitBagInv, NextBagInv, <1>1, PTL DEF Spec

-----------------------------------------------------------------------------
(* Types and bounds *)

LEMMA PosFinite == IsFiniteSet(Pos) /\ Pos \subseteq Nat
<1>1. 1 \in Int /\ MaxDealItemCount \in Int
  BY DealAssumption
<1> QED  BY <1>1, FS_Interval DEF Pos

\* A set of positions that is not empty has a first one.
LEMMA FirstPosition ==
  ASSUME NEW S \in SUBSET Pos, S # {}
  PROVE  \E x \in S : \A y \in S : x <= y
<1> DEFINE upTo(x) == {y \in S : y <= x}
           T == {upTo(x) : x \in S}
<1>1. IsFiniteSet(S) /\ S \subseteq Nat
  BY PosFinite, FS_Subset
<1>2. IsWellFoundedOn(StrictSubsetOrdering(S), FiniteSubsetsOf(S))
  BY FS_StrictSubsetOrderingWellFounded
<1>3. T \subseteq FiniteSubsetsOf(S)
  <2> SUFFICES ASSUME NEW x \in S PROVE upTo(x) \in FiniteSubsetsOf(S)
    OBVIOUS
  <2> QED  BY <1>1, FS_Subset DEF FiniteSubsetsOf
<1>4. PICK U \in T : \A V \in T : ~ (<<V, U>> \in StrictSubsetOrdering(S))
  <2>1. T # {}
    OBVIOUS
  <2> HIDE DEF T
  <2>2. \E U \in T : \A V \in T : ~ (<<V, U>> \in StrictSubsetOrdering(S))
    BY <1>2, <1>3, <2>1, WFMin
  <2> QED  BY <2>2
<1>5. PICK x \in S : U = upTo(x)
  OBVIOUS
<1>6. \A y \in S : x <= y
  <2> SUFFICES ASSUME NEW y \in S, y < x PROVE FALSE
    BY <1>1
  <2>1. upTo(y) \in T /\ upTo(y) \in SUBSET S /\ upTo(x) \in SUBSET S
    OBVIOUS
  <2>2. upTo(y) \subseteq upTo(x) /\ x \in upTo(x) /\ x \notin upTo(y)
    <3>1. x \in Int /\ y \in Int /\ ~ (x <= y) /\ x <= x
      BY <1>1
    <3>2. \A z \in S : z <= y => z <= x
      BY <1>1, <3>1
    <3> QED  BY <3>1, <3>2
  <2>3. <<upTo(y), upTo(x)>> \in StrictSubsetOrdering(S)
    <3> HIDE DEF upTo
    <3> QED  BY <2>1, <2>2 DEF StrictSubsetOrdering
  <2> QED  BY <1>4, <1>5, <2>1, <2>3
<1> QED  BY <1>6

Added(given, k) == {i \in given : Cardinality({j \in given : j > i}) < k}

\* What is added to a bag, from the last position to the first, are no more items than
\* there are cells left.
LEMMA AddedFits ==
  ASSUME NEW given \in SUBSET Pos, NEW k \in Int
  PROVE  /\ IsFiniteSet(Added(given, k))
         /\ Cardinality(Added(given, k)) <= IF k > 0 THEN k ELSE 0
<1> DEFINE after(i) == {j \in given : j > i}
           added == {i \in given : Cardinality(after(i)) < k}
<1> SUFFICES /\ IsFiniteSet(added)
             /\ Cardinality(added) <= IF k > 0 THEN k ELSE 0
  BY DEF Added
<1>1. IsFiniteSet(given) /\ Pos \subseteq Nat
  BY PosFinite, FS_Subset
<1>2. IsFiniteSet(added)
  BY <1>1, FS_Subset
<1>3. \A i \in given : IsFiniteSet(after(i)) /\ Cardinality(after(i)) \in Nat
  <2> SUFFICES ASSUME NEW i \in given PROVE IsFiniteSet(after(i)) /\ Cardinality(after(i)) \in Nat
    OBVIOUS
  <2>1. IsFiniteSet(after(i))
    BY <1>1, FS_Subset
  <2> QED  BY <2>1, FS_CardinalityType
<1>4. CASE added = {}
  <2> HIDE DEF added
  <2> QED  BY <1>4, FS_EmptySet
<1>5. CASE added # {}
  <2>1. PICK x \in added : \A y \in added : x <= y
    <3> HIDE DEF after
    <3>1. added \in SUBSET Pos
      OBVIOUS
    <3> HIDE DEF added
    <3> QED  BY <1>5, <3>1, FirstPosition
  <2>2. added \ {x} \subseteq after(x)
    <3> SUFFICES ASSUME NEW y \in added, y # x PROVE y \in after(x)
      OBVIOUS
    <3>1. x <= y /\ y \in given /\ x \in Nat /\ y \in Nat
      BY <1>1, <2>1
    <3> QED  BY <3>1
  <2>3. x \in given /\ Cardinality(after(x)) < k
    OBVIOUS
  <2>4. Cardinality(added \ {x}) = Cardinality(added) - 1
    <3> HIDE DEF added
    <3> QED  BY <1>2, <2>1, FS_RemoveElement
  <2>5. Cardinality(added \ {x}) <= Cardinality(after(x))
    <3>1. IsFiniteSet(after(x))
      BY <1>3, <2>3
    <3> HIDE DEF added, after
    <3> QED  BY <2>2, <3>1, FS_Subset
  <2>6. Cardinality(added) \in Nat /\ Cardinality(after(x)) \in Nat
    <3>1. Cardinality(after(x)) \in Nat
      BY <1>3, <2>3
    <3> HIDE DEF added
    <3> QED  BY <1>2, <3>1, FS_CardinalityType
  <2> HIDE DEF added, after
  <2> QED  BY <1>2, <2>3, <2>4, <2>5, <2>6
<1> QED  BY <1>2, <1>4, <1>5

\* The dues are no more than the coins they are taken from.
LEMMA DuesBound ==
  ASSUME NEW n \in Nat
  PROVE  Dues(n) \in 0 .. n
<1>1. DuesRate \in 0 .. 100
  BY DealAssumption
<1>2. DuesRate * n \in 0 .. 100 * n
  <2>1. (100 - DuesRate) * n >= 0 /\ DuesRate * n >= 0
    BY <1>1
  <2>2. (100 - DuesRate) * n = 100 * n - DuesRate * n
    BY <1>1
  <2> QED  BY <1>1, <2>1, <2>2
<1> DEFINE r == DuesRate * n
<1>3. r \in 0 .. 100 * n
  BY <1>2
<1> HIDE DEF r
<1>4. r \div 100 \in 0 .. n
  BY <1>3
<1> QED  BY <1>4 DEF Dues, r

\* Taking from q, p gets no more items than it has cells for.
LEMMA TakenBounds ==
  ASSUME NEW b \in [Player -> SUBSET Cell], NEW p \in Player, NEW q \in Player, p # q,
         \A r \in Player : Cardinality(b[r]) <= BagSize[r]
  PROVE  \A r \in Player : Cardinality(Taken(b, p, q)[r]) <= BagSize[r]
<1> DEFINE given == {i \in OnTable(q) : deal[q].items[i] \in b[q]}
           added == {i \in given : Cardinality({j \in given : j > i}) < Available(b, p)}
           It(i) == deal[q].items[i]
           Gone == {It(i) : i \in given}
           Come == {It(i) : i \in added}
           t == Taken(b, p, q)
<1>1. t = [b EXCEPT ![q] = @ \ Gone, ![p] = @ \cup Come]
  BY DEF Taken
<1>2. \A r \in Player : IsFiniteSet(b[r]) /\ Cardinality(b[r]) \in Nat /\ BagSize[r] \in Nat
  <2> TAKE r \in Player
  <2>1. IsFiniteSet(b[r])
    BY DealAssumption, FS_Subset
  <2> QED  BY <2>1, FS_CardinalityType, DealAssumption
<1>3. IsFiniteSet(Come) /\ Cardinality(Come) <= Available(b, p) /\ Cardinality(Come) \in Nat
  <2>1. Available(b, p) \in Nat
    BY <1>2 DEF Available
  <2>2. given \in SUBSET Pos
    BY DEF OnTable
  <2> DEFINE k == Available(b, p)
  <2>3. IsFiniteSet(added) /\ Cardinality(added) <= IF k > 0 THEN k ELSE 0
    <3>1. added = Added(given, k)
      BY DEF Added
    <3> HIDE DEF given, k, added
    <3> QED  BY <2>1, <2>2, <3>1, AddedFits DEF k
  <2>4. Cardinality(added) <= k /\ Cardinality(added) \in Nat
    <3>1. Cardinality(added) \in Nat
      <4> HIDE DEF added
      <4> QED  BY <2>3, FS_CardinalityType
    <3> HIDE DEF added
    <3> QED  BY <2>1, <2>3, <3>1
  <2> HIDE DEF added
  <2>5. IsFiniteSet(Come) /\ Cardinality(Come) <= Cardinality(added)
    <3> DEFINE f == [i \in added |-> It(i)]
    <3>1. f \in Surjection(added, Come)
      BY DEF Surjection
    <3> HIDE DEF f, Come
    <3> QED  BY <2>3, <3>1, FS_Surjection
  <2> HIDE DEF Come
  <2>6. Cardinality(Come) \in Nat
    BY <2>5, FS_CardinalityType
  <2> QED  BY <2>1, <2>4, <2>5, <2>6
<1> HIDE DEF Gone, Come
<1>4. t[q] = b[q] \ Gone /\ t[p] = b[p] \cup Come /\ \A r \in Player \ {p, q} : t[r] = b[r]
  BY <1>1
<1> HIDE DEF t
<1>5. Cardinality(t[q]) <= BagSize[q]
  <2>1. Cardinality(t[q]) <= Cardinality(b[q])
    BY <1>2, <1>4, FS_Subset
  <2>2. Cardinality(t[q]) \in Nat
    BY <1>2, <1>4, FS_Subset, FS_CardinalityType
  <2> QED  BY <1>2, <2>1, <2>2
<1>6. Cardinality(t[p]) <= BagSize[p]
  <2>1. Cardinality(t[p]) = Cardinality(b[p]) + Cardinality(Come) - Cardinality(b[p] \cap Come)
    BY <1>2, <1>3, <1>4, FS_Union
  <2>2. Cardinality(b[p] \cap Come) \in Nat
    BY <1>2, FS_Intersection, FS_CardinalityType
  <2> QED  BY <1>2, <1>3, <2>1, <2>2 DEF Available
<1> QED  BY <1>4, <1>5, <1>6 DEF t

\* The deal of a player as TypeOK has it, with the numbers within their bounds.
Bounded == [target : Player \cup {Nobody}, locked : BOOLEAN, confirmed : BOOLEAN,
            items : [Pos -> Cell \cup {NoCell}], counts : [Pos -> 0 .. MaxCount],
            itemCount : MinItemCount .. MaxDealItemCount, coin : 0 .. MaxMoney]

\* What lies on the table has pieces and lies there once; who confirmed was locked, as was
\* its partner: so neither offer changes between the two confirmations.
OfferOK(s) ==
  /\ \A i \in Pos : s.items[i] # NoCell => s.counts[i] > 0
  /\ \A i, j \in Pos : i # j /\ s.items[i] # NoCell => s.items[i] # s.items[j]
LocksHold ==
  \A p \in Player : deal[p].confirmed => deal[p].locked /\ deal[deal[p].target].locked
RecInv ==
  /\ TypeOK
  /\ \A p \in Player : OfferOK(deal[p])
  /\ LocksHold

LEMMA NoDealBounded ==
  NoDeal \in Bounded /\ OfferOK(NoDeal) /\ NoDeal.target = Nobody /\ ~ NoDeal.confirmed
<1>1. 0 \in 0 .. MaxCount /\ 0 \in MinItemCount .. MaxDealItemCount /\ 0 \in 0 .. MaxMoney
  BY DealAssumption
<1> QED  BY <1>1 DEF NoDeal, Bounded, OfferOK

LEMMA InitRecInv == Init => RecInv
<1>1. SUFFICES ASSUME Init PROVE RecInv
  OBVIOUS
<1>2. \A p \in Player : deal[p] = NoDeal
  BY <1>1 DEF Init
<1>3. deal \in [Player -> Bounded]
  BY <1>1, NoDealBounded DEF Init
<1>4. TypeOK
  BY <1>1, <1>3, DealAssumption DEF Init, TypeOK, Bounded
<1> QED  BY <1>2, <1>4, NoDealBounded DEF RecInv, LocksHold

\* A change of the own deal that keeps the partner, and keeps the two locks or confirms
\* only when both are set.
LEMMA OfferRecInv ==
  ASSUME IInv, RecInv, NEW p \in Player, IsDealing(p), NEW s \in Bounded, OfferOK(s),
         s.target = deal[p].target, deal[p].locked => s.locked,
         s.confirmed => s.locked /\ deal[s.target].locked,
         deal' = [deal EXCEPT ![p] = s]
  PROVE  deal' \in [Player -> Bounded] /\ (\A q \in Player : OfferOK(deal'[q])) /\ LocksHold'
<1>1. deal \in [Player -> Bounded]
  BY DEF RecInv, TypeOK, Bounded
<1>2. deal' \in [Player -> Bounded] /\ deal'[p] = s /\ \A q \in Player \ {p} : deal'[q] = deal[q]
  BY <1>1
<1>3. \A q \in Player : OfferOK(deal'[q])
  BY <1>2 DEF RecInv
<1>4. ASSUME NEW q \in Player, deal'[q].confirmed
      PROVE  deal'[q].locked /\ deal'[deal'[q].target].locked
  <2>1. CASE q = p
    <3>1. s.target \in Player /\ s.target # p
      BY Partner
    <3> QED  BY <1>2, <1>4, <2>1, <3>1
  <2>2. CASE q # p
    <3>1. deal'[q] = deal[q] /\ deal[q].locked /\ deal[deal[q].target].locked
      BY <1>2, <1>4, <2>2 DEF RecInv, LocksHold
    <3>2. IsDealing(q)
      BY <1>4, <3>1, NoDealBounded DEF IInv, PartnersAgree
    <3>3. deal[q].target \in Player
      BY <3>2, Partner
    <3> QED  BY <1>2, <3>1, <3>3
  <2> QED  BY <2>1, <2>2
<1> QED  BY <1>2, <1>3, <1>4 DEF LocksHold

\* Cancelling leaves no confirmation that counts on the locks it takes back.
LEMMA CancelledRecInv ==
  ASSUME IInv, RecInv, NEW p \in Player, IsDealing(p), deal' = Cancelled(p)
  PROVE  deal' \in [Player -> Bounded] /\ (\A q \in Player : OfferOK(deal'[q])) /\ LocksHold'
<1> DEFINE t == deal[p].target
<1>1. t \in Player /\ t # p /\ deal[t].target = p
  BY Partner
<1>2. deal \in [Player -> Bounded]
  BY DEF RecInv, TypeOK, Bounded
<1>3. /\ deal' \in [Player -> Bounded]
      /\ \A q \in Player : deal'[q] = IF q \in {p, t} THEN NoDeal ELSE deal[q]
  BY <1>2, NoDealBounded DEF Cancelled
<1>4. \A q \in Player : OfferOK(deal'[q])
  BY <1>3, NoDealBounded DEF RecInv
<1>5. ASSUME NEW q \in Player, deal'[q].confirmed
      PROVE  deal'[q].locked /\ deal'[deal'[q].target].locked
  <2>1. q \notin {p, t} /\ deal'[q] = deal[q]
    BY <1>3, <1>5, NoDealBounded
  <2>2. IsDealing(q)
    BY <1>5, <2>1, NoDealBounded DEF IInv, PartnersAgree
  <2>3. deal[q].target \in Player /\ deal[q].target # q /\ deal[deal[q].target].target = q
    BY <2>2, Partner
  <2>4. deal[q].target \notin {p, t}
    BY <1>1, <2>1, <2>3
  <2> QED  BY <1>3, <1>5, <2>1, <2>3, <2>4 DEF RecInv, LocksHold
<1> QED  BY <1>3, <1>4, <1>5 DEF LocksHold

\* The coins after the exchange, when both can pay and neither gets more than there is room
\* for: what is paid, what is received, less the dues.
LEMMA ReceivedExact ==
  ASSUME RecInv, NEW p \in Player, NEW q \in Player, p # q,
         Affordable(p), Affordable(q), RoomForMoney(p, q), RoomForMoney(q, p)
  PROVE  LET m == Received(Received(money, p, q), q, p)
             give == deal[p].coin
             get == deal[q].coin
         IN  /\ m \in [Player -> 0 .. MaxMoney]
             /\ m = [money EXCEPT ![p] = @ - give + get - Dues(get),
                                  ![q] = @ - get + give - Dues(give)]
<1> DEFINE give == deal[p].coin
           get == deal[q].coin
           m1 == Received(money, p, q)
           m2 == Received(m1, q, p)
           dg == Dues(get)
           dv == Dues(give)
<1>1. money \in [Player -> 0 .. MaxMoney] /\ give \in Nat /\ get \in Nat /\ MaxMoney \in Nat
  BY DealAssumption DEF RecInv, TypeOK
<1>2. money[p] >= give /\ money[q] >= get /\ money[p] + get <= MaxMoney /\ money[q] + give <= MaxMoney
  BY DEF Affordable, RoomForMoney
<1>3. dg \in 0 .. get /\ dv \in 0 .. give
  BY <1>1, DuesBound
<1>4. m1 = [money EXCEPT ![p] = @ + get - dg, ![q] = IF get > @ THEN @ ELSE @ - get]
  BY DEF Received
<1>5. m2 = [m1 EXCEPT ![q] = @ + give - dv, ![p] = IF give > @ THEN @ ELSE @ - give]
  BY DEF Received
<1> SUFFICES /\ m2 \in [Player -> 0 .. MaxMoney]
             /\ m2 = [money EXCEPT ![p] = @ - give + get - dg, ![q] = @ - get + give - dv]
  OBVIOUS
<1> HIDE DEF m1, m2, give, get, dg, dv
<1>6. money[p] \in 0 .. MaxMoney /\ money[q] \in 0 .. MaxMoney
  BY <1>1
<1>7. /\ DOMAIN m1 = Player
      /\ m1[p] = money[p] + get - dg /\ m1[q] = money[q] - get
      /\ \A r \in Player \ {p, q} : m1[r] = money[r]
  BY <1>1, <1>2, <1>4, <1>6
<1>8. ~ (give > m1[p])
  BY <1>1, <1>2, <1>3, <1>6, <1>7
<1>9. /\ DOMAIN m2 = Player
       /\ m2[p] = m1[p] - give /\ m2[q] = m1[q] + give - dv
       /\ \A r \in Player \ {p, q} : m2[r] = m1[r]
  BY <1>5, <1>7, <1>8
<1>10. m2[p] = money[p] - give + get - dg /\ m2[q] = money[q] - get + give - dv
  BY <1>1, <1>3, <1>6, <1>7, <1>9
<1>11. m2[p] \in 0 .. MaxMoney /\ m2[q] \in 0 .. MaxMoney
  BY <1>1, <1>2, <1>3, <1>6, <1>10
<1>12. m2 = [r \in Player |-> m2[r]]
  BY <1>5, <1>4, <1>1
<1>13. m2 \in [Player -> 0 .. MaxMoney]
  BY <1>1, <1>7, <1>9, <1>11, <1>12
<1> DEFINE m3 == [money EXCEPT ![p] = @ - give + get - dg, ![q] = @ - get + give - dv]
<1>14. m3 = [r \in Player |-> m3[r]] /\ \A r \in Player : m3[r] = m2[r]
  BY <1>1, <1>7, <1>9, <1>10
<1> QED  BY <1>12, <1>13, <1>14

\* The bags after the exchange hold no more than they can.
LEMMA ExchangeBounds ==
  ASSUME IInv, RecInv, BagInv, NEW p \in Player, NEW q \in Player, p # q
  PROVE  LET b == Taken(Taken(bag, p, q), q, p)
         IN  b \in [Player -> SUBSET Cell] /\ \A r \in Player : Cardinality(b[r]) <= BagSize[r]
<1> DEFINE m == Taken(bag, p, q)
<1>1. m \in [Player -> SUBSET Cell] /\ Disjoint(m)
  BY TakenDisjoint DEF BagInv
<1>2. \A r \in Player : Cardinality(m[r]) <= BagSize[r]
  <2>1. bag \in [Player -> SUBSET Cell] /\ \A r \in Player : Cardinality(bag[r]) <= BagSize[r]
    BY DEF RecInv, TypeOK
  <2> QED  BY <2>1, TakenBounds
<1> HIDE DEF m
<1>3. Taken(m, q, p) \in [Player -> SUBSET Cell]
  BY <1>1, TakenDisjoint
<1>4. \A r \in Player : Cardinality(Taken(m, q, p)[r]) <= BagSize[r]
  BY <1>1, <1>2, TakenBounds
<1> QED  BY <1>3, <1>4 DEF m

\* The two outcomes of the second confirmation.
Complete(p, q) ==
  \A x \in {<<p, q>>, <<q, p>>} :
    /\ Affordable(x[1])
    /\ ValidateDealItems(x[1])
    /\ RoomForMoney(x[1], x[2])
    /\ SameCounts(x[1])
    /\ CanAddItems(x[1], x[2])

LEMMA ConfirmCases ==
  ASSUME IInv, NEW p \in Player, Confirm(p)
  PROVE  LET q == deal[p].target
         IN  /\ IsDealing(p) /\ q \in Player /\ q # p /\ deal[q].target = p
             /\ deal[p].locked /\ deal[q].locked
             /\ UNCHANGED <<online, count>>
             /\ \/ /\ ~ deal[q].confirmed
                   /\ deal' = [deal EXCEPT ![p] = [deal[p] EXCEPT !.confirmed = TRUE]]
                   /\ UNCHANGED <<bag, money>>
                \/ /\ deal[q].confirmed
                   /\ deal' = Cancelled(p)
                   /\ \/ UNCHANGED <<bag, money>>
                      \/ /\ Complete(p, q)
                         /\ money' = Received(Received(money, p, q), q, p)
                         /\ bag' = Taken(Taken(bag, p, q), q, p)
<1> DEFINE q == deal[p].target
<1>1. IsDealing(p) /\ q \in Player /\ q # p /\ deal[q].target = p
  BY Partner DEF Confirm
<1>2. deal[p].locked /\ deal[q].locked /\ UNCHANGED <<online, count>>
  BY DEF Confirm
<1>3. CASE ~ deal[q].confirmed
  <2>1. deal' = [deal EXCEPT ![p] = [deal[p] EXCEPT !.confirmed = TRUE]] /\ UNCHANGED <<bag, money>>
    BY <1>3 DEF Confirm, IInv, Typed
  <2> QED  BY <1>1, <1>2, <1>3, <2>1
<1>4. CASE deal[q].confirmed
  <2>1. deal' = Cancelled(p)
    BY <1>4 DEF Confirm
  <2>2. CASE Complete(p, q)
    <3>1. money' = Received(Received(money, p, q), q, p) /\ bag' = Taken(Taken(bag, p, q), q, p)
      BY <1>4, <2>2 DEF Confirm, Complete
    <3> QED  BY <1>1, <1>2, <1>4, <2>1, <2>2, <3>1
  <2>3. CASE ~ Complete(p, q)
    <3>1. UNCHANGED <<bag, money>>
      BY <1>4, <2>3 DEF Confirm, Complete
    <3> QED  BY <1>1, <1>2, <1>4, <2>1, <3>1
  <2> QED  BY <2>2, <2>3
<1> QED  BY <1>3, <1>4

LEMMA NextRecInv == IInv /\ BagInv /\ RecInv /\ [Next]_vars => RecInv'
<1> SUFFICES ASSUME IInv, BagInv, RecInv, [Next]_vars PROVE RecInv'
  OBVIOUS
<1> DEFINE DealPart == deal' \in [Player -> Bounded] /\ (\A q \in Player : OfferOK(deal'[q])) /\ LocksHold'
           Rest == /\ online' \subseteq Player
                   /\ bag' \in [Player -> SUBSET Cell]
                   /\ \A p \in Player : Cardinality(bag'[p]) <= BagSize[p]
                   /\ count' \in [Cell -> 0 .. MaxCount]
                   /\ money' \in [Player -> 0 .. MaxMoney]
<1>1. ASSUME DealPart, Rest PROVE RecInv'
  BY <1>1 DEF RecInv, TypeOK, Bounded
<1>2. ASSUME UNCHANGED deal PROVE DealPart
  BY <1>2 DEF RecInv, TypeOK, Bounded, LocksHold
<1>3. ASSUME UNCHANGED <<online, bag, count, money>> PROVE Rest
  BY <1>3 DEF RecInv, TypeOK
<1>4. deal \in [Player -> Bounded]
  BY DEF RecInv, TypeOK, Bounded
<1>5. \A p \in Player : IsFiniteSet(bag[p]) /\ Cardinality(bag[p]) \in Nat /\ BagSize[p] \in Nat
  <2> TAKE p \in Player
  <2>1. IsFiniteSet(bag[p])
    BY DealAssumption, FS_Subset DEF RecInv, TypeOK
  <2> QED  BY <2>1, FS_CardinalityType, DealAssumption
<1> HIDE DEF DealPart, Rest
<1>6. ASSUME NEW p \in Player, NEW q \in Player, Reply(p, q)
      PROVE  RecInv'
  <2> DEFINE sp == [NoDeal EXCEPT !.target = q]
             sq == [NoDeal EXCEPT !.target = p]
  <2>1. /\ sp \in Bounded /\ OfferOK(sp) /\ ~ sp.confirmed
        /\ sq \in Bounded /\ OfferOK(sq) /\ ~ sq.confirmed
    BY NoDealBounded DEF Bounded, OfferOK
  <2>2. deal' = [deal EXCEPT ![p] = sp, ![q] = sq] /\ ~ IsDealing(p) /\ ~ IsDealing(q)
        /\ UNCHANGED <<online, bag, count, money>>
    BY <1>6 DEF Reply
  <2> HIDE DEF sp, sq
  <2>3. deal' \in [Player -> Bounded] /\ deal'[q] = sq /\ (p = q \/ deal'[p] = sp)
        /\ \A r \in Player \ {p, q} : deal'[r] = deal[r]
    BY <1>4, <2>1, <2>2
  <2>4. \A r \in Player : OfferOK(deal'[r])
    BY <2>1, <2>3 DEF RecInv
  <2>5. ASSUME NEW r \in Player, deal'[r].confirmed
        PROVE  deal'[r].locked /\ deal'[deal'[r].target].locked
    <3>1. r \notin {p, q} /\ deal'[r] = deal[r]
      BY <2>1, <2>3, <2>5
    <3>2. IsDealing(r)
      BY <2>5, <3>1, NoDealBounded DEF IInv, PartnersAgree
    <3>3. deal[r].target \in Player /\ deal[deal[r].target].target = r
      BY <3>2, Partner
    <3>4. deal[r].target \notin {p, q}
      BY <2>2, <3>3, DealAssumption DEF IsDealing
    <3> QED  BY <2>3, <2>5, <3>1, <3>3, <3>4 DEF RecInv, LocksHold
  <2>6. DealPart
    BY <2>3, <2>4, <2>5 DEF DealPart, LocksHold
  <2> QED  BY <1>1, <1>3, <2>2, <2>6
<1>7. ASSUME NEW p \in Player, NEW i \in Pos, NEW c \in Cell, AddItem(p, i, c)
      PROVE  RecInv'
  <2> DEFINE s == [deal[p] EXCEPT !.items[i] = c, !.counts[i] = count[c],
                     !.itemCount = @ + (IF deal[p].items[i] = NoCell THEN 1 ELSE 0)]
  <2>1. deal[p] \in Bounded /\ count[c] \in 0 .. MaxCount /\ count[c] > 0 /\ ~ deal[p].locked
        /\ ~ deal[p].confirmed /\ deal[p].itemCount < MaxDealItemCount
        /\ OfferOK(deal[p]) /\ \A j \in Pos : deal[p].items[j] # c
    BY <1>4, <1>7 DEF RecInv, TypeOK, LocksHold, BagInv, AddItem
  <2>2. s \in Bounded
    <3>1. [deal[p].items EXCEPT ![i] = c] \in [Pos -> Cell \cup {NoCell}]
      BY <2>1 DEF Bounded
    <3>2. [deal[p].counts EXCEPT ![i] = count[c]] \in [Pos -> 0 .. MaxCount]
      BY <2>1 DEF Bounded
    <3>3. deal[p].itemCount + (IF deal[p].items[i] = NoCell THEN 1 ELSE 0)
             \in MinItemCount .. MaxDealItemCount
      BY <2>1, DealAssumption DEF Bounded
    <3> QED  BY <2>1, <3>1, <3>2, <3>3 DEF Bounded
  <2>3. OfferOK(s)
    <3>1. s.items = [deal[p].items EXCEPT ![i] = c] /\ s.counts = [deal[p].counts EXCEPT ![i] = count[c]]
      BY <2>1 DEF Bounded
    <3>2. /\ s.items[i] = c /\ \A j \in Pos \ {i} : s.items[j] = deal[p].items[j]
          /\ s.counts[i] = count[c] /\ \A j \in Pos \ {i} : s.counts[j] = deal[p].counts[j]
      BY <2>1, <3>1 DEF Bounded
    <3> HIDE DEF s
    <3> QED  BY <2>1, <3>2 DEF OfferOK
  <2>4. s.target = deal[p].target /\ (deal[p].locked => s.locked)
        /\ (s.confirmed => s.locked /\ deal[s.target].locked)
    BY <2>1
  <2>5. deal' = [deal EXCEPT ![p] = s] /\ IsDealing(p) /\ UNCHANGED <<online, bag, count, money>>
    BY <1>7, <1>4 DEF AddItem
  <2> HIDE DEF s
  <2> QED  BY <1>1, <1>3, <2>2, <2>3, <2>4, <2>5, OfferRecInv DEF DealPart
<1>8. ASSUME NEW p \in Player, NEW i \in Pos, RemoveItem(p, i)
      PROVE  RecInv'
  <2> DEFINE s == [deal[p] EXCEPT !.items[i] = NoCell, !.counts[i] = 0, !.itemCount = @ - 1]
  <2>1. deal[p] \in Bounded /\ ~ deal[p].locked /\ ~ deal[p].confirmed
        /\ deal[p].itemCount > MinItemCount
    BY <1>4, <1>8 DEF RecInv, LocksHold, RemoveItem
  <2>2. s \in Bounded
    <3>1. [deal[p].items EXCEPT ![i] = NoCell] \in [Pos -> Cell \cup {NoCell}]
      BY <2>1 DEF Bounded
    <3>2. [deal[p].counts EXCEPT ![i] = 0] \in [Pos -> 0 .. MaxCount]
      BY <2>1, DealAssumption DEF Bounded
    <3>3. deal[p].itemCount - 1 \in MinItemCount .. MaxDealItemCount
      BY <2>1, DealAssumption DEF Bounded
    <3> QED  BY <2>1, <3>1, <3>2, <3>3 DEF Bounded
  <2>3. OfferOK(s)
    BY <2>1 DEF OfferOK, RecInv, Bounded
  <2>4. s.target = deal[p].target /\ (deal[p].locked => s.locked)
        /\ (s.confirmed => s.locked /\ deal[s.target].locked)
    BY <2>1
  <2>5. deal' = [deal EXCEPT ![p] = s] /\ IsDealing(p) /\ UNCHANGED <<online, bag, count, money>>
    BY <1>8, <1>4 DEF RemoveItem
  <2> HIDE DEF s
  <2> QED  BY <1>1, <1>3, <2>2, <2>3, <2>4, <2>5, OfferRecInv DEF DealPart
<1>9. ASSUME NEW p \in Player, NEW n \in 0 .. MaxMoney, ChangeCoin(p, n)
      PROVE  RecInv'
  <2> DEFINE s == [deal[p] EXCEPT !.coin = n]
  <2>1. deal[p] \in Bounded /\ ~ deal[p].locked /\ ~ deal[p].confirmed
    BY <1>4, <1>9 DEF RecInv, LocksHold, ChangeCoin
  <2>2. s \in Bounded /\ OfferOK(s)
    BY <2>1 DEF Bounded, OfferOK, RecInv
  <2>3. s.target = deal[p].target /\ (deal[p].locked => s.locked)
        /\ (s.confirmed => s.locked /\ deal[s.target].locked)
    BY <2>1
  <2>4. deal' = [deal EXCEPT ![p] = s] /\ IsDealing(p) /\ UNCHANGED <<online, bag, count, money>>
    BY <1>9, <1>4 DEF ChangeCoin
  <2> HIDE DEF s
  <2> QED  BY <1>1, <1>3, <2>2, <2>3, <2>4, OfferRecInv DEF DealPart
<1>10. ASSUME NEW p \in Player, Lock(p)
       PROVE  RecInv'
  <2> DEFINE s == [deal[p] EXCEPT !.locked = TRUE]
  <2>1. deal[p] \in Bounded
    BY <1>4
  <2>2. s \in Bounded /\ OfferOK(s)
    BY <2>1 DEF Bounded, OfferOK, RecInv
  <2>3. s.target = deal[p].target /\ s.locked
        /\ (s.confirmed => s.locked /\ deal[s.target].locked)
    BY <2>1 DEF RecInv, LocksHold, Bounded
  <2>4. deal' = [deal EXCEPT ![p] = s] /\ IsDealing(p) /\ UNCHANGED <<online, bag, count, money>>
    BY <1>10, <1>4 DEF Lock
  <2> HIDE DEF s
  <2> QED  BY <1>1, <1>3, <2>2, <2>3, <2>4, OfferRecInv DEF DealPart
<1>11. ASSUME NEW p \in Player, Cancel(p)
       PROVE  RecInv'
  BY <1>11, <1>1, <1>3, CancelledRecInv DEF Cancel, DealPart
<1>12. ASSUME NEW p \in Player, Confirm(p)
       PROVE  RecInv'
  <2> DEFINE q == deal[p].target
  <2>1. IsDealing(p) /\ q \in Player /\ q # p /\ deal[p].locked /\ deal[q].locked
        /\ UNCHANGED <<online, count>>
    BY <1>12, ConfirmCases
  <2>2. DealPart
    <3>1. CASE deal' = Cancelled(p)
      BY <2>1, <3>1, CancelledRecInv DEF DealPart
    <3>2. CASE deal' = [deal EXCEPT ![p] = [deal[p] EXCEPT !.confirmed = TRUE]]
      <4> DEFINE s == [deal[p] EXCEPT !.confirmed = TRUE]
      <4>1. deal[p] \in Bounded
        BY <1>4
      <4>2. s \in Bounded /\ OfferOK(s)
        BY <4>1 DEF Bounded, OfferOK, RecInv
      <4>3. s.target = q /\ s.locked /\ deal[s.target].locked
        BY <2>1, <4>1 DEF Bounded
      <4>4. deal' = [deal EXCEPT ![p] = s]
        BY <3>2
      <4> HIDE DEF s
      <4> QED  BY <2>1, <4>2, <4>3, <4>4, OfferRecInv DEF DealPart
    <3> QED  BY <1>12, <3>1, <3>2, ConfirmCases
  <2>3. Rest
    <3>1. CASE UNCHANGED <<bag, money>>
      BY <1>3, <2>1, <3>1
    <3>2. CASE /\ Complete(p, q)
               /\ money' = Received(Received(money, p, q), q, p)
               /\ bag' = Taken(Taken(bag, p, q), q, p)
      <4>1. bag' \in [Player -> SUBSET Cell] /\ \A r \in Player : Cardinality(bag'[r]) <= BagSize[r]
        BY <2>1, <3>2, ExchangeBounds
      <4>2. Affordable(p) /\ Affordable(q) /\ RoomForMoney(p, q) /\ RoomForMoney(q, p)
        BY <3>2 DEF Complete
      <4>3. money' \in [Player -> 0 .. MaxMoney]
        BY <2>1, <3>2, <4>2, ReceivedExact
      <4> QED  BY <2>1, <4>1, <4>3 DEF Rest, RecInv, TypeOK
    <3> QED  BY <1>12, <3>1, <3>2, ConfirmCases
  <2> QED  BY <1>1, <2>2, <2>3
<1>13. ASSUME NEW p \in Player, Leave(p)
       PROVE  RecInv'
  <2>1. Rest
    BY <1>13 DEF Leave, Rest, RecInv, TypeOK
  <2>2. CASE IsDealing(p)
    <3>1. deal' = Cancelled(p)
      BY <1>13, <2>2 DEF Leave
    <3> QED  BY <1>1, <2>1, <2>2, <3>1, CancelledRecInv DEF DealPart
  <2>3. CASE ~ IsDealing(p)
    <3>1. deal' = deal
      BY <1>13, <2>3 DEF Leave
    <3> QED  BY <1>1, <1>2, <2>1, <3>1
  <2> QED  BY <2>2, <2>3
<1>14. ASSUME NEW p \in Player, Return(p)
       PROVE  RecInv'
  <2>1. Rest /\ deal' = deal
    BY <1>14 DEF Return, Rest, RecInv, TypeOK
  <2> QED  BY <1>1, <1>2, <2>1
<1>15. ASSUME NEW p \in Player, SpendMoney(p)
       PROVE  RecInv'
  <2>1. money' \in [Player -> 0 .. MaxMoney]
    <3>1. money \in [Player -> 0 .. MaxMoney] /\ money[p] - 1 \in 0 .. MaxMoney
          /\ money' = [money EXCEPT ![p] = @ - 1]
      BY <1>15, DealAssumption DEF SpendMoney, RecInv, TypeOK
    <3> QED  BY <3>1
  <2>2. Rest /\ deal' = deal
    BY <1>15, <2>1 DEF SpendMoney, Rest, RecInv, TypeOK
  <2> QED  BY <1>1, <1>2, <2>2
<1>16. ASSUME NEW p \in Player, NEW c \in Cell, UseItem(p, c)
       PROVE  RecInv'
  <2>1. count' \in [Cell -> 0 .. MaxCount]
    <3>1. count \in [Cell -> 0 .. MaxCount] /\ count[c] > 0 /\ count' = [count EXCEPT ![c] = @ - 1]
      BY <1>16 DEF UseItem, RecInv, TypeOK, BagInv
    <3>2. count[c] - 1 \in 0 .. MaxCount
      BY <3>1, DealAssumption
    <3> QED  BY <3>1, <3>2
  <2>2. bag' \in [Player -> SUBSET Cell] /\ \A r \in Player : bag'[r] \subseteq bag[r]
    BY <1>16 DEF UseItem, RecInv, TypeOK
  <2>3. \A r \in Player : Cardinality(bag'[r]) <= BagSize[r]
    <3> TAKE r \in Player
    <3>1. bag'[r] \in SUBSET bag[r] /\ IsFiniteSet(bag[r])
      BY <1>5, <2>2
    <3>2. Cardinality(bag'[r]) <= Cardinality(bag[r]) /\ IsFiniteSet(bag'[r])
      BY <3>1, FS_Subset
    <3>3. Cardinality(bag'[r]) \in Nat /\ Cardinality(bag[r]) <= BagSize[r]
      BY <3>2, FS_CardinalityType DEF RecInv, TypeOK
    <3> QED  BY <1>5, <3>2, <3>3
  <2>4. Rest /\ deal' = deal
    BY <1>16, <2>1, <2>2, <2>3 DEF UseItem, Rest, RecInv, TypeOK
  <2> QED  BY <1>1, <1>2, <2>4
<1>17. ASSUME NEW p \in Player, NEW c \in Cell, NEW n \in 1 .. MaxCount, FindItem(p, c, n)
       PROVE  RecInv'
  <2>1. count' \in [Cell -> 0 .. MaxCount] /\ bag' = [bag EXCEPT ![p] = @ \cup {c}]
        /\ bag \in [Player -> SUBSET Cell] /\ Cardinality(bag[p]) < BagSize[p]
    <3>1. n \in 0 .. MaxCount /\ BagSize[p] \in Nat
      BY DealAssumption
    <3> QED  BY <1>5, <1>17, <3>1 DEF FindItem, RecInv, TypeOK, Available
  <2>2. Cardinality(bag[p] \cup {c}) <= Cardinality(bag[p]) + 1
    <3>1. IsFiniteSet(bag[p]) /\ Cardinality(bag[p]) \in Int
      BY <1>5
    <3>2. Cardinality(bag[p] \cup {c}) = IF c \in bag[p] THEN Cardinality(bag[p]) ELSE Cardinality(bag[p]) + 1
      BY <3>1, FS_AddElement
    <3> QED  BY <3>1, <3>2
  <2>3. Cardinality(bag[p] \cup {c}) <= BagSize[p]
    <3>1. Cardinality(bag[p] \cup {c}) \in Nat
      BY <1>5, FS_AddElement, FS_CardinalityType
    <3> QED  BY <1>5, <2>1, <2>2, <3>1
  <2>4. \A r \in Player : Cardinality(bag'[r]) <= BagSize[r]
    BY <2>1, <2>3 DEF RecInv, TypeOK
  <2>5. Rest /\ deal' = deal
    <3>1. bag' \in [Player -> SUBSET Cell]
      BY <2>1
    <3>2. online' \subseteq Player /\ money' \in [Player -> 0 .. MaxMoney] /\ deal' = deal
      BY <1>17 DEF FindItem, RecInv, TypeOK
    <3> QED  BY <2>1, <2>4, <3>1, <3>2 DEF Rest
  <2> QED  BY <1>1, <1>2, <2>5
<1>18. CASE UNCHANGED vars
  BY <1>1, <1>2, <1>3, <1>18 DEF vars
<1> QED
  BY <1>6, <1>7, <1>8, <1>9, <1>10, <1>11, <1>12, <1>13, <1>14, <1>15, <1>16, <1>17, <1>18
  DEF Next

\* In every state, for all players, items, sizes of bags and tables: each variable has its
\* type, no bag holds more items than it has cells, whatever completes at the same time,
\* and nobody's coins are negative or more than an int holds (the checks of ClientConfimDeal).
THEOREM DealTyped == Spec => []TypeOK
<1>1. RecInv => TypeOK
  BY DEF RecInv
<1> QED  BY InitInv, NextInv, InitBagInv, NextBagInv, InitRecInv, NextRecInv, <1>1, PTL DEF Spec

-----------------------------------------------------------------------------
(* What is exchanged *)

GiveOf(p) == {deal[p].items[i] : i \in OnTable(p)}

\* What a bag does not take of the items of q is lost; when it has room for all, none is.
LEMMA TakenMost ==
  ASSUME RecInv, NEW b \in [Player -> SUBSET Cell], NEW p \in Player, NEW q \in Player, p # q,
         GiveOf(q) \subseteq b[q], b[p] \cap b[q] = {}
  PROVE  \E G \in SUBSET GiveOf(q) :
           /\ Taken(b, p, q) = [b EXCEPT ![q] = @ \ GiveOf(q), ![p] = @ \cup G]
           /\ Cardinality(b[p] \cup GiveOf(q)) <= BagSize[p] => G = GiveOf(q)
<1> DEFINE O == OnTable(q)
           It(i) == deal[q].items[i]
           after(i) == {j \in O : j > i}
           added == {i \in O : Cardinality(after(i)) < Available(b, p)}
           G == {It(i) : i \in added}
<1>1. {i \in O : It(i) \in b[q]} = O
  BY DEF GiveOf
<1>2. Taken(b, p, q) = [b EXCEPT ![q] = @ \ GiveOf(q), ![p] = @ \cup G]
  BY <1>1 DEF Taken, GiveOf
<1>3. G \in SUBSET GiveOf(q)
  BY DEF GiveOf
<1>4. ASSUME Cardinality(b[p] \cup GiveOf(q)) <= BagSize[p]
      PROVE  added = O
  <2>1. IsFiniteSet(O) /\ O \in SUBSET Pos /\ Pos \subseteq Nat
    <3>1. O \in SUBSET Pos
      BY DEF OnTable
    <3> HIDE DEF O
    <3> QED  BY <3>1, PosFinite, FS_Subset
  <2>2. IsFiniteSet(GiveOf(q)) /\ Cardinality(GiveOf(q)) = Cardinality(O) /\ Cardinality(O) \in Nat
    <3> DEFINE f == [i \in O |-> It(i)]
    <3>1. \A i, j \in O : It(i) = It(j) => i = j
      BY DEF RecInv, OfferOK, OnTable
    <3>2. /\ f \in [O -> GiveOf(q)]
          /\ \A x, y \in O : f[x] = f[y] => x = y
          /\ \A z \in GiveOf(q) : \E x \in O : f[x] = z
      BY <3>1 DEF GiveOf
    <3> HIDE DEF f, O
    <3>3. f \in Bijection(O, GiveOf(q))
      BY <3>2 DEF Bijection, Injection, Surjection, IsInjective
    <3>4. IsFiniteSet(GiveOf(q)) /\ Cardinality(GiveOf(q)) = Cardinality(O)
      <4>1. ExistsBijection(O, GiveOf(q))
        BY <3>3 DEF ExistsBijection
      <4> QED  BY <2>1, <4>1, FS_Bijection
    <3> QED  BY <2>1, <3>4, FS_CardinalityType
  <2>3. IsFiniteSet(b[p]) /\ Cardinality(b[p]) \in Nat /\ BagSize[p] \in Nat
    <3>1. IsFiniteSet(b[p])
      BY DealAssumption, FS_Subset
    <3> QED  BY <3>1, FS_CardinalityType, DealAssumption
  <2>4. Cardinality(b[p] \cup GiveOf(q)) = Cardinality(b[p]) + Cardinality(GiveOf(q))
    <3>1. b[p] \cap GiveOf(q) = {}
      OBVIOUS
    <3>2. Cardinality({}) = 0
      BY FS_EmptySet
    <3>3. Cardinality(b[p] \cup GiveOf(q))
            = Cardinality(b[p]) + Cardinality(GiveOf(q)) - Cardinality(b[p] \cap GiveOf(q))
      BY <2>2, <2>3, FS_Union
    <3> QED  BY <2>2, <2>3, <3>1, <3>2, <3>3
  <2>5. Cardinality(O) <= Available(b, p) /\ Available(b, p) \in Int
    BY <1>4, <2>2, <2>3, <2>4 DEF Available
  <2>6. ASSUME NEW i \in O PROVE Cardinality(after(i)) < Available(b, p)
    <3>1. after(i) \subseteq O \ {i}
      <4>1. O \subseteq Nat /\ i \in O
        BY <2>1, <2>6
      <4> HIDE DEF O
      <4>2. \A j \in O : j > i => j # i
        BY <4>1
      <4> QED  BY <4>2
    <3>2. IsFiniteSet(O \ {i}) /\ Cardinality(O \ {i}) = Cardinality(O) - 1
      <4> HIDE DEF O
      <4> QED  BY <2>1, FS_RemoveElement
    <3>3. Cardinality(after(i)) <= Cardinality(O) - 1 /\ Cardinality(after(i)) \in Nat
      <4> HIDE DEF after, O
      <4> QED  BY <3>1, <3>2, FS_Subset, FS_CardinalityType
    <3> QED  BY <2>2, <2>5, <3>3
  <2> QED  BY <2>6
<1>5. Cardinality(b[p] \cup GiveOf(q)) <= BagSize[p] => G = GiveOf(q)
  BY <1>4 DEF GiveOf
<1> HIDE DEF G
<1> QED  BY <1>2, <1>3, <1>5

\* The exchange gives each side all items of the other, but those its bag does not take.
LEMMA ExchangeExact ==
  ASSUME IInv, RecInv, BagInv, NEW p \in Player, NEW q \in Player, p # q,
         Complete(p, q)
  PROVE  /\ GiveOf(p) \subseteq bag[p] /\ GiveOf(q) \subseteq bag[q]
         /\ \E lost \in SUBSET (GiveOf(p) \cup GiveOf(q)) :
              /\ Cardinality(bag[p] \cup GiveOf(q)) <= BagSize[p] => lost \cap GiveOf(q) = {}
              /\ Cardinality(bag[q] \cup GiveOf(p)) <= BagSize[q] => lost \cap GiveOf(p) = {}
              /\ Taken(Taken(bag, p, q), q, p) =
                   [bag EXCEPT ![p] = (bag[p] \ GiveOf(p)) \cup (GiveOf(q) \ lost),
                               ![q] = (bag[q] \ GiveOf(q)) \cup (GiveOf(p) \ lost)]
<1> DEFINE m == Taken(bag, p, q)
           n == Taken(m, q, p)
<1>1. GiveOf(p) \subseteq bag[p] /\ GiveOf(q) \subseteq bag[q]
  BY DEF Complete, ValidateDealItems, InBag, GiveOf
<1>2. bag \in [Player -> SUBSET Cell] /\ bag[p] \cap bag[q] = {}
  BY DEF BagInv, Disjoint
<1>3. PICK G \in SUBSET GiveOf(q) :
        /\ m = [bag EXCEPT ![q] = @ \ GiveOf(q), ![p] = @ \cup G]
        /\ Cardinality(bag[p] \cup GiveOf(q)) <= BagSize[p] => G = GiveOf(q)
  BY <1>1, <1>2, TakenMost
<1> HIDE DEF m
<1>4. /\ m \in [Player -> SUBSET Cell]
      /\ m[q] = bag[q] \ GiveOf(q) /\ m[p] = bag[p] \cup G
      /\ \A r \in Player \ {p, q} : m[r] = bag[r]
  BY <1>1, <1>2, <1>3
<1>5. GiveOf(p) \subseteq m[p] /\ m[q] \cap m[p] = {}
  <2>1. G \cap m[q] = {}
    BY <1>4
  <2> QED  BY <1>1, <1>2, <1>4, <2>1
<1>6. PICK H \in SUBSET GiveOf(p) :
        /\ n = [m EXCEPT ![p] = @ \ GiveOf(p), ![q] = @ \cup H]
        /\ Cardinality(m[q] \cup GiveOf(p)) <= BagSize[q] => H = GiveOf(p)
  BY <1>4, <1>5, TakenMost
<1> HIDE DEF n
<1> DEFINE lost == (GiveOf(p) \ H) \cup (GiveOf(q) \ G)
           k == [bag EXCEPT ![p] = (bag[p] \ GiveOf(p)) \cup (GiveOf(q) \ lost),
                            ![q] = (bag[q] \ GiveOf(q)) \cup (GiveOf(p) \ lost)]
<1>7. GiveOf(q) \ lost = G /\ GiveOf(p) \ lost = H
  BY <1>1, <1>2
<1>8. Cardinality(bag[p] \cup GiveOf(q)) <= BagSize[p] => lost \cap GiveOf(q) = {}
  BY <1>1, <1>2, <1>3
<1>9. Cardinality(bag[q] \cup GiveOf(p)) <= BagSize[q] => lost \cap GiveOf(p) = {}
  <2> SUFFICES ASSUME Cardinality(bag[q] \cup GiveOf(p)) <= BagSize[q]
               PROVE  H = GiveOf(p)
    BY <1>1, <1>2
  <2>1. IsFiniteSet(bag[q] \cup GiveOf(p))
    <3>1. bag[q] \cup GiveOf(p) \in SUBSET Cell
      BY <1>1, <1>2
    <3> QED  BY <3>1, DealAssumption, FS_Subset
  <2>2. m[q] \cup GiveOf(p) \subseteq bag[q] \cup GiveOf(p)
    BY <1>4
  <2>3. /\ Cardinality(m[q] \cup GiveOf(p)) <= Cardinality(bag[q] \cup GiveOf(p))
        /\ Cardinality(m[q] \cup GiveOf(p)) \in Nat /\ Cardinality(bag[q] \cup GiveOf(p)) \in Nat
    BY <2>1, <2>2, FS_Subset, FS_CardinalityType
  <2>4. BagSize[q] \in Nat
    BY DealAssumption
  <2> QED  BY <1>6, <2>3, <2>4
<1>10. (bag[p] \cup G) \ GiveOf(p) = (bag[p] \ GiveOf(p)) \cup G
  BY <1>1, <1>2
<1>11. n = k
  <2> HIDE DEF lost
  <2>1. n = [r \in Player |-> n[r]] /\ k = [r \in Player |-> k[r]]
    BY <1>2, <1>3, <1>4, <1>6
  <2>2. \A r \in Player : n[r] = k[r]
    BY <1>2, <1>4, <1>6, <1>7, <1>10
  <2> QED  BY <2>1, <2>2
<1>12. lost \in SUBSET (GiveOf(p) \cup GiveOf(q))
  OBVIOUS
<1> HIDE DEF lost
<1> QED  BY <1>1, <1>8, <1>9, <1>11, <1>12 DEF n, m, k

-----------------------------------------------------------------------------
(* The deal implements barter *)

\* The offer in the deal s of a player, and the agreements in the deals d of all.
OfferOf(s) == [items |-> {<<s.items[i], s.counts[i]>> : i \in {j \in Pos : s.items[j] # NoCell}},
               coin |-> s.coin]
AgreedIn(d) == [p \in Player |->
                  IF d[p].confirmed
                  THEN [with |-> d[p].target, give |-> OfferOf(d[p]), get |-> OfferOf(d[d[p].target])]
                  ELSE [with |-> {}]]

LEMMA AgreedOf == Agreed = AgreedIn(deal) /\ Agreed' = AgreedIn(deal')
BY DEF Agreed, AgreedIn, Offer, OfferOf, OnTable

\* Agreements only change where a deal does: if the offers of all who confirmed and of
\* their partners are as before, so is what was agreed.
LEMMA AgreedSame ==
  ASSUME \A r \in Player :
           /\ deal'[r].confirmed = deal[r].confirmed
           /\ deal[r].confirmed =>
                /\ deal'[r].target = deal[r].target
                /\ OfferOf(deal'[r]) = OfferOf(deal[r])
                /\ OfferOf(deal'[deal[r].target]) = OfferOf(deal[deal[r].target])
  PROVE  Agreed' = Agreed
<1>1. AgreedIn(deal') = AgreedIn(deal)
  BY DEF AgreedIn
<1> QED  BY <1>1, AgreedOf

\* A side that is not locked has agreed to nothing, nor has its partner: its offer may change.
LEMMA OpenOffer ==
  ASSUME IInv, RecInv, NEW p \in Player, IsDealing(p), ~ deal[p].locked, NEW s,
         deal' = [deal EXCEPT ![p] = s], s.confirmed = deal[p].confirmed
  PROVE  Agreed' = Agreed
<1>1. \A r \in Player : deal'[r] = IF r = p THEN s ELSE deal[r]
  BY DEF IInv, Typed
<1>2. ~ deal[p].confirmed
  BY DEF RecInv, LocksHold
<1>3. ASSUME NEW r \in Player, deal[r].confirmed
      PROVE  r # p /\ deal[r].target # p /\ deal[r].target \in Player
  <2>1. IsDealing(r)
    BY <1>3, NoDealBounded DEF IInv, PartnersAgree
  <2> QED  BY <1>2, <1>3, <2>1, Partner DEF RecInv, LocksHold
<1>4. ASSUME NEW r \in Player
      PROVE  /\ deal'[r].confirmed = deal[r].confirmed
             /\ deal[r].confirmed => deal'[r] = deal[r] /\ deal'[deal[r].target] = deal[deal[r].target]
  BY <1>1, <1>3
<1> QED  BY <1>4, AgreedSame

\* Cancelling takes back what both sides agreed to, and nobody else's agreement.
LEMMA CancelledAgreed ==
  ASSUME IInv, RecInv, NEW p \in Player, IsDealing(p), deal' = Cancelled(p)
  PROVE  /\ Agreed' = [r \in Player |-> IF r \in {p, deal[p].target} THEN [with |-> {}] ELSE Agreed[r]]
         /\ Agreed' = [Agreed EXCEPT ![p] = [with |-> {}], ![deal[p].target] = [with |-> {}]]
<1> DEFINE t == deal[p].target
           A == [r \in Player |-> IF r \in {p, t} THEN [with |-> {}] ELSE Agreed[r]]
           B == [Agreed EXCEPT ![p] = [with |-> {}], ![t] = [with |-> {}]]
<1>1. t \in Player /\ t # p /\ deal[t].target = p
  BY Partner
<1>2. \A q \in Player : deal'[q] = IF q \in {p, t} THEN NoDeal ELSE deal[q]
  BY DEF Cancelled
<1>3. ASSUME NEW r \in Player, r \notin {p, t}
      PROVE  AgreedIn(deal')[r] = AgreedIn(deal)[r]
  <2>1. CASE ~ deal[r].confirmed
    BY <1>2, <1>3, <2>1 DEF AgreedIn
  <2>2. CASE deal[r].confirmed
    <3>1. IsDealing(r)
      BY <2>2, NoDealBounded DEF IInv, PartnersAgree
    <3>2. deal[r].target \in Player /\ deal[deal[r].target].target = r
      BY <3>1, Partner
    <3>3. deal[r].target \notin {p, t}
      BY <1>1, <1>3, <3>2
    <3>4. deal'[r] = deal[r] /\ deal'[deal[r].target] = deal[deal[r].target]
      BY <1>2, <1>3, <3>2, <3>3
    <3> QED  BY <2>2, <3>4 DEF AgreedIn
  <2> QED  BY <2>1, <2>2
<1>4. ASSUME NEW r \in Player, r \in {p, t}
      PROVE  AgreedIn(deal')[r] = [with |-> {}]
  BY <1>2, <1>4, NoDealBounded DEF AgreedIn
<1>5. Agreed' = A
  <2>1. AgreedIn(deal') = [r \in Player |-> AgreedIn(deal')[r]]
    BY DEF AgreedIn
  <2> QED  BY <1>3, <1>4, <2>1, AgreedOf
<1>6. A = B
  <2>1. B = [r \in Player |-> B[r]]
    BY DEF Agreed
  <2>2. Agreed = [r \in Player |-> Agreed[r]]
    BY DEF Agreed
  <2>3. \A r \in Player : B[r] = IF r \in {p, t} THEN [with |-> {}] ELSE Agreed[r]
    BY <1>1, <2>2
  <2> QED  BY <2>1, <2>3
<1> QED  BY <1>5, <1>6

\* What is offered is an offer: items with pieces, and coins.
LEMMA OfferTyped ==
  ASSUME RecInv, NEW p \in Player
  PROVE  Offer(p) \in Bartering!Offers
<1>1. deal[p] \in Bounded /\ OfferOK(deal[p])
  BY DEF RecInv, TypeOK, Bounded
<1>2. \A i \in OnTable(p) : deal[p].items[i] \in Cell /\ deal[p].counts[i] \in 1 .. MaxCount
  <2> TAKE i \in OnTable(p)
  <2>1. i \in Pos /\ deal[p].items[i] # NoCell
    BY DEF OnTable
  <2>2. deal[p].items[i] \in Cell /\ deal[p].counts[i] \in 0 .. MaxCount /\ deal[p].counts[i] > 0
    BY <1>1, <2>1 DEF Bounded, OfferOK
  <2> QED  BY <2>2
<1>3. deal[p].coin \in 0 .. MaxMoney
  BY <1>1 DEF Bounded
<1>4. {<<deal[p].items[i], deal[p].counts[i]>> : i \in OnTable(p)} \in SUBSET (Cell \X (1 .. MaxCount))
  BY <1>2
<1> QED  BY <1>3, <1>4 DEF Offer, Bartering!Offers

LEMMA ItemsOffered ==
  ASSUME NEW p \in Player
  PROVE  Bartering!ItemsOf(Offer(p)) = GiveOf(p)
<1> DEFINE it == deal[p].items
           ct == deal[p].counts
           O == OnTable(p)
           S == {<<it[i], ct[i]>> : i \in O}
<1>1. Offer(p).items = S
  BY DEF Offer
<1> HIDE DEF it, ct, O
<1>2. {x[1] : x \in S} = {it[i] : i \in O}
  <2>1. \A x \in S : \E i \in O : x[1] = it[i]
    OBVIOUS
  <2>2. \A i \in O : <<it[i], ct[i]>> \in S /\ <<it[i], ct[i]>>[1] = it[i]
    OBVIOUS
  <2> HIDE DEF S
  <2> DEFINE L == {x[1] : x \in S}
             R == {it[i] : i \in O}
  <2>3. \A e \in L : e \in R
    BY <2>1
  <2>4. \A e \in R : e \in L
    <3> SUFFICES ASSUME NEW i \in O PROVE it[i] \in L
      OBVIOUS
    <3> QED  BY <2>2
  <2> QED  BY <2>3, <2>4
<1> QED  BY <1>1, <1>2 DEF Bartering!ItemsOf, GiveOf, it, O

LEMMA InitBarter == Init => Bartering!Init
<1> SUFFICES ASSUME Init PROVE Bartering!Init
  OBVIOUS
<1>1. Agreed = [p \in Player |-> [with |-> {}]]
  BY NoDealBounded DEF Init, Agreed
<1>2. Bartering!TypeOK
  <2>1. /\ bag \in [Player -> SUBSET Cell] /\ count \in [Cell -> 0 .. MaxCount]
        /\ money \in [Player -> 0 .. MaxMoney]
    BY DealAssumption DEF Init
  <2> QED  BY <1>1, <2>1 DEF Bartering!TypeOK, Bartering!NoTerms
<1>3. /\ \A p, q \in Player : p # q => bag[p] \cap bag[q] = {}
      /\ \A c \in Cell : count[c] = 0 <=> \A p \in Player : c \notin bag[p]
  BY DealAssumption DEF Init
<1>4. Agreed = [p \in Player |-> Bartering!NoTerms]
  BY <1>1 DEF Bartering!NoTerms
<1> QED  BY ONLY <1>2, <1>3, <1>4 DEF Bartering!Init

\* The first confirmation agrees, to the own offer for that of the partner; repeating it
\* changes nothing.
LEMMA ConfirmAgrees ==
  ASSUME IInv, RecInv, NEW p \in Player, IsDealing(p), ~ deal[deal[p].target].confirmed,
         deal' = [deal EXCEPT ![p] = [deal[p] EXCEPT !.confirmed = TRUE]],
         UNCHANGED <<bag, count, money>>
  PROVE  Bartering!Agree(p) \/ UNCHANGED Bartering!vars
<1> DEFINE q == deal[p].target
           T == [with |-> q, give |-> Offer(p), get |-> Offer(q)]
<1>1. q \in Player /\ q # p /\ deal[q].target = p
  BY Partner
<1>2. deal \in [Player -> Systems]
  BY DEF IInv, Typed
<1>3. CASE deal[p].confirmed
  <2>1. deal' = deal
    BY <1>2, <1>3 DEF Systems
  <2>2. Agreed' = Agreed
    BY <2>1, AgreedOf
  <2> QED  BY <2>2 DEF Bartering!vars
<1>4. CASE ~ deal[p].confirmed
  <2>1. /\ deal'[p].confirmed /\ deal'[p].target = q /\ OfferOf(deal'[p]) = OfferOf(deal[p])
        /\ \A r \in Player \ {p} : deal'[r] = deal[r]
    BY <1>2 DEF Systems, OfferOf
  <2>2. AgreedIn(deal')[p] = [with |-> q, give |-> OfferOf(deal[p]), get |-> OfferOf(deal[q])]
    BY <1>1, <2>1 DEF AgreedIn
  <2>3. ASSUME NEW r \in Player, r # p
        PROVE  AgreedIn(deal')[r] = AgreedIn(deal)[r]
    <3>1. CASE ~ deal[r].confirmed
      BY <2>1, <2>3, <3>1 DEF AgreedIn
    <3>2. CASE deal[r].confirmed
      <4>1. IsDealing(r)
        BY <3>2, NoDealBounded DEF IInv, PartnersAgree
      <4>2. deal[r].target \in Player /\ deal[deal[r].target].target = r
        BY <4>1, Partner
      <4>3. deal[r].target # p
        BY <3>2, <4>2
      <4>4. deal'[r] = deal[r] /\ deal'[deal[r].target] = deal[deal[r].target]
        BY <2>1, <2>3, <4>2, <4>3
      <4> QED  BY <3>2, <4>4 DEF AgreedIn
    <3> QED  BY <3>1, <3>2
  <2>4. Agreed[p] = Bartering!NoTerms
    BY <1>4 DEF Agreed, Bartering!NoTerms
  <2>5. Agreed'[p] = T
    <3>1. Offer(p) = OfferOf(deal[p]) /\ Offer(q) = OfferOf(deal[q])
      BY DEF Offer, OfferOf, OnTable
    <3> QED  BY <2>2, <3>1, AgreedOf
  <2>6. T \in Bartering!Terms
    BY <1>1, OfferTyped DEF Bartering!Terms
  <2>7. Agreed' = [Agreed EXCEPT ![p] = Agreed'[p]]
    <3> DEFINE A == AgreedIn(deal)
               B == AgreedIn(deal')
    <3>1. A = [r \in Player |-> A[r]] /\ B = [r \in Player |-> B[r]]
      BY DEF AgreedIn
    <3> HIDE DEF A, B
    <3>2. B = [A EXCEPT ![p] = B[p]]
      BY <2>3, <3>1 DEF A, B
    <3> QED  BY <3>2, AgreedOf DEF A, B
  <2> QED  BY <2>4, <2>5, <2>6, <2>7 DEF Bartering!Agree
<1> QED  BY <1>3, <1>4

\* The second confirmation exchanges what the first one agreed to: since both sides are
\* locked, the offers are still what they were.
LEMMA ConfirmExchanges ==
  ASSUME IInv, RecInv, BagInv, NEW p \in Player, NEW q \in Player,
         q = deal[p].target, IsDealing(p), deal[q].confirmed, deal' = Cancelled(p),
         Complete(p, q), count' = count,
         money' = Received(Received(money, p, q), q, p),
         bag' = Taken(Taken(bag, p, q), q, p)
  PROVE  Bartering!Exchange(p, q)
<1>1. q # p /\ deal[q].target = p
  BY Partner
<1>2. Agreed[q] = [with |-> p, give |-> Offer(q), get |-> Offer(p)]
  BY <1>1 DEF Agreed
<1>3. Agreed[q] # Bartering!NoTerms /\ Agreed[q].with = p /\ Agreed[q].give = Offer(q)
      /\ Agreed[q].get = Offer(p)
  BY <1>2 DEF Bartering!NoTerms
<1>4. /\ GiveOf(p) \subseteq bag[p] /\ GiveOf(q) \subseteq bag[q]
      /\ \E lost \in SUBSET (GiveOf(p) \cup GiveOf(q)) :
           /\ Bartering!Fits(p, GiveOf(q)) => lost \cap GiveOf(q) = {}
           /\ Bartering!Fits(q, GiveOf(p)) => lost \cap GiveOf(p) = {}
           /\ bag' = [bag EXCEPT ![p] = (bag[p] \ GiveOf(p)) \cup (GiveOf(q) \ lost),
                                 ![q] = (bag[q] \ GiveOf(q)) \cup (GiveOf(p) \ lost)]
  <2>1. ASSUME NEW r \in Player, NEW S
        PROVE  Bartering!Fits(r, S) <=> Cardinality(bag[r] \cup S) <= BagSize[r]
    BY DEF Bartering!Fits, Bartering!Cardinality, Cardinality
  <2>2. \E lost \in SUBSET (GiveOf(p) \cup GiveOf(q)) :
          /\ Cardinality(bag[p] \cup GiveOf(q)) <= BagSize[p] => lost \cap GiveOf(q) = {}
          /\ Cardinality(bag[q] \cup GiveOf(p)) <= BagSize[q] => lost \cap GiveOf(p) = {}
          /\ bag' = [bag EXCEPT ![p] = (bag[p] \ GiveOf(p)) \cup (GiveOf(q) \ lost),
                                ![q] = (bag[q] \ GiveOf(q)) \cup (GiveOf(p) \ lost)]
    <3>1. PICK lost \in SUBSET (GiveOf(p) \cup GiveOf(q)) :
            /\ Cardinality(bag[p] \cup GiveOf(q)) <= BagSize[p] => lost \cap GiveOf(q) = {}
            /\ Cardinality(bag[q] \cup GiveOf(p)) <= BagSize[q] => lost \cap GiveOf(p) = {}
            /\ Taken(Taken(bag, p, q), q, p) =
                 [bag EXCEPT ![p] = (bag[p] \ GiveOf(p)) \cup (GiveOf(q) \ lost),
                             ![q] = (bag[q] \ GiveOf(q)) \cup (GiveOf(p) \ lost)]
      <4>1. p # q
        BY <1>1
      <4> QED  BY ONLY IInv, RecInv, BagInv, Complete(p, q), p \in Player, q \in Player, <4>1, ExchangeExact, Zenon
    <3> QED  BY <3>1
  <2>3. GiveOf(p) \subseteq bag[p] /\ GiveOf(q) \subseteq bag[q]
    BY <1>1, ExchangeExact
  <2> QED  BY <2>1, <2>2, <2>3
<1>5. Bartering!ItemsOf(Offer(p)) = GiveOf(p) /\ Bartering!ItemsOf(Offer(q)) = GiveOf(q)
  BY ItemsOffered
<1>6. \A x \in Offer(p).items \cup Offer(q).items : count[x[1]] = x[2]
  <2>1. SameCounts(p) /\ SameCounts(q)
    BY DEF Complete
  <2> QED  BY <2>1 DEF SameCounts, Offer
<1>7. Offer(p).coin = deal[p].coin /\ Offer(q).coin = deal[q].coin
  BY DEF Offer
<1>8. money' = [money EXCEPT ![p] = @ - deal[p].coin + deal[q].coin - Dues(deal[q].coin),
                             ![q] = @ - deal[q].coin + deal[p].coin - Dues(deal[p].coin)]
  <2>1. Affordable(p) /\ Affordable(q) /\ RoomForMoney(p, q) /\ RoomForMoney(q, p)
    BY DEF Complete
  <2> QED  BY <1>1, <2>1, ReceivedExact
<1>9. Agreed' = [Agreed EXCEPT ![p] = Bartering!NoTerms, ![q] = Bartering!NoTerms]
  BY CancelledAgreed DEF Bartering!NoTerms
<1> DEFINE give == Agreed[q].get
           get == Agreed[q].give
<1>10. Bartering!ItemsOf(give) = GiveOf(p) /\ Bartering!ItemsOf(get) = GiveOf(q)
  BY <1>3, <1>5
<1>11. /\ Bartering!ItemsOf(give) \subseteq bag[p] /\ Bartering!ItemsOf(get) \subseteq bag[q]
       /\ \E lost \in SUBSET (Bartering!ItemsOf(give) \cup Bartering!ItemsOf(get)) :
            /\ Bartering!Fits(p, Bartering!ItemsOf(get)) => lost \cap Bartering!ItemsOf(get) = {}
            /\ Bartering!Fits(q, Bartering!ItemsOf(give)) => lost \cap Bartering!ItemsOf(give) = {}
            /\ bag' = [bag EXCEPT ![p] = (bag[p] \ Bartering!ItemsOf(give))
                                             \cup (Bartering!ItemsOf(get) \ lost),
                                  ![q] = (bag[q] \ Bartering!ItemsOf(get))
                                             \cup (Bartering!ItemsOf(give) \ lost)]
  BY ONLY <1>4, <1>10
<1>12. \A x \in give.items \cup get.items : count[x[1]] = x[2]
  BY <1>3, <1>6
<1>13. money' = [money EXCEPT ![p] = @ - give.coin + get.coin - Dues(get.coin),
                              ![q] = @ - get.coin + give.coin - Dues(give.coin)]
  BY <1>3, <1>7, <1>8
<1> QED  BY ONLY <1>1, <1>3, <1>9, <1>11, <1>12, <1>13, count' = count DEF Bartering!Exchange

\* Giving up a deal withdraws from it.
LEMMA CancelWithdraws ==
  ASSUME IInv, RecInv, NEW p \in Player, IsDealing(p), deal' = Cancelled(p),
         UNCHANGED <<bag, count, money>>
  PROVE  Bartering!Withdraw
<1> DEFINE S == {p, deal[p].target}
<1>1. S \in SUBSET Player
  BY Partner
<1>2. Agreed' = [r \in Player |-> IF r \in S THEN Bartering!NoTerms ELSE Agreed[r]]
  BY CancelledAgreed DEF Bartering!NoTerms
<1> HIDE DEF S
<1> QED  BY <1>1, <1>2 DEF Bartering!Withdraw

LEMMA BarterStep ==
  IInv /\ RecInv /\ BagInv /\ [Next]_vars => [Bartering!Next]_(Bartering!vars)
<1> SUFFICES ASSUME IInv, RecInv, BagInv, [Next]_vars
             PROVE  Bartering!Next \/ UNCHANGED Bartering!vars
  BY DEF Bartering!vars
<1>1. ASSUME UNCHANGED <<deal, bag, count, money>>
      PROVE  UNCHANGED Bartering!vars
  <2>1. Agreed' = Agreed
    BY <1>1, AgreedOf
  <2> QED  BY <1>1, <2>1 DEF Bartering!vars
<1>2. ASSUME Agreed' = Agreed, UNCHANGED <<bag, count, money>>
      PROVE  UNCHANGED Bartering!vars
  BY <1>2 DEF Bartering!vars
<1>3. ASSUME NEW p \in Player, NEW q \in Player, Reply(p, q)
      PROVE  UNCHANGED Bartering!vars
  <2> DEFINE sp == [NoDeal EXCEPT !.target = q]
             sq == [NoDeal EXCEPT !.target = p]
  <2>1. ~ sp.confirmed /\ ~ sq.confirmed
    BY DEF NoDeal
  <2>2. deal' = [deal EXCEPT ![p] = sp, ![q] = sq] /\ ~ IsDealing(p) /\ ~ IsDealing(q) /\ p # q
    BY <1>3 DEF Reply
  <2>3. ~ deal[p].confirmed /\ ~ deal[q].confirmed
    BY <2>2, NoDealBounded DEF IInv, PartnersAgree
  <2> HIDE DEF sp, sq
  <2>4. deal'[p] = sp /\ deal'[q] = sq /\ \A r \in Player \ {p, q} : deal'[r] = deal[r]
    BY <2>2 DEF IInv, Typed
  <2>5. ASSUME NEW r \in Player
        PROVE  /\ deal'[r].confirmed = deal[r].confirmed
               /\ deal[r].confirmed => deal'[r] = deal[r] /\ deal'[deal[r].target] = deal[deal[r].target]
    <3>1. CASE r \in {p, q}
      <4>1. deal[r].confirmed = FALSE /\ deal'[r].confirmed = FALSE
        <5>1. deal[r] = NoDeal
          BY <2>2, <3>1 DEF IInv, PartnersAgree
        <5>2. deal'[r] = [NoDeal EXCEPT !.target = p] \/ deal'[r] = [NoDeal EXCEPT !.target = q]
          BY <2>4, <3>1 DEF sp, sq
        <5> QED  BY <5>1, <5>2 DEF NoDeal
      <4> QED  BY <4>1
    <3>2. CASE r \notin {p, q} /\ ~ deal[r].confirmed
      BY <2>4, <3>2
    <3>3. CASE r \notin {p, q} /\ deal[r].confirmed
      <4>1. IsDealing(r)
        BY <3>3, NoDealBounded DEF IInv, PartnersAgree
      <4>2. deal[r].target \in Player /\ deal[deal[r].target].target = r
        BY <4>1, Partner
      <4>3. deal[r].target \notin {p, q}
        BY <2>2, <4>2, DealAssumption DEF IsDealing
      <4> QED  BY <2>4, <3>3, <4>2, <4>3
    <3> QED  BY <3>1, <3>2, <3>3
  <2>6. Agreed' = Agreed
    BY <2>5, AgreedSame
  <2> QED  BY <1>2, <1>3, <2>6 DEF Reply
<1>4. ASSUME NEW p \in Player, NEW i \in Pos, NEW c \in Cell, AddItem(p, i, c)
      PROVE  UNCHANGED Bartering!vars
  <2> DEFINE s == [deal[p] EXCEPT !.items[i] = c, !.counts[i] = count[c],
                     !.itemCount = @ + (IF deal[p].items[i] = NoCell THEN 1 ELSE 0)]
  <2>1. deal[p] \in Systems
    BY DEF IInv, Typed
  <2>2. s.confirmed = deal[p].confirmed
    BY <2>1 DEF Systems
  <2>3. deal' = [deal EXCEPT ![p] = s]
    BY <1>4 DEF AddItem, IInv, Typed
  <2> HIDE DEF s
  <2>4. Agreed' = Agreed
    BY <1>4, <2>2, <2>3, OpenOffer DEF AddItem
  <2> QED  BY <1>2, <1>4, <2>4 DEF AddItem
<1>5. ASSUME NEW p \in Player, NEW i \in Pos, RemoveItem(p, i)
      PROVE  UNCHANGED Bartering!vars
  <2> DEFINE s == [deal[p] EXCEPT !.items[i] = NoCell, !.counts[i] = 0, !.itemCount = @ - 1]
  <2>1. deal[p] \in Systems
    BY DEF IInv, Typed
  <2>2. s.confirmed = deal[p].confirmed
    BY <2>1 DEF Systems
  <2>3. deal' = [deal EXCEPT ![p] = s]
    BY <1>5 DEF RemoveItem, IInv, Typed
  <2> HIDE DEF s
  <2>4. Agreed' = Agreed
    BY <1>5, <2>2, <2>3, OpenOffer DEF RemoveItem
  <2> QED  BY <1>2, <1>5, <2>4 DEF RemoveItem
<1>6. ASSUME NEW p \in Player, NEW n \in 0 .. MaxMoney, ChangeCoin(p, n)
      PROVE  UNCHANGED Bartering!vars
  <2> DEFINE s == [deal[p] EXCEPT !.coin = n]
  <2>1. deal[p] \in Systems
    BY DEF IInv, Typed
  <2>2. s.confirmed = deal[p].confirmed
    BY <2>1 DEF Systems
  <2>3. deal' = [deal EXCEPT ![p] = s]
    BY <1>6 DEF ChangeCoin, IInv, Typed
  <2> HIDE DEF s
  <2>4. Agreed' = Agreed
    BY <1>6, <2>2, <2>3, OpenOffer DEF ChangeCoin
  <2> QED  BY <1>2, <1>6, <2>4 DEF ChangeCoin
<1>7. ASSUME NEW p \in Player, Lock(p)
      PROVE  UNCHANGED Bartering!vars
  <2>1. /\ deal'[p].confirmed = deal[p].confirmed /\ deal'[p].target = deal[p].target
        /\ OfferOf(deal'[p]) = OfferOf(deal[p])
        /\ \A r \in Player \ {p} : deal'[r] = deal[r]
    <3>1. deal[p] \in Systems /\ deal \in [Player -> Systems]
      BY DEF IInv, Typed
    <3> QED  BY <1>7, <3>1 DEF Lock, Systems, OfferOf
  <2>2. ASSUME NEW r \in Player, deal[r].confirmed
        PROVE  deal[r].target \in Player
    <3>1. IsDealing(r)
      BY <2>2, NoDealBounded DEF IInv, PartnersAgree
    <3> QED  BY <3>1, Partner
  <2>3. \A r \in Player : /\ deal'[r].confirmed = deal[r].confirmed
                          /\ deal'[r].target = deal[r].target
                          /\ OfferOf(deal'[r]) = OfferOf(deal[r])
    BY <2>1
  <2>4. Agreed' = Agreed
    BY <2>2, <2>3, AgreedSame
  <2> QED  BY <1>2, <1>7, <2>4 DEF Lock
<1>8. ASSUME NEW p \in Player, Cancel(p)
      PROVE  Bartering!Next
  BY <1>8, CancelWithdraws DEF Cancel, Bartering!Next
<1>9. ASSUME NEW p \in Player, Confirm(p)
      PROVE  Bartering!Next \/ UNCHANGED Bartering!vars
  <2> DEFINE q == deal[p].target
  <2>1. IsDealing(p) /\ q \in Player /\ UNCHANGED count
    BY <1>9, ConfirmCases
  <2>2. CASE /\ ~ deal[q].confirmed
             /\ deal' = [deal EXCEPT ![p] = [deal[p] EXCEPT !.confirmed = TRUE]]
             /\ UNCHANGED <<bag, money>>
    BY <2>1, <2>2, ConfirmAgrees DEF Bartering!Next
  <2>3. CASE deal' = Cancelled(p) /\ UNCHANGED <<bag, money>>
    BY <2>1, <2>3, CancelWithdraws DEF Bartering!Next
  <2>4. CASE /\ deal[q].confirmed
             /\ deal' = Cancelled(p)
             /\ Complete(p, q)
             /\ money' = Received(Received(money, p, q), q, p)
             /\ bag' = Taken(Taken(bag, p, q), q, p)
    BY <2>1, <2>4, ConfirmExchanges DEF Bartering!Next
  <2> QED  BY <1>9, <2>2, <2>3, <2>4, ConfirmCases
<1>10. ASSUME NEW p \in Player, Leave(p)
       PROVE  Bartering!Next \/ UNCHANGED Bartering!vars
  <2>1. CASE IsDealing(p)
    BY <1>10, <2>1, CancelWithdraws DEF Leave, Bartering!Next
  <2>2. CASE ~ IsDealing(p)
    BY <1>1, <1>10, <2>2 DEF Leave
  <2> QED  BY <2>1, <2>2
<1>11. ASSUME NEW p \in Player, Return(p)
       PROVE  UNCHANGED Bartering!vars
  BY <1>1, <1>11 DEF Return
<1>12. ASSUME NEW p \in Player, SpendMoney(p)
       PROVE  Bartering!Next
  <2>1. Agreed' = Agreed
    BY <1>12, AgreedOf DEF SpendMoney
  <2>2. Bartering!Spend(p)
    BY <1>12, <2>1 DEF SpendMoney, Bartering!Spend
  <2> QED  BY <2>2 DEF Bartering!Next
<1>13. ASSUME NEW p \in Player, NEW c \in Cell, UseItem(p, c)
       PROVE  Bartering!Next
  <2>1. Agreed' = Agreed
    BY <1>13, AgreedOf DEF UseItem
  <2>2. Bartering!Use(p, c)
    BY <1>13, <2>1 DEF UseItem, Bartering!Use
  <2> QED  BY <2>2 DEF Bartering!Next
<1>14. ASSUME NEW p \in Player, NEW c \in Cell, NEW n \in 1 .. MaxCount, FindItem(p, c, n)
       PROVE  Bartering!Next
  <2>1. Agreed' = Agreed
    BY <1>14, AgreedOf DEF FindItem
  <2>2. Bartering!Find(p, c)
    BY <1>14, <2>1 DEF FindItem, Bartering!Find
  <2> QED  BY <2>2 DEF Bartering!Next
<1>15. CASE UNCHANGED vars
  BY <1>1, <1>15 DEF vars
<1> QED
  BY <1>3, <1>4, <1>5, <1>6, <1>7, <1>8, <1>9, <1>10, <1>11, <1>12, <1>13, <1>14, <1>15
  DEF Next

\* For all players, items and sizes of bags and tables: what changes hands in a deal is
\* what both sides confirmed, items, pieces and coins, in one step; an item of it is lost
\* only when the bag it goes to cannot take all of them (H30), and nothing else moves an
\* item from one bag to another.
THEOREM DealImplementsBarter == Spec => ImplementsBarter
<1>1. IInv /\ RecInv /\ BagInv /\ [Next]_vars => [Bartering!Next]_(Bartering!vars)
  BY BarterStep
<1> QED
  BY InitInv, NextInv, InitBagInv, NextBagInv, InitRecInv, NextRecInv, InitBarter, <1>1, PTL
  DEF Spec, ImplementsBarter, Bartering!Spec
=============================================================================
