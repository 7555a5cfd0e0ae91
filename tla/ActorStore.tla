----------------------------- MODULE ActorStore -----------------------------
(***************************************************************************)
(* What the logic server counts on when it saves characters at the DB      *)
(* server and loads them again (server/DBServer/DBDataClientHandler.cpp):  *)
(* one store, which a save changes at once and a load is answered from.    *)
(* Nothing here is cached, and nothing is written later.                   *)
(***************************************************************************)
EXTENDS Integers, Sequences

CONSTANTS
  Actor,     \* characters
  Type,      \* the parts a character's data is saved in
  Version    \* the versions of a part, which count from 0

VARIABLES
  store,     \* the newest version of every part of every character
  answers    \* answers to loads that the logic server has not read

vars == <<store, answers>>

Init ==
  /\ store = [a \in Actor |-> [t \in Type |-> 0]]
  /\ answers = << >>

\* A part is replaced by a newer one, never by an older one.
Save(a, t) ==
  /\ \E v \in Version : v > store[a][t] /\ store' = [store EXCEPT ![a][t] = v]
  /\ UNCHANGED answers

Load(a) ==
  /\ answers' = Append(answers, [actor |-> a, data |-> store[a]])
  /\ UNCHANGED store

Receive ==
  /\ answers # << >>
  /\ answers' = Tail(answers)
  /\ UNCHANGED store

Next ==
  \/ \E a \in Actor : Load(a) \/ \E t \in Type : Save(a, t)
  \/ Receive

Spec == Init /\ [][Next]_vars
=============================================================================
