---------------------------- MODULE MCActorCache ----------------------------
(* The instances of ActorCache that are model-checked. *)
EXTENDS ActorCache

CONSTANTS p, q, basic, bag, guild

\* One character plays; the other one is a member of its guild who stays away.
PartsOfTwo == (p :> {basic, bag}) @@ (q :> {guild})

\* A cached part of the player changes twice: the older packet is replaced.
SavesOfEach == (basic :> 2) @@ (bag :> 1) @@ (guild :> 1)
=============================================================================
