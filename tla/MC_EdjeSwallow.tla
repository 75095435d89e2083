---------------------------- MODULE MC_EdjeSwallow --------------------------
(* Model-checking instance of EdjeSwallow: two instances of a collection  *)
(* with two parts, and two external objects: an edje (max size 3) and a   *)
(* rectangle.  The hint setters are called with a negative and a positive *)
(* size.                                                                   *)
EXTENDS EdjeSwallow, TLC

CONSTANTS e1, e2, o1, o2

MCParts == <<"p1", "p2">>

MCObjType == (o1 :> "edje") @@ (o2 :> "rectangle")
MCOwnMax == (o1 :> 3) @@ (o2 :> 0)
MCMinIn == {-1, 1}
MCMaxIn == {-1, 2}

\* Instances are interchangeable: nothing in the model tells two of them
\* apart but their identity.  The objects differ by type.
MCSymmetry == Permutations({e1, e2})
=============================================================================
