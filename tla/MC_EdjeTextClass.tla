-------------------------- MODULE MC_EdjeTextClass --------------------------
(* Model-checking instance of EdjeTextClass: e1 names t1 in two text      *)
(* descriptions, e2 names t1 and t2.                                      *)
EXTENDS EdjeTextClass

MCTDescs == [e \in Edjes |-> IF e = "e1" THEN <<"t1", "t1">> ELSE <<"t1", "t2">>]

\* A negative size, so that the clamp is taken.
MCSizeIn == {-1}


\* The state without the history variables tshown, styled and laid, which
\* no action reads.  In the passing run the properties that read them only
\* read their primed values on a fan-out, where every member's value is a
\* function of the rest of the state, so merging states that differ only in
\* history loses no violation.
MCTextView == <<freeze, dirty, recalc, blockVars, textVars>>
=============================================================================
