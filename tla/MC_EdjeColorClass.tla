------------------------- MODULE MC_EdjeColorClass -------------------------
(* Model-checking instance of EdjeColorClass: e1 names c1 in two          *)
(* descriptions (so it is listed twice under c1), e2 names c1 and c2; c1  *)
(* also has a file-scope value, c2 has none.                              *)
EXTENDS EdjeColorClass

MCDescs == [e \in Edjes |-> IF e = "e1" THEN <<"c1", "c1">> ELSE <<"c1", "c2">>]

MCFileColors == [c \in ColorClasses |->
                   IF c = "c1" THEN [r |-> 255, r2 |-> 0] ELSE NoClass]
\* Below 0 and above 255, so that both clamps of the r channel are taken.
MCObjIn == {-1, 256}

\* The state without the history variables shown and laid, which no action
\* reads: states that differ only in them have the same successors, so the
\* invariants of this run, which do not mention them, are checked exactly.
MCColorView == <<freeze, dirty, recalc, blockVars, styleVars>>
=============================================================================
