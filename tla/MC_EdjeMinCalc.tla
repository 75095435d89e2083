--------------------------- MODULE MC_EdjeMinCalc ---------------------------
(***************************************************************************)
(* Two collections for the minimum-size solver.  "plain" has a textblock   *)
(* that wraps (narrower is taller), a part with a minimum size, a part     *)
(* whose height follows its width (aspect) and a part fixed in both axes   *)
(* that is larger than anything; its first pass converges.  "broken" adds  *)
(* a part that is always 5 wider than requested (a non-fixed part, in the  *)
(* words of the solver's diagnostic), so its first pass passes the ceiling *)
(* and the retry decides the result.  "growing" has a part whose excess    *)
(* width grows with the instance.                                         *)
(***************************************************************************)
EXTENDS EdjeMinCalc

Pos(x) == IF x > 0 THEN x ELSE 0

MCPartsOf == [plain |-> <<"text", "minpart", "aspect", "fixed">>,
              broken |-> <<"text", "minpart", "aspect", "runaway">>]

MCGrowingPartsOf == [growing |-> <<"minpart", "grower">>]

MCDesc ==
  [p \in {"text", "minpart", "aspect", "fixed", "runaway", "grower"} |->
     [fixed_w |-> p = "fixed", fixed_h |-> p = "fixed",
      textblock_no_min_x |-> p = "text"]]

\* ep->w - ep->req.w of each part laid out at ww x hh.
MCSlackW(p, ww, hh) ==
  CASE p = "text"    -> Pos(2 - ww)
    [] p = "minpart" -> Pos(3 - ww)
    [] p = "aspect"  -> 0
    [] p = "fixed"   -> 9
    [] p = "runaway" -> 5
    [] p = "grower"  -> ww + 1

\* ep->h - ep->req.h: the wrapped text needs 7 - ww lines (at least 1).
MCSlackH(p, ww, hh) ==
  CASE p = "text"    -> (IF 7 - ww > 1 THEN 7 - ww ELSE 1) - hh
    [] p = "minpart" -> Pos(2 - hh)
    [] p = "aspect"  -> ww - hh
    [] p = "fixed"   -> 9
    [] p = "runaway" -> 0
    [] p = "grower"  -> 0
=============================================================================
