------------------------------ MODULE MC_EdjeDrag ------------------------------
(***************************************************************************)
(* One instance with two dragable parts: "knob" is confined, dragable      *)
(* forward in x and reversed in y; "bar" is not confined, reversed in x    *)
(* and not dragable in y.  Values are in halves (Q = 2).                   *)
(***************************************************************************)
EXTENDS EdjeDrag

MCDragable == [knob |-> [x |-> 1, y |-> -1, confine |-> TRUE],
               bar |-> [x |-> -1, y |-> 0, confine |-> FALSE]]

\* drag_value_set arguments: in range, and 1.5 past it.
MCValueIn == {0, 1, 3}

\* size/step/page arguments: 1.5, clamped to 1.
MCFracIn == {3}

\* drag_step/drag_page arguments: one increment back or forward.
MCDeltaIn == {-1, 1}

\* The drawn state and the signal are read by no action.
MCDragView == <<vars, dragVars>>
=============================================================================
