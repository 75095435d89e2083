-------------------------- MODULE MC_EdjePartText ---------------------------
(* Model-checking instance of EdjePartText, and through it of EdjeFreeze:  *)
(* two instances, so that the global edje_freeze/edje_thaw meet an        *)
(* instance with its own freezes, each with a TEXT, a TEXTBLOCK and a     *)
(* RECT part.                                                             *)
EXTENDS EdjePartText, TLC

MCPartType == [title |-> "TEXT", body |-> "TEXTBLOCK", bg |-> "RECT"]

\* The instances are interchangeable.
EdjesSymmetry == Permutations(Edjes)

\* The state without the callbacks of the last step: no action reads them,
\* and the properties about them read only the step that makes them.
PartTextView == <<vars, textVars, shown>>
=============================================================================
