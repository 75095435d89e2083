----------------------------- MODULE EdjeFreeze -----------------------------
(***************************************************************************)
(* The freeze/dirty controller and the block guard of Edje instances,      *)
(* src/legacy/edje/src/lib/edje_util.c.                                    *)
(*                                                                         *)
(* Every mutating call of edje_util.c ends with "ed->dirty = 1;            *)
(* _edje_recalc(ed)".  _edje_recalc lives in edje_calc.c, outside src/, so *)
(* it is modelled from the spec (4.3): a frozen instance only records that *)
(* a recalculation is pending, an active one is laid out and left clean.   *)
(* Thaw recalculates when the depth reaches 0 with a recalculation         *)
(* pending; calc_force lays out whatever the depth and restores it.        *)
(*                                                                         *)
(* The block counter is independent: callers that emit signals take a     *)
(* block (and a reference), a nested callback may raise block_break, and   *)
(* the break is cleared when the outermost block is released.             *)
(*                                                                         *)
(* The history variable laid is the set of instances whose layout the     *)
(* last step computed; modules that extend this one use it to refresh what *)
(* an instance shows.                                                      *)
(***************************************************************************)
EXTENDS Integers

CONSTANTS
  Edjes,      \* the live Edje objects, the list _edje_edjes
  MaxFreeze,  \* bound on the freeze depth of an instance
  MaxBlock    \* bound on the block depth of an instance

ASSUME MaxFreeze \in Nat \ {0} /\ MaxBlock \in Nat \ {0}

VARIABLES
  freeze,       \* ed->freeze
  dirty,        \* ed->dirty
  recalc,       \* ed->recalc: a recalculation deferred by a freeze
  block,        \* ed->block
  block_break,  \* ed->block_break
  refs,         \* ed->references, taken by _edje_ref in _edje_block
  laid          \* history: instances laid out by the last step

freezeVars == <<freeze, dirty, recalc, laid>>
blockVars == <<block, block_break, refs>>
vars == <<freezeVars, blockVars>>

TypeOK ==
  /\ freeze \in [Edjes -> 0..MaxFreeze]
  /\ dirty \in [Edjes -> BOOLEAN]
  /\ recalc \in [Edjes -> BOOLEAN]
  /\ block \in [Edjes -> 0..MaxBlock]
  /\ block_break \in [Edjes -> BOOLEAN]
  /\ refs \in [Edjes -> 1..(MaxBlock + 1)]
  /\ laid \subseteq Edjes

\* A loaded instance starts laid out, active, unblocked and referenced once
\* by its smart object.
Init ==
  /\ freeze = [e \in Edjes |-> 0]
  /\ dirty = [e \in Edjes |-> FALSE]
  /\ recalc = [e \in Edjes |-> FALSE]
  /\ block = [e \in Edjes |-> 0]
  /\ block_break = [e \in Edjes |-> FALSE]
  /\ refs = [e \in Edjes |-> 1]
  /\ laid = {}

(***************************************************************************)
(* _edje_recalc(ed) for every instance of S, the depths in effect at the   *)
(* call being fz (spec 4.3).  The callers of this file set ed->dirty = 1   *)
(* first, or (thaw) call it with a recalculation pending, so the instance  *)
(* is dirty on entry either way.                                           *)
(***************************************************************************)
_edje_recalc(S, fz) ==
  /\ dirty' = [e \in Edjes |-> IF e \in S THEN fz[e] > 0 ELSE dirty[e]]
  /\ recalc' = [e \in Edjes |-> IF e \in S THEN fz[e] > 0 ELSE recalc[e]]
  /\ laid' = {e \in S : fz[e] = 0}

\* Mutant: the over-thaw clamp of _edje_thaw dropped.
ThawedDepthUnclamped(n) == n - 1

\* ed->freeze-- clamped at 0, as _edje_thaw does it.
ThawedDepth(n) == IF n - 1 < 0 THEN 0 ELSE n - 1

ThawRecalcs(S, fz) == {e \in S : fz[e] = 0 /\ recalc[e]}

\* _edje_freeze: ed->freeze++.
_edje_freeze(e) ==
  /\ freeze[e] < MaxFreeze
  /\ freeze' = [freeze EXCEPT ![e] = @ + 1]

\* _edje_thaw: ed->freeze--, clamped at 0; recalc if that reaches 0 with a
\* recalculation pending.
_edje_thaw(e) ==
  LET fz == [freeze EXCEPT ![e] = ThawedDepth(@)]
  IN /\ freeze' = fz
     /\ _edje_recalc(ThawRecalcs({e}, fz), fz)

\* edje_object_freeze: _edje_freeze of a live instance.
edje_object_freeze(e) ==
  /\ _edje_freeze(e)
  /\ laid' = {}
  /\ UNCHANGED <<dirty, recalc, blockVars>>

\* edje_object_thaw: _edje_thaw of a live instance.
edje_object_thaw(e) ==
  /\ _edje_thaw(e)
  /\ UNCHANGED blockVars

\* edje_freeze: edje_object_freeze on every instance of _edje_edjes.
edje_freeze ==
  /\ \A e \in Edjes : freeze[e] < MaxFreeze
  /\ freeze' = [e \in Edjes |-> freeze[e] + 1]
  /\ laid' = {}
  /\ UNCHANGED <<dirty, recalc, blockVars>>

\* edje_thaw: edje_object_thaw on every instance of _edje_edjes.
edje_thaw ==
  LET fz == [e \in Edjes |-> ThawedDepth(freeze[e])]
  IN /\ freeze' = fz
     /\ _edje_recalc(ThawRecalcs(Edjes, fz), fz)
     /\ UNCHANGED blockVars

\* edje_object_calc_force: dirty, depth saved and set to 0, recalc, restore.
edje_object_calc_force(e) ==
  /\ _edje_recalc({e}, [freeze EXCEPT ![e] = 0])
  /\ UNCHANGED <<freeze, blockVars>>

\* The tail shared by the setters of edje_util.c, here the one of
\* edje_object_part_drag_size_set: "ed->dirty = 1; _edje_recalc(ed)".
Invalidate(e) ==
  /\ _edje_recalc({e}, freeze)
  /\ UNCHANGED <<freeze, blockVars>>

\* _edje_block: _edje_ref(ed); ed->block++.
_edje_block(e) ==
  /\ block[e] < MaxBlock
  /\ block' = [block EXCEPT ![e] = @ + 1]
  /\ refs' = [refs EXCEPT ![e] = @ + 1]
  /\ UNCHANGED <<block_break, freezeVars>>

\* Mutant: _edje_unblock without the reset of the break at depth 0.
_edje_unblock_keeping_break(e) ==
  /\ block[e] > 0
  /\ block' = [block EXCEPT ![e] = @ - 1]
  /\ refs' = [refs EXCEPT ![e] = @ - 1]
  /\ UNCHANGED <<block_break, freezeVars>>

\* _edje_unblock: ed->block--, the break cleared at 0, _edje_unref(ed).
\* Its callers release only a block they took.
_edje_unblock(e) ==
  /\ block[e] > 0
  /\ block' = [block EXCEPT ![e] = @ - 1]
  /\ block_break' = [block_break EXCEPT ![e] = IF block[e] - 1 = 0 THEN FALSE
                                                                   ELSE @]
  /\ refs' = [refs EXCEPT ![e] = @ - 1]
  /\ UNCHANGED freezeVars

\* _edje_block_violate: the break is raised only inside a block.
_edje_block_violate(e) ==
  /\ block_break' = [block_break EXCEPT ![e] = IF block[e] > 0 THEN TRUE ELSE @]
  /\ UNCHANGED <<block, refs, freezeVars>>

FreezeNext ==
  \/ edje_freeze
  \/ edje_thaw
  \/ \E e \in Edjes :
       \/ edje_object_freeze(e)
       \/ edje_object_thaw(e)
       \/ edje_object_calc_force(e)

BlockNext ==
  \E e \in Edjes :
    \/ _edje_block(e)
    \/ _edje_unblock(e)
    \/ _edje_block_violate(e)

Next ==
  \/ FreezeNext
  \/ BlockNext
  \/ \E e \in Edjes : Invalidate(e)

Spec == Init /\ [][Next]_vars

(***************************************************************************)
(* Properties                                                              *)
(***************************************************************************)

BreakScoped ==
  \A e \in Edjes : block_break[e] => block[e] > 0

=============================================================================
