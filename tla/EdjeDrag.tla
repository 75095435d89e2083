------------------------------ MODULE EdjeDrag ------------------------------
(***************************************************************************)
(* The dragable parts of src/legacy/edje/src/lib/edje_util.c: the value,   *)
(* size, step and page of each dragable part of one Edje instance, the     *)
(* relative moves drag_step and drag_page, and the pointer grabs that own  *)
(* the value while a drag is in progress, composed with the freeze/dirty   *)
(* controller of EdjeFreeze.                                               *)
(*                                                                         *)
(* The doubles of the code are multiples of 1/Q: a value v stands for     *)
(* v/Q, so 1.0 - v is Q - v and CLAMP(v, 0.0, 1.0) clamps to 0..Q.        *)
(*                                                                         *)
(* _edje_dragable_pos_set (edje_calc.c) recomputes the geometry of the     *)
(* part; it is modelled from the spec (4.5) as a recalculation of the      *)
(* instance, deferred while it is frozen.  The pointer callbacks of        *)
(* edje_callbacks.c (outside src/) take and release a grab (drag.down.count) *)
(* and, while one is held, move the value within 0..1.                     *)
(*                                                                         *)
(*  - drawn[p]: the value and size part p was last laid out with;          *)
(*  - emitted: the signal and part _edje_emit sent in the last step, or    *)
(*    NoSignal.                                                            *)
(***************************************************************************)
EXTENDS EdjeFreeze

CONSTANTS
  Ed,         \* the instance
  DragParts,  \* its dragable parts
  Dragable,   \* Dragable[p]: rp->part->dragable, x and y in -1..1 (a
              \* negative direction is reversed) and confine
  Q,          \* the denominator of the values
  ValueIn,    \* the dx, dy a caller passes to drag_value_set, in 1/Q
  FracIn,     \* the dw, dh, dx, dy a caller passes to size/step/page_set
  DeltaIn,    \* the dx, dy a caller passes to drag_step and drag_page
  MaxDown,    \* bound on the pointer grabs of a part
  NoSignal

Axes == {"x", "y"}

ASSUME /\ Edjes = {Ed}
       /\ \A p \in DragParts : Dragable[p] \in [x : -1..1, y : -1..1, confine : BOOLEAN]
       /\ Q \in Nat \ {0}

VARIABLES
  val,      \* rp->drag.val
  size,     \* rp->drag.size
  step,     \* rp->drag.step
  page,     \* rp->drag.page
  down,     \* rp->drag.down.count
  drawn,    \* value and size of the part at its last layout
  emitted   \* the signal emitted by the last step

dragVars == <<val, size, step, page, down>>
allVars == <<vars, dragVars, drawn, emitted>>

\* CLAMP(v, 0.0, 1.0) on each axis.
ClampAxes(v) == [a \in Axes |-> IF v[a] < 0 THEN 0 ELSE IF v[a] > Q THEN Q ELSE v[a]]

\* Mutant: the upper bound of the size/step/page clamp forgotten.
ClampUnitLow(d) == [a \in Axes |-> IF d[a] < 0 THEN 0 ELSE d[a]]

\* "if (dx < 0.0) dx = 0.0; else if (dx > 1.0) dx = 1.0;" on each axis.
ClampUnit(d) == [a \in Axes |-> IF d[a] < 0 THEN 0 ELSE IF d[a] > Q THEN Q ELSE d[a]]

\* The parts laid out by the step draw their value and size as they are
\* after it.  Written last in an action.
Draw ==
  drawn' = [p \in DragParts |->
              IF Ed \in laid' THEN [val |-> val'[p], size |-> size'[p]]
              ELSE drawn[p]]

\* "ed->dirty = 1; _edje_recalc(ed);", and _edje_dragable_pos_set.
Relayout ==
  /\ _edje_recalc({Ed}, freeze)
  /\ UNCHANGED <<freeze, blockVars>>

\* A step that lays nothing out.
NoLayout ==
  /\ laid' = {}
  /\ UNCHANGED <<freeze, dirty, recalc, blockVars>>

(***************************************************************************)
(* Operations                                                              *)
(***************************************************************************)

\* Mutant: the value stored without _edje_dragable_pos_set.
PosSetSkipped == NoLayout

\* _edje_dragable_pos_set(ed, rp, x, y).
_edje_dragable_pos_set == Relayout

\* edje_object_part_drag_value_set: ignored while a grab is held; clamped
\* if the part is confined; a reversed axis stores 1 - v; an equal value
\* returns; otherwise stored, placed and "drag,set" emitted.
edje_object_part_drag_value_set(p, d) ==
  LET c == IF Dragable[p].confine THEN ClampAxes(d) ELSE d
      v == [a \in Axes |-> IF Dragable[p][a] < 0 THEN Q - c[a] ELSE c[a]]
  IN /\ down[p] = 0
     /\ v # val[p]
     /\ val' = [val EXCEPT ![p] = v]
     /\ _edje_dragable_pos_set
     /\ emitted' = <<"drag,set", p>>
     /\ UNCHANGED <<size, step, page, down>>
     /\ Draw

\* edje_object_part_drag_size_set: clamped; an equal size returns;
\* otherwise stored and the instance recalculated.
edje_object_part_drag_size_set(p, d) ==
  /\ ClampUnit(d) # size[p]
  /\ size' = [size EXCEPT ![p] = ClampUnit(d)]
  /\ Relayout
  /\ emitted' = NoSignal
  /\ UNCHANGED <<val, step, page, down>>
  /\ Draw

\* edje_object_part_drag_step_set and _page_set: clamped and stored,
\* nothing recalculated.
edje_object_part_drag_step_set(p, d) ==
  /\ step' = [step EXCEPT ![p] = ClampUnit(d)]
  /\ NoLayout
  /\ emitted' = NoSignal
  /\ UNCHANGED <<val, size, page, down, drawn>>

edje_object_part_drag_page_set(p, d) ==
  /\ page' = [page EXCEPT ![p] = ClampUnit(d)]
  /\ NoLayout
  /\ emitted' = NoSignal
  /\ UNCHANGED <<val, size, step, down, drawn>>

\* Mutant: the change tested on the value before the clamp.
MovedBeforeClamp(p, raw) == raw # val[p]

\* "if ((px == rp->drag.val.x) && (py == rp->drag.val.y)) return;", after
\* the clamp.
Moved(p, raw) == ClampAxes(raw) # val[p]

\* drag_step and drag_page: ignored while a grab is held; the value moves by
\* delta * increment * direction and is clamped; if it moved, the part is
\* placed and the signal emitted.
DragRelative(p, d, inc, sig) ==
  LET raw == [a \in Axes |-> val[p][a] + d[a] * inc[p][a] * Dragable[p][a]]
  IN /\ down[p] = 0
     /\ val' = [val EXCEPT ![p] = ClampAxes(raw)]
     /\ IF Moved(p, raw)
        THEN /\ _edje_dragable_pos_set
             /\ emitted' = <<sig, p>>
        ELSE /\ NoLayout
             /\ emitted' = NoSignal
     /\ UNCHANGED <<size, step, page, down>>
     /\ Draw

edje_object_part_drag_step(p, d) == DragRelative(p, d, step, "drag,step")

edje_object_part_drag_page(p, d) == DragRelative(p, d, page, "drag,page")

\* The pointer goes down on a dragable part: a grab is taken.
MouseDown(p) ==
  /\ down[p] < MaxDown
  /\ down' = [down EXCEPT ![p] = @ + 1]
  /\ NoLayout
  /\ emitted' = NoSignal
  /\ UNCHANGED <<val, size, step, page, drawn>>

\* The pointer goes up: the grab is released.
MouseUp(p) ==
  /\ down[p] > 0
  /\ down' = [down EXCEPT ![p] = @ - 1]
  /\ NoLayout
  /\ emitted' = NoSignal
  /\ UNCHANGED <<val, size, step, page, drawn>>

\* The pointer moves during a grab: the part follows it, within 0..1 on its
\* dragable axes.
MouseMove(p, v) ==
  /\ down[p] > 0
  /\ val' = [val EXCEPT ![p] = [a \in Axes |-> IF Dragable[p][a] # 0 THEN v
                                                ELSE val[p][a]]]
  /\ Relayout
  /\ emitted' = NoSignal
  /\ UNCHANGED <<size, step, page, down>>
  /\ Draw

DragInit ==
  /\ Init
  /\ val = [p \in DragParts |-> [a \in Axes |-> 0]]
  /\ size = [p \in DragParts |-> [a \in Axes |-> 0]]
  /\ step = [p \in DragParts |-> [a \in Axes |-> 0]]
  /\ page = [p \in DragParts |-> [a \in Axes |-> 0]]
  /\ down = [p \in DragParts |-> 0]
  /\ drawn = [p \in DragParts |-> [val |-> val[p], size |-> size[p]]]
  /\ emitted = NoSignal

\* The pairs of values a caller passes for both axes, and the pairs with
\* the same value on both.
Pairs(S) == [Axes -> S]
Diagonal(S) == {[a \in Axes |-> v] : v \in S}

DragNext ==
  \/ /\ FreezeNext
     /\ emitted' = NoSignal
     /\ UNCHANGED dragVars
     /\ Draw
  \/ \E p \in DragParts :
       \/ \E d \in Pairs(ValueIn) : edje_object_part_drag_value_set(p, d)
       \/ \E d \in Diagonal(FracIn) :
            \/ edje_object_part_drag_size_set(p, d)
            \/ edje_object_part_drag_step_set(p, d)
            \/ edje_object_part_drag_page_set(p, d)
       \/ \E d \in Pairs(DeltaIn) :
            \/ edje_object_part_drag_step(p, d)
            \/ edje_object_part_drag_page(p, d)
       \/ MouseDown(p) \/ MouseUp(p)
       \/ \E v \in 0..Q : MouseMove(p, v)

DragSpec == DragInit /\ [][DragNext]_allVars

(***************************************************************************)
(* Properties                                                              *)
(***************************************************************************)

\* Mutant: the stored value returned as it is, on reversed axes too.
DragValueGetUnreversed(p) == val[p]

\* edje_object_part_drag_value_get: the stored value, 1 - v on an axis
\* whose direction is reversed.
edje_object_part_drag_value_get(p) ==
  [a \in Axes |-> IF Dragable[p][a] < 0 THEN Q - val[p][a] ELSE val[p][a]]

\* The value drag_value_get should return after drag_value_set(p, d).
Requested(p, d) == IF Dragable[p].confine THEN ClampAxes(d) ELSE d

DragTypeOK ==
  /\ TypeOK
  /\ val \in [DragParts -> [Axes -> Int]]
  /\ size \in [DragParts -> [Axes -> 0..Q]]
  /\ step \in [DragParts -> [Axes -> 0..Q]]
  /\ page \in [DragParts -> [Axes -> 0..Q]]
  /\ down \in [DragParts -> 0..MaxDown]

\* The signals of the drag API.
ApiSignals == {"drag,set", "drag,step", "drag,page"}

\* NotifyIffMoved: a call of drag_value_set, drag_step or drag_page emits
\* its signal exactly when it changes the stored value, and never while a
\* pointer grab owns the value (spec 4.5, spec 8); a step or page that the
\* clamp turns into no move emits nothing.
NotifyIffMoved ==
  [][\A p \in DragParts :
       (emitted' \in ApiSignals \X {p}) <=> (val'[p] # val[p] /\ down[p] = 0)
    ]_allVars

\* DragShown: an active instance draws every dragable part at its stored
\* value and size, whatever sets them and however freezes and thaws are
\* interleaved with the setters and the pointer.
DragShown ==
  freeze[Ed] = 0 =>
    \A p \in DragParts : drawn[p] = [val |-> val[p], size |-> size[p]]

\* ValueReadBack: after a drag_value_set that takes effect, drag_value_get
\* returns the value the caller passed (clamped if the part is confined),
\* on reversed axes too: the setter stores 1 - v and the getter must undo
\* exactly that, on the same axes, whatever value the part held before.
ValueReadBack ==
  [][\A p \in DragParts, d \in Pairs(ValueIn) :
       emitted' = <<"drag,set", p>> /\ edje_object_part_drag_value_set(p, d) =>
         (edje_object_part_drag_value_get(p))' = Requested(p, d)
    ]_allVars

\* DragValueInRange: every stored value lies in 0..1 (spec 3: dragable
\* value components are always clamped to [0,1]).
DragValueInRange ==
  \A p \in DragParts, a \in Axes : val[p][a] \in 0..Q

=============================================================================
