----------------------------- MODULE EdjeSwallow ----------------------------
(***************************************************************************)
(* Swallowed objects of src/legacy/edje/src/lib/edje_util.c: an external   *)
(* object placed in a part of an Edje instance, borrowed and never freed   *)
(* by it (spec 5).                                                         *)
(*                                                                         *)
(*  - swallowed[e][p]: rp->swallowed_object of part p of instance e;       *)
(*  - free_cbs[o]: the EVAS_CALLBACK_FREE registrations of                 *)
(*    _edje_object_part_swallow_free_cb on object o, in registration order,*)
(*    each recorded by its data, the instance that registered it;          *)
(*  - smart_parent[o]: the smart object o is a member of;                  *)
(*  - alive[o]: o has not been freed by its owner;                        *)
(*  - hints[o]: the "\377 edje.*" data the edje_extern_object_* setters    *)
(*    left on o, as the swallow reads it (an absent key reads as 0);        *)
(*  - swallow_params[e][p]: rp->swallow_params of the part.                *)
(*                                                                         *)
(* Sizes keep one axis: the code treats w and h alike (the reset of min.h  *)
(* is missing, line 743, but min is overwritten by the hint whatever the   *)
(* type).  The aspect hint is left out: the swallow copies it as it is,   *)
(* like the min hint, and unswallow leaves it.                            *)
(*                                                                         *)
(* Evas (outside src/) is modelled from its interface: a callback is       *)
(* appended on registration; evas_object_event_callback_del(obj, type,     *)
(* func) has no data argument and removes the first live registration of   *)
(* func, if any; freeing an object calls its live FREE callbacks in order, *)
(* skipping a registration removed during the walk; a smart member has one *)
(* parent, which member_add replaces and member_del clears.                *)
(*                                                                         *)
(* Swallow, unswallow and the free callback end with a recalc of the       *)
(* instance.  No instance is frozen here (EdjeFreeze checks freezing), so  *)
(* the recalc lays the instance out at once.                               *)
(***************************************************************************)
EXTENDS EdjeFreeze, SequencesExt, FiniteSets

CONSTANTS
  Parts,        \* ed->parts, as the sequence of their names
  Objs,         \* the external objects a caller may swallow
  NoObj,        \* NULL
  NoParent,     \* not a smart member of any object
  CallersUnswallowFirst, \* callers swallow only an object no other part holds
  ObjType,      \* evas_object_type_get of each object
  OwnMax,       \* an edje's edje_object_size_max_get, a text's width
  MinIn, MaxIn  \* arguments the hint setters are called with

ASSUME CallersUnswallowFirst \in BOOLEAN
ASSUME ObjType \in [Objs -> {"edje", "text", "rectangle"}]

VARIABLES
  swallowed,     \* rp->swallowed_object
  free_cbs,      \* FREE callbacks of _edje_object_part_swallow_free_cb
  smart_parent,  \* evas smart parent of each object
  alive,         \* the object has not been freed
  hints,         \* the edje.minw / maxw data of each object
  swallow_params   \* rp->swallow_params

swallowVars == <<swallowed, free_cbs, smart_parent, alive, hints,
                 swallow_params>>
allVars == <<vars, swallowVars>>

PartNames == ToSet(Parts)

\* An object no setter has touched: every key absent, read as 0.
NoHints == [min |-> 0, max |-> 0]

\* rp->swallow_params of a part never swallowed into (calloc'd).
NoParams == [min |-> 0, max |-> 0]

\* "ed->dirty = 1; _edje_recalc(ed)" on an active instance.
Relayout(e) ==
  /\ _edje_recalc({e}, freeze)
  /\ UNCHANGED <<freeze, blockVars>>

\* Mutant: the callback never detached.
CallbackDelNone(cbs, o) == cbs

\* evas_object_event_callback_del(o, EVAS_CALLBACK_FREE,
\* _edje_object_part_swallow_free_cb): the first registration goes.
CallbackDel(cbs, o) == IF cbs[o] = <<>> THEN cbs ELSE [cbs EXCEPT ![o] = Tail(@)]

\* The first part of e, in the order of ed->parts, holding o; 0 if none.
HolderIndex(sw, e, o) == SelectInSeq(Parts, LAMBDA p : sw[e][p] = o)

\* Mutant: the swallow not subscribing to the object's destruction.
CallbackAddForgotten(cbs, o, e) == cbs

\* evas_object_event_callback_add(o, EVAS_CALLBACK_FREE,
\* _edje_object_part_swallow_free_cb, obj): appended.
CallbackAdd(cbs, o, e) == [cbs EXCEPT ![o] = Append(@, e)]

(***************************************************************************)
(* The unswallow loop, on explicit state so that the free callback can run *)
(* it once per registration: the first part of e holding o is emptied, o   *)
(* leaves its smart parent and loses its first FREE registration.  Returns *)
(* the new state and whether a part was found.  Before it, a mutant that   *)
(* leaves the callback registered.                                         *)
(***************************************************************************)
UnswallowKeepingCallback(st, e, o) ==
  LET i == HolderIndex(st.sw, e, o)
  IN IF i = 0 THEN [st EXCEPT !.found = FALSE]
     ELSE [sw |-> [st.sw EXCEPT ![e][Parts[i]] = NoObj],
           cbs |-> st.cbs,
           par |-> [st.par EXCEPT ![o] = NoParent],
           prm |-> [st.prm EXCEPT ![e][Parts[i]].min = 0, ![e][Parts[i]].max = 0],
           found |-> TRUE]

Unswallow(st, e, o) ==
  LET i == HolderIndex(st.sw, e, o)
  IN IF i = 0 THEN [st EXCEPT !.found = FALSE]
     ELSE [sw |-> [st.sw EXCEPT ![e][Parts[i]] = NoObj],
           cbs |-> CallbackDel(st.cbs, o),
           par |-> [st.par EXCEPT ![o] = NoParent],
           prm |-> [st.prm EXCEPT ![e][Parts[i]].min = 0, ![e][Parts[i]].max = 0],
           found |-> TRUE]

Current == [sw |-> swallowed, cbs |-> free_cbs, par |-> smart_parent,
            prm |-> swallow_params, found |-> FALSE]

\* Mutant: max not reset to -1 before the type and hint blocks.
SwallowParamsNoReset(old, o) ==
  LET typed == IF ObjType[o] \in {"edje", "text"}
               THEN [old EXCEPT !.max = OwnMax[o]] ELSE old
  IN [typed EXCEPT !.min = hints[o].min,
                   !.max = IF hints[o].max > 0 THEN hints[o].max ELSE @]

\* The swallow_params the swallow of o leaves, in the code's order: min 0
\* and max -1; an edje's max size, or the width of a text, polygon or line
\* (the min these give is overwritten by the min hint, so it is left out);
\* then the min hint, and the max hint if positive.
SwallowParams(old, o) ==
  LET reset == [old EXCEPT !.min = 0, !.max = -1]
      typed == IF ObjType[o] \in {"edje", "text"}
               THEN [reset EXCEPT !.max = OwnMax[o]]
               ELSE reset
  IN [typed EXCEPT !.min = hints[o].min,
                   !.max = IF hints[o].max > 0 THEN hints[o].max ELSE @]

(***************************************************************************)
(* Operations                                                              *)
(***************************************************************************)

\* edje_object_part_swallow(obj, part, obj_swallow): the part's previous
\* object, if any, leaves the smart object, loses its FREE callback and is
\* dropped; a NULL obj_swallow returns there.  Otherwise the new object
\* joins the smart object, gets a FREE callback and the instance is
\* recalculated.  Nothing is done about other parts holding obj_swallow.
\* The part's swallow_params are recomputed from the new object; a NULL
\* obj_swallow leaves them as they were.
edje_object_part_swallow(e, p, o) ==
  LET old == swallowed[e][p]
      cbs1 == IF old # NoObj THEN CallbackDel(free_cbs, old) ELSE free_cbs
      par1 == IF old # NoObj THEN [smart_parent EXCEPT ![old] = NoParent]
              ELSE smart_parent
  IN /\ o \in {NoObj} \cup {x \in Objs : alive[x]}
     /\ IF o = NoObj
        THEN /\ swallowed' = [swallowed EXCEPT ![e][p] = NoObj]
             /\ free_cbs' = cbs1
             /\ smart_parent' = par1
             /\ laid' = {}
             /\ UNCHANGED <<freeze, dirty, recalc, blockVars, swallow_params>>
        ELSE /\ swallowed' = [swallowed EXCEPT ![e][p] = o]
             /\ free_cbs' = CallbackAdd(cbs1, o, e)
             /\ smart_parent' = [par1 EXCEPT ![o] = e]
             /\ swallow_params' = [swallow_params EXCEPT ![e][p] =
                                      SwallowParams(@, o)]
             /\ Relayout(e)
     /\ UNCHANGED <<alive, hints>>

\* edje_object_part_unswallow(obj, obj_swallow): the first part holding the
\* object is emptied, its min and max set to 0, and the instance
\* recalculated; if none holds it, nothing happens.
edje_object_part_unswallow(e, o) ==
  LET st == Unswallow(Current, e, o)
  IN /\ alive[o]
     /\ st.found
     /\ swallowed' = st.sw
     /\ free_cbs' = st.cbs
     /\ smart_parent' = st.par
     /\ swallow_params' = st.prm
     /\ Relayout(e)
     /\ UNCHANGED <<alive, hints>>

\* The owner frees o: Evas calls its FREE callbacks in registration order,
\* each _edje_object_part_swallow_free_cb calling
\* edje_object_part_unswallow(data, o).  A callback removes the first live
\* registration, never one after its own, so every registration the walk
\* reaches is live and every callback runs.  Then the object and its
\* callbacks are gone.
ObjectFree(o) ==
  LET regs == free_cbs[o]
      Call(acc, e) ==
        LET st == Unswallow(acc.st, e, o)
        IN [st |-> st, relaid |-> IF st.found THEN acc.relaid \cup {e}
                                  ELSE acc.relaid]
      res == FoldLeft(Call, [st |-> Current, relaid |-> {}], regs)
  IN /\ alive[o]
     /\ alive' = [alive EXCEPT ![o] = FALSE]
     /\ swallowed' = res.st.sw
     /\ free_cbs' = [res.st.cbs EXCEPT ![o] = <<>>]
     /\ smart_parent' = [res.st.par EXCEPT ![o] = NoParent]
     /\ swallow_params' = res.st.prm
     /\ _edje_recalc(res.relaid, freeze)
     /\ UNCHANGED <<freeze, blockVars, hints>>

\* The parts of e holding o.
Holders(e, o) == {p \in PartNames : swallowed[e][p] = o}

\* The owner creates a new object (evas_object_*_add), here in the slot of a
\* freed object that no part refers to any more; it carries no data.
ObjectNew(o) ==
  /\ ~alive[o]
  /\ \A e \in Edjes : Holders(e, o) = {}
  /\ alive' = [alive EXCEPT ![o] = TRUE]
  /\ hints' = [hints EXCEPT ![o] = NoHints]
  /\ laid' = {}
  /\ UNCHANGED <<freeze, dirty, recalc, blockVars, swallowed, free_cbs,
                 smart_parent, swallow_params>>

\* The hint setters store a positive (for max: a non-negative) value under
\* the object's key and delete the key otherwise, which the swallow then
\* reads as 0.  They touch no instance.
SetHint(o, field, v) ==
  /\ alive[o]
  /\ hints' = [hints EXCEPT ![o][field] = v]
  /\ laid' = {}
  /\ UNCHANGED <<freeze, dirty, recalc, blockVars, swallowed, free_cbs,
                 smart_parent, alive, swallow_params>>

\* edje_extern_object_min_size_set: a negative minw is 0; 0 deletes the key.
edje_extern_object_min_size_set(o, minw) ==
  SetHint(o, "min", IF minw > 0 THEN minw ELSE 0)

\* edje_extern_object_max_size_set: maxw >= 0 is stored, a negative one
\* deletes the key.
edje_extern_object_max_size_set(o, maxw) ==
  SetHint(o, "max", IF maxw >= 0 THEN maxw ELSE 0)

SwallowInit ==
  /\ Init
  /\ swallowed = [e \in Edjes |-> [p \in PartNames |-> NoObj]]
  /\ free_cbs = [o \in Objs |-> <<>>]
  /\ smart_parent = [o \in Objs |-> NoParent]
  /\ alive = [o \in Objs |-> TRUE]
  /\ hints = [o \in Objs |-> NoHints]
  /\ swallow_params = [e \in Edjes |-> [p \in PartNames |-> NoParams]]

\* An object that a part other than p of e holds.
HeldElsewhere(e, p, o) ==
  /\ o # NoObj
  /\ \E e2 \in Edjes, p2 \in PartNames : <<e2, p2>> # <<e, p>> /\ swallowed[e2][p2] = o

SwallowNext ==
  \/ \E e \in Edjes, p \in PartNames, o \in Objs \cup {NoObj} :
       /\ CallersUnswallowFirst => ~HeldElsewhere(e, p, o)
       /\ edje_object_part_swallow(e, p, o)
  \/ \E e \in Edjes, o \in Objs : edje_object_part_unswallow(e, o)
  \/ \E o \in Objs : ObjectFree(o) \/ ObjectNew(o)
  \/ \E o \in Objs, v \in MinIn : edje_extern_object_min_size_set(o, v)
  \/ \E o \in Objs, v \in MaxIn : edje_extern_object_max_size_set(o, v)

SwallowSpec == SwallowInit /\ [][SwallowNext]_allVars

(***************************************************************************)
(* Properties                                                              *)
(***************************************************************************)

\* Types, and the FREE registrations of an object bounded by the number of
\* parts there are: every detach matches an attach.
SwallowTypeOK ==
  /\ TypeOK
  /\ swallowed \in [Edjes -> [PartNames -> Objs \cup {NoObj}]]
  /\ free_cbs \in [Objs -> BoundedSeq(Edjes, Cardinality(Edjes) * Len(Parts))]
  /\ smart_parent \in [Objs -> Edjes \cup {NoParent}]
  /\ alive \in [Objs -> BOOLEAN]
  /\ hints \in [Objs -> [min : Nat, max : Nat]]
  /\ swallow_params \in [Edjes -> [PartNames ->
                          [min : Nat, max : Int]]]

\* edje_object_part_swallow_get: rp->swallowed_object of the part.
edje_object_part_swallow_get(e, p) == swallowed[e][p]

\* NoDanglingSwallow: edje_object_part_swallow_get never hands out an object
\* its owner has freed: every swallow subscribed to the object's
\* destruction, and the free callbacks unswallowed it from every part that
\* held it (spec 5: the instance must clear its own reference to avoid a
\* dangling link).
NoDanglingSwallow ==
  \A e \in Edjes, p \in PartNames :
    LET o == edje_object_part_swallow_get(e, p) IN o # NoObj => alive[o]

\* FreeCallbacksExact: after any sequence of swallows, replacements,
\* unswallows and frees, a live object carries one FREE registration for
\* each part holding it, with that part's instance as data, so a later
\* free reaches exactly the instances that hold it.
FreeCallbacksExact ==
  \A o \in Objs : alive[o] =>
    \A e \in Edjes :
      Cardinality({i \in DOMAIN free_cbs[o] : free_cbs[o][i] = e}) =
        Cardinality(Holders(e, o))

\* The constraints a part holding o carries according to spec 2 ("cached
\* min/max/aspect constraints" of the swallowed object), given the hints
\* h o had when swallowed: the min hint, the max hint if positive and
\* otherwise the object's own (an edje's max size, a text's width) or none
\* (-1).
CachedParams(o, h) ==
  [min |-> h.min,
   max |-> IF h.max > 0 THEN h.max
           ELSE IF ObjType[o] \in {"edje", "text"} THEN OwnMax[o] ELSE -1]

\* The hints the setters can leave on an object.
HintRange ==
  [min : {0} \cup {v \in MinIn : v > 0}, max : {0} \cup {v \in MaxIn : v >= 0}]

\* ParamsOfHolder: after any sequence of swallows, replacements of one
\* object by another in the same part, unswallows, frees and hint changes,
\* a part holding an object carries constraints that object's own type and
\* hints give, never a leftover of the object it held before
\* (edje_object_part_swallow resets rp->swallow_params before reading the
\* new object's type and hints; hints set after the swallow are not read).
ParamsOfHolder ==
  \A e \in Edjes, p \in PartNames :
    LET o == swallowed[e][p]
    IN o # NoObj =>
         \E h \in HintRange : swallow_params[e][p] = CachedParams(o, h)

=============================================================================
