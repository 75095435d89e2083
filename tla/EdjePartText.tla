---------------------------- MODULE EdjePartText -----------------------------
(***************************************************************************)
(* The text of TEXT and TEXTBLOCK parts and the text change callback of    *)
(* src/legacy/edje/src/lib/edje_util.c, composed with the freeze/dirty     *)
(* controller and block guard of EdjeFreeze.                               *)
(*                                                                         *)
(* A text is a model value or NoText (a NULL rp->text.text); the string    *)
(* sharing of evas_stringshare is left out, only equality matters to       *)
(* strcmp.  The callback is a model value or NoFunc; its data pointer is   *)
(* part of it.  The callback is application code called synchronously as  *)
(* the last statement of edje_object_part_text_set, with no block around   *)
(* it: it may call edje_object_part_text_set on the instance again, up to  *)
(* MaxReentry calls deep.  The nested calls run to their end inside the    *)
(* outer one, so a call and its nested calls are one step.                 *)
(*                                                                         *)
(*  - shown[e][p]: the text part p of e was last laid out with;            *)
(*  - notified: the text change callbacks the last step made, in order,    *)
(*    each with the stored text of its part before and at the call.        *)
(***************************************************************************)
EXTENDS EdjeFreeze, Sequences

CONSTANTS
  PartType,  \* PartType[p]: rp->part->type of part p of every instance
  TextIn,    \* the texts a caller passes, besides NULL
  Funcs,     \* the callbacks a caller registers, besides NULL
  NoText,    \* a NULL text
  NoFunc,    \* a NULL text_change.func
  MaxReentry \* how deep callbacks call edje_object_part_text_set again

PartNames == DOMAIN PartType

VARIABLES
  text,         \* rp->text.text of every part
  text_change,  \* ed->text_change.func (and .data)
  shown,        \* history: the text of each part at its last layout
  notified      \* history: the callbacks made by the last step

textVars == <<text, text_change>>
allVars == <<vars, textVars, shown, notified>>

\* The parts of the instances laid out by the step show their text as it is
\* after it.  Written last in an action.
Show ==
  shown' = [e \in Edjes |-> IF e \in laid' THEN text'[e] ELSE shown[e]]

\* Mutant: the early return for two NULL texts forgotten.
TextUnchangedMissingNull(old, t) == old # NoText /\ t # NoText /\ old = t

\* The two early returns of edje_object_part_text_set: both texts NULL, or
\* both non-NULL and equal under strcmp.
TextUnchanged(old, t) ==
  \/ old = NoText /\ t = NoText
  \/ old # NoText /\ t # NoText /\ old = t

\* Mutant: the text stored without "ed->dirty = 1; _edje_recalc(ed)".
TextSetWithoutRecalc(e) ==
  /\ laid' = {}
  /\ UNCHANGED <<freeze, dirty, recalc, blockVars>>

\* "ed->dirty = 1; _edje_recalc(ed);" after the text is stored.  Nested
\* calls recalc the same instance again, which a recalc already made
\* leaves as it is.
TextRecalc(e) == Invalidate(e)

TextTypes == {"TEXT", "TEXTBLOCK"}

\* The callback invocation of a call that changed part p of e from its text
\* in txt to its text in new, if a callback is set.
Notify(txt, new, e, p) ==
  IF text_change[e] # NoFunc
  THEN <<[func |-> text_change[e], edje |-> e, part |-> p,
          before |-> txt[e][p], seen |-> new[e][p]]>>
  ELSE <<>>

\* Mutant: the callback called before the text is stored.
RECURSIVE TextSetCallNotifyingFirst(_, _, _, _, _)
TextSetCallNotifyingFirst(txt, e, p, t, rs) ==
  IF PartType[p] \notin TextTypes \/ TextUnchanged(txt[e][p], t)
  THEN [text |-> txt, calls |-> <<>>]
  ELSE LET inner == IF rs = <<>> THEN [text |-> txt, calls |-> <<>>]
                    ELSE TextSetCallNotifyingFirst(txt, e, Head(rs).part,
                                                   Head(rs).text, Tail(rs))
       IN [text |-> [inner.text EXCEPT ![e][p] = t],
           calls |-> Notify(txt, txt, e, p) \o inner.calls]

\* One call of edje_object_part_text_set on the texts txt: the texts after it
\* and the callbacks it made, in order.  The type test and the two early
\* returns leave the texts as they are and call nothing; otherwise the text
\* is stored and the callback called, and a callback that calls back makes
\* the call at the head of rs, whose own callback makes the rest.
RECURSIVE TextSetCall(_, _, _, _, _)
TextSetCall(txt, e, p, t, rs) ==
  IF PartType[p] \notin TextTypes \/ TextUnchanged(txt[e][p], t)
  THEN [text |-> txt, calls |-> <<>>]
  ELSE LET new == [txt EXCEPT ![e][p] = t]
           inner == IF rs = <<>> THEN [text |-> new, calls |-> <<>>]
                    ELSE TextSetCall(new, e, Head(rs).part, Head(rs).text,
                                     Tail(rs))
       IN [text |-> inner.text, calls |-> Notify(txt, new, e, p) \o inner.calls]

\* The chains of calls the callback of e may make back into the instance.
Reentries(e) ==
  IF text_change[e] = NoFunc THEN {<<>>}
  ELSE UNION {[1..n -> [part : PartNames, text : TextIn \cup {NoText}]] :
                n \in 0..MaxReentry}

(***************************************************************************)
(* Operations                                                              *)
(***************************************************************************)

\* edje_object_text_change_cb_set: func and data stored.
edje_object_text_change_cb_set(e, f) ==
  /\ text_change' = [text_change EXCEPT ![e] = f]
  /\ laid' = {}
  /\ UNCHANGED <<freeze, dirty, recalc, blockVars, text>>
  /\ notified' = <<>>
  /\ Show

\* edje_object_part_text_set: a part that is neither TEXT nor TEXTBLOCK, or
\* a text equal to the stored one, returns; otherwise the text is stored,
\* the instance recalculated and, if a change callback is set, it is called
\* with the part's name, and may call back.
edje_object_part_text_set(e, p, t) ==
  /\ PartType[p] \in TextTypes
  /\ ~TextUnchanged(text[e][p], t)
  /\ \E rs \in Reentries(e) :
       LET call == TextSetCall(text, e, p, t, rs)
       IN  /\ text' = call.text
           /\ notified' = call.calls
  /\ TextRecalc(e)
  /\ UNCHANGED text_change
  /\ Show

PartTextInit ==
  /\ Init
  /\ text = [e \in Edjes |-> [p \in PartNames |-> NoText]]
  /\ text_change = [e \in Edjes |-> NoFunc]
  /\ shown = text
  /\ notified = <<>>

PartTextNext ==
  \/ /\ Next
     /\ UNCHANGED textVars
     /\ notified' = <<>>
     /\ Show
  \/ \E e \in Edjes :
       \/ \E f \in Funcs \cup {NoFunc} : edje_object_text_change_cb_set(e, f)
       \/ \E p \in PartNames, t \in TextIn \cup {NoText} :
            edje_object_part_text_set(e, p, t)

PartTextSpec == PartTextInit /\ [][PartTextNext]_allVars

(***************************************************************************)
(* Properties                                                              *)
(***************************************************************************)

\* ChangeNotified: every callback a step makes is the instance's registered
\* one and reports a part whose text the call it follows changed: setting
\* NULL over NULL, or a text equal to the stored one, calls nothing
\* (edje_object_part_text_set, spec 6: the callback fires only on an actual
\* change of content); and a part whose text the step changes while a
\* callback is registered is reported.
ChangeNotified ==
  [][/\ \A i \in 1..Len(notified') :
          /\ notified'[i].func = text_change[notified'[i].edje]
          /\ notified'[i].before # notified'[i].seen
     /\ \A e \in Edjes, p \in PartNames :
          text'[e][p] # text[e][p] /\ text_change[e] # NoFunc =>
            \E i \in 1..Len(notified') :
              notified'[i].edje = e /\ notified'[i].part = p
    ]_allVars

\* The i-th callback of the last step is the last one about its part.
LastAbout(i) ==
  \A j \in i+1..Len(notified) :
    notified[j].edje # notified[i].edje \/ notified[j].part # notified[i].part

\* NotifiedSeesFinal: the last callback a step makes about a part runs with
\* the part's text as the step leaves it.  The callback runs after the
\* store (edje_util.c:680), so when it calls edje_object_part_text_set on
\* the same part again, that nested call notifies once more, after it; the
\* application's last notice of a part never reports a text since replaced.
NotifiedSeesFinal ==
  [][\A i \in 1..Len(notified') :
       LastAbout(i)' => notified'[i].seen = text'[notified'[i].edje][notified'[i].part]
    ]_allVars

\* TextShown: an active instance shows every part with its stored text,
\* however text changes, freezes, thaws and forced recalcs of the instances
\* interleave: a text set while frozen is laid out by the thaw.
TextShown ==
  \A e \in Edjes : freeze[e] = 0 => shown[e] = text[e]

=============================================================================
