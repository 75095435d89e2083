--------------------------- MODULE EdjeColorClass ---------------------------
(***************************************************************************)
(* The colour-class registry of src/legacy/edje/src/lib/edje_util.c and    *)
(* its fan-out to the instances that use a class, composed with the        *)
(* freeze/dirty controller of EdjeFreeze.                                  *)
(*                                                                         *)
(*  - cc_hash: _edje_color_class_hash, the process-wide classes;           *)
(*  - member_hash: _edje_color_class_member_hash, class name -> list of    *)
(*    the Edje instances whose descriptions use it.  An Evas_Hash keeps    *)
(*    duplicate keys (evas_hash_add prepends, evas_hash_find returns the   *)
(*    newest entry), so it is a sequence of entries, newest first;         *)
(*  - cc_obj: ed->color_classes, the per-instance classes;                 *)
(*  - shown: the colour each instance last laid out for each class, the    *)
(*    value _edje_color_class_find returned at its last recalculation.     *)
(*                                                                         *)
(* A colour is the object red channel r (clamped by the code) and the      *)
(* outline red channel r2 (stored as given); the other ten channels follow *)
(* the same two code paths.  Loading an instance (edje_load.c, outside     *)
(* src/) registers one membership per description that names a class and  *)
(* lays it out; unloading calls _edje_color_class_on_del for every part.   *)
(***************************************************************************)
EXTENDS EdjeFreeze, EvasHash, FiniteSets

CONSTANTS
  ColorClasses,  \* class names
  Descs,         \* Descs[e]: the class of each description of each part of
                 \* e that names one, default description first, part by part
  FileColors,    \* ed->file->color_classes, the file-scope classes
  ObjIn,         \* the values a caller passes for the clamped channel r
  OutlineIn,     \* the values a caller passes for the unclamped channel r2
  NoClass        \* no class of that name at this scope

Color == [r : Int, r2 : Int]

ASSUME /\ Descs \in [Edjes -> Seq(ColorClasses)]
       /\ FileColors \in [ColorClasses -> Color \cup {NoClass}]

VARIABLES
  cc_hash,      \* _edje_color_class_hash
  member_hash,  \* _edje_color_class_member_hash
  cc_obj,       \* ed->color_classes
  loaded,       \* the instance has a collection loaded
  shown         \* colour of each class at the instance's last layout

styleVars == <<cc_hash, member_hash, cc_obj, loaded>>
allVars == <<vars, styleVars, shown>>

\* A calloc'ed class: every channel 0.
Zero == [r |-> 0, r2 |-> 0]

\* Mutant: the upper bound of the clamp forgotten.
Clamp255Low(v) == IF v < 0 THEN 0 ELSE v

\* "if (r < 0) r = 0; if (r > 255) r = 255;"
Clamp255(v) == IF v < 0 THEN 0 ELSE IF v > 255 THEN 255 ELSE v

\* The colour stored for the arguments (r, r2): only r is clamped.
Stored(r, r2) == [r |-> Clamp255(r), r2 |-> r2]

(***************************************************************************)
(* The member hash                                                         *)
(***************************************************************************)

\* Mutant: member_add prepending without taking the old entry out.
_edje_color_class_member_add_keeping_entry(h, e, c) ==
  HashAdd(h, c, <<e>> \o HashFind(h, c))

\* _edje_color_class_member_add: take the list out, prepend ed, put it back.
_edje_color_class_member_add(h, e, c) ==
  LET members == HashFind(h, c)
      h1 == IF members # <<>> THEN HashDel(h, c) ELSE h
  IN HashAdd(h1, c, <<e>> \o members)

\* _edje_color_class_member_del: take the list out, remove the first
\* occurrence of ed, put the list back unless it is now empty.
_edje_color_class_member_del(h, e, c) ==
  LET members == HashFind(h, c)
      rest == RemoveFirst(members, e)
  IN IF members = <<>> THEN h
     ELSE IF rest # <<>> THEN HashAdd(HashDel(h, c), c, rest)
     ELSE HashDel(h, c)

(***************************************************************************)
(* Resolution and layout                                                   *)
(***************************************************************************)

\* _edje_color_class_find: object scope, then process scope, then file scope.
_edje_color_class_find(e, c) ==
  IF cc_obj[e][c] # NoClass THEN cc_obj[e][c]
  ELSE IF cc_hash[c] # NoClass THEN cc_hash[c]
  ELSE FileColors[c]

\* What an instance laid out by this step shows: the classes as resolved
\* after the step, since every caller recalculates after its update.
Show ==
  shown' = [e \in Edjes |->
              IF e \in laid'
              THEN [c \in ColorClasses |-> _edje_color_class_find(e, c)']
              ELSE shown[e]]

\* "ed->dirty = 1; _edje_recalc(ed)" for every instance of S.
FanOut(S) ==
  /\ _edje_recalc(S, freeze)
  /\ UNCHANGED <<freeze, blockVars>>

(***************************************************************************)
(* Operations                                                              *)
(***************************************************************************)

\* edje_color_class_set: create the class (calloc'ed) if absent, clamp, and
\* return if the stored channels equal the new ones; otherwise store and
\* recalc every member, once per entry of its member list.
edje_color_class_set(c, r, r2) ==
  LET cur == IF cc_hash[c] = NoClass THEN Zero ELSE cc_hash[c]
      new == Stored(r, r2)
  IN /\ cc_hash' = [cc_hash EXCEPT ![c] = new]
     /\ FanOut(IF new = cur THEN {} ELSE ToSet(HashFind(member_hash, c)))
     /\ UNCHANGED <<member_hash, cc_obj, loaded>>
     /\ Show

\* edje_color_class_del: free the class and recalc every member.
edje_color_class_del(c) ==
  /\ cc_hash[c] # NoClass
  /\ cc_hash' = [cc_hash EXCEPT ![c] = NoClass]
  /\ FanOut(ToSet(HashFind(member_hash, c)))
  /\ UNCHANGED <<member_hash, cc_obj, loaded>>
  /\ Show

\* edje_object_color_class_set: update the instance's class of that name,
\* returning if unchanged, or append a new one; then recalc the instance.
edje_object_color_class_set(e, c, r, r2) ==
  /\ cc_obj[e][c] # Stored(r, r2)
  /\ cc_obj' = [cc_obj EXCEPT ![e][c] = Stored(r, r2)]
  /\ FanOut({e})
  /\ UNCHANGED <<cc_hash, member_hash, loaded>>
  /\ Show

\* edje_object_color_class_del: a class found is removed and the function
\* returns at once; the recalc after the loop runs only when none was found.
edje_object_color_class_del(e, c) ==
  /\ cc_obj' = [cc_obj EXCEPT ![e][c] = NoClass]
  /\ FanOut(IF cc_obj[e][c] = NoClass THEN {e} ELSE {})
  /\ UNCHANGED <<cc_hash, member_hash, loaded>>
  /\ Show

\* Loading a collection (edje_load.c): one _edje_color_class_member_add per
\* description naming a class, then a recalc.
EdjeLoad(e) ==
  /\ ~loaded[e]
  /\ loaded' = [loaded EXCEPT ![e] = TRUE]
  /\ member_hash' = FoldLeft(LAMBDA h, c : _edje_color_class_member_add(h, e, c),
                             member_hash, Descs[e])
  /\ FanOut({e})
  /\ UNCHANGED <<cc_hash, cc_obj>>
  /\ Show

\* Unloading: _edje_color_class_on_del for every part, which calls
\* _edje_color_class_member_del for its default and other descriptions.
_edje_color_class_on_del(e) ==
  /\ loaded[e]
  /\ loaded' = [loaded EXCEPT ![e] = FALSE]
  /\ member_hash' = FoldLeft(LAMBDA h, c : _edje_color_class_member_del(h, e, c),
                             member_hash, Descs[e])
  /\ FanOut({})
  /\ UNCHANGED <<cc_hash, cc_obj>>
  /\ Show

ColorInit ==
  /\ Init
  /\ cc_hash = [c \in ColorClasses |-> NoClass]
  /\ member_hash = <<>>
  /\ cc_obj = [e \in Edjes |-> [c \in ColorClasses |-> NoClass]]
  /\ loaded = [e \in Edjes |-> FALSE]
  /\ shown = [e \in Edjes |-> [c \in ColorClasses |-> NoClass]]

ColorNext ==
  \/ /\ FreezeNext
     /\ UNCHANGED styleVars
     /\ Show
  \/ \E c \in ColorClasses :
       \/ \E r \in ObjIn, r2 \in OutlineIn : edje_color_class_set(c, r, r2)
       \/ edje_color_class_del(c)
       \/ \E e \in Edjes :
            \/ \E r \in ObjIn, r2 \in OutlineIn :
                 edje_object_color_class_set(e, c, r, r2)
            \/ edje_object_color_class_del(e, c)
  \/ \E e \in Edjes : EdjeLoad(e) \/ _edje_color_class_on_del(e)

ColorSpec == ColorInit /\ [][ColorNext]_allVars

(***************************************************************************)
(* Properties                                                              *)
(***************************************************************************)

ColorTypeOK ==
  /\ TypeOK
  /\ cc_hash \in [ColorClasses -> [r : 0..255, r2 : Int] \cup {NoClass}]
  /\ cc_obj \in [Edjes -> [ColorClasses -> [r : 0..255, r2 : Int] \cup {NoClass}]]
  /\ member_hash \in Seq([key : ColorClasses, list : Seq(Edjes)])
  /\ loaded \in [Edjes -> BOOLEAN]

\* Occurrences of x in the sequence s.
Occurrences(s, x) == Cardinality({i \in DOMAIN s : s[i] = x})

\* edje_color_class_list: the key of every entry of the member hash, in
\* the order evas_hash_foreach visits them.
edje_color_class_list == HashKeys(member_hash)

\* The classes named by a description of a loaded instance.
ClassesInUse == UNION {ToSet(Descs[e]) : e \in {x \in Edjes : loaded[x]}}

\* MemberIndexExact: after any sequence of loads and unloads of instances
\* sharing classes (one instance naming a class in several descriptions),
\* edje_color_class_list names every class in use exactly once and no
\* other (spec 8), and the member list of a class holds each loaded
\* instance once per description naming the class and no unloaded one, so
\* a fan-out never reaches a freed Edje.  It rests on the remove-then-add
\* of _edje_color_class_member_add/_del over a hash that keeps duplicates.
MemberIndexExact ==
  /\ IsInjective(edje_color_class_list)
  /\ ToSet(edje_color_class_list) = ClassesInUse
  /\ \A c \in ColorClasses, e \in Edjes :
       Occurrences(HashFind(member_hash, c), e) =
         IF loaded[e] THEN Occurrences(Descs[e], c) ELSE 0

\* LayoutFresh: an active loaded instance shows, for every class its parts
\* use, the colour _edje_color_class_find resolves now: every path that
\* changes a resolution (process or object scope, set or delete) recalcs
\* the instances concerned, at once or at their thaw.
LayoutFresh ==
  \A e \in Edjes :
    loaded[e] /\ freeze[e] = 0 =>
      \A c \in ToSet(Descs[e]) : shown[e][c] = _edje_color_class_find(e, c)

\* ChannelsClamped: every stored channel lies in 0..255 (spec 8: each of
\* the twelve channels is stored as clamp(v, 0, 255)).
ChannelsClamped ==
  \A c \in ColorClasses :
    \A col \in {cc_hash[c]} \cup {cc_obj[e][c] : e \in Edjes} :
      col # NoClass => col.r \in 0..255 /\ col.r2 \in 0..255

=============================================================================
