--------------------------- MODULE EdjeTextClass ----------------------------
(***************************************************************************)
(* The text-class registry of src/legacy/edje/src/lib/edje_util.c and its  *)
(* fan-out, composed with the freeze/dirty controller of EdjeFreeze.       *)
(*                                                                         *)
(*  - tc_hash: _edje_text_class_hash, the process-wide classes;            *)
(*  - tmember_hash: _edje_text_class_member_hash (see EvasHash);           *)
(*  - tc_obj: ed->text_classes, the per-instance classes;                  *)
(*  - tshown: the class each instance's text parts were last laid out      *)
(*    with, the value _edje_text_class_find returned at its last recalc;   *)
(*  - styled: the class each instance's textblock styles were last built   *)
(*    with by _edje_textblock_style_all_update (edje_textblock_styles.c,   *)
(*    outside src/), which resolves every class again and sets the style   *)
(*    of every textblock whatever the freeze depth.                        *)
(*                                                                         *)
(* A text class is a font (a name, "" or, at object scope only, NULL) and  *)
(* a size.  There is no file scope for text classes: _edje_text_class_find *)
(* looks at the object scope and then the process scope.                   *)
(***************************************************************************)
EXTENDS EdjeFreeze, EvasHash, FiniteSets

CONSTANTS
  TextClasses,  \* class names
  TDescs,       \* TDescs[e]: the text class of each text description of e
  FontIn,       \* the font names a caller passes, "" among them
  SizeIn,       \* the sizes a caller passes
  NoFont,       \* a NULL font
  NoClass       \* no class of that name at this scope

ASSUME TDescs \in [Edjes -> Seq(TextClasses)]

VARIABLES
  tc_hash,       \* _edje_text_class_hash
  tmember_hash,  \* _edje_text_class_member_hash
  tc_obj,        \* ed->text_classes
  loaded,        \* the instance has a collection loaded
  tshown,        \* class of each name at the instance's last layout
  styled         \* class of each name in the instance's textblock styles

textVars == <<tc_hash, tmember_hash, tc_obj, loaded>>
allVars == <<vars, textVars, tshown, styled>>

\* Mutant: the size stored as given.
ClampSizeMissing(size) == size

\* "if (size < 0) size = 0;"
ClampSize(size) == IF size < 0 THEN 0 ELSE size

\* Mutant: the list prepended to without taking the old entry out.
_edje_text_class_member_add_keeping_entry(h, e, c) ==
  HashAdd(h, c, <<e>> \o HashFind(h, c))

\* _edje_text_class_member_add: take the list out, prepend ed, put it back.
_edje_text_class_member_add(h, e, c) ==
  LET members == HashFind(h, c)
      h1 == IF members # <<>> THEN HashDel(h, c) ELSE h
  IN HashAdd(h1, c, <<e>> \o members)

\* Mutant: the emptied list put back into the hash.
_edje_text_class_member_del_keeping_empty(h, e, c) ==
  LET members == HashFind(h, c)
  IN IF members = <<>> THEN h
     ELSE HashAdd(HashDel(h, c), c, RemoveFirst(members, e))

\* _edje_text_class_member_del: take the list out, remove the first
\* occurrence of ed, put the list back unless it is now empty.
_edje_text_class_member_del(h, e, c) ==
  LET members == HashFind(h, c)
      rest == RemoveFirst(members, e)
  IN IF members = <<>> THEN h
     ELSE IF rest # <<>> THEN HashAdd(HashDel(h, c), c, rest)
     ELSE HashDel(h, c)

\* _edje_text_class_find: object scope, then process scope.
_edje_text_class_find(e, c) ==
  IF tc_obj[e][c] # NoClass THEN tc_obj[e][c] ELSE tc_hash[c]

\* The resolution of every class for instance e, after the step.
Resolved(e) == [c \in TextClasses |-> _edje_text_class_find(e, c)']

\* Text parts of the instances laid out by the step take the classes as
\* resolved after it; the textblock styles of the instances of S are rebuilt.
\* Written last in an action, once every variable they read is primed.
Refresh(S) ==
  /\ tshown' = [e \in Edjes |-> IF e \in laid' THEN Resolved(e) ELSE tshown[e]]
  /\ styled' = [e \in Edjes |-> IF e \in S THEN Resolved(e) ELSE styled[e]]

\* Mutant: the member loop recalcs without rebuilding the styles.
TextFanOutWithoutStyles(S) ==
  /\ _edje_recalc(S, freeze)
  /\ UNCHANGED <<freeze, blockVars>>
  /\ Refresh({})

\* The member loop of edje_text_class_set: "ed->dirty = 1;
\* _edje_textblock_style_all_update(ed); _edje_recalc(ed);" for each member.
TextFanOut(S) ==
  /\ _edje_recalc(S, freeze)
  /\ UNCHANGED <<freeze, blockVars>>
  /\ Refresh(S)

(***************************************************************************)
(* Operations                                                              *)
(***************************************************************************)

\* edje_text_class_set: a NULL font is "", the size is clamped.  An absent
\* class is created with the font and size and the function returns; an
\* existing one equal to them returns; otherwise it is updated and every
\* member has its styles rebuilt and is recalculated.
edje_text_class_set(c, font, size) ==
  LET new == [font |-> IF font = NoFont THEN "" ELSE font,
              size |-> ClampSize(size)]
  IN /\ tc_hash[c] # new
     /\ tc_hash' = [tc_hash EXCEPT ![c] = new]
     /\ UNCHANGED <<tmember_hash, tc_obj, loaded>>
     /\ IF tc_hash[c] = NoClass
        THEN /\ UNCHANGED <<freeze, dirty, recalc, blockVars>>
             /\ laid' = {}
             /\ Refresh({})
        ELSE TextFanOut(ToSet(HashFind(tmember_hash, c)))

\* edje_object_text_class_set: the size is clamped, the font may be NULL.
\* A class of that name equal to the arguments returns; a different one is
\* updated and the instance recalculated; an absent one is appended, the
\* styles of the instance are rebuilt and it is recalculated.
edje_object_text_class_set(e, c, font, size) ==
  LET new == [font |-> font, size |-> ClampSize(size)]
  IN /\ tc_obj[e][c] # new
     /\ tc_obj' = [tc_obj EXCEPT ![e][c] = new]
     /\ _edje_recalc({e}, freeze)
     /\ UNCHANGED <<freeze, blockVars, tc_hash, tmember_hash, loaded>>
     /\ Refresh(IF tc_obj[e][c] = NoClass THEN {e} ELSE {})

\* Loading a collection (edje_load.c): one _edje_text_class_member_add per
\* text description naming a class, the styles built, a recalc.
EdjeLoad(e) ==
  /\ ~loaded[e]
  /\ loaded' = [loaded EXCEPT ![e] = TRUE]
  /\ tmember_hash' = FoldLeft(LAMBDA h, c : _edje_text_class_member_add(h, e, c),
                              tmember_hash, TDescs[e])
  /\ _edje_recalc({e}, freeze)
  /\ UNCHANGED <<freeze, blockVars, tc_hash, tc_obj>>
  /\ Refresh({e})

\* Unloading a collection (edje_load.c): one _edje_text_class_member_del
\* per text description naming a class.
EdjeUnload(e) ==
  /\ loaded[e]
  /\ loaded' = [loaded EXCEPT ![e] = FALSE]
  /\ tmember_hash' = FoldLeft(LAMBDA h, c : _edje_text_class_member_del(h, e, c),
                              tmember_hash, TDescs[e])
  /\ laid' = {}
  /\ UNCHANGED <<freeze, dirty, recalc, blockVars, tc_hash, tc_obj>>
  /\ Refresh({})

TextInit ==
  /\ Init
  /\ tc_hash = [c \in TextClasses |-> NoClass]
  /\ tmember_hash = <<>>
  /\ tc_obj = [e \in Edjes |-> [c \in TextClasses |-> NoClass]]
  /\ loaded = [e \in Edjes |-> FALSE]
  /\ tshown = [e \in Edjes |-> [c \in TextClasses |-> NoClass]]
  /\ styled = [e \in Edjes |-> [c \in TextClasses |-> NoClass]]

TextNext ==
  \/ /\ FreezeNext
     /\ UNCHANGED textVars
     /\ Refresh({})
  \/ \E c \in TextClasses, font \in FontIn \cup {NoFont}, size \in SizeIn :
       \/ edje_text_class_set(c, font, size)
       \/ \E e \in Edjes : edje_object_text_class_set(e, c, font, size)
  \/ \E e \in Edjes : EdjeLoad(e) \/ EdjeUnload(e)

TextSpec == TextInit /\ [][TextNext]_allVars

(***************************************************************************)
(* Properties                                                              *)
(***************************************************************************)

TextClass == [font : FontIn \cup {"", NoFont}, size : Nat]

TextTypeOK ==
  /\ TypeOK
  /\ tc_hash \in [TextClasses -> TextClass \cup {NoClass}]
  /\ tc_obj \in [Edjes -> [TextClasses -> TextClass \cup {NoClass}]]
  /\ tmember_hash \in Seq([key : TextClasses, list : Seq(Edjes)])
  /\ loaded \in [Edjes -> BOOLEAN]

\* Occurrences of x in the sequence s.
Occurrences(s, x) == Cardinality({i \in DOMAIN s : s[i] = x})

\* TextMemberIndexExact: whatever the order of loads and unloads of
\* instances sharing text classes, the text member hash has one entry per
\* class some loaded instance uses and none for another class, and that
\* entry lists each loaded instance once per text description naming the
\* class and no unloaded instance (_edje_text_class_member_add/_del).
TextMemberIndexExact ==
  /\ IsInjective(HashKeys(tmember_hash))
  /\ \A i \in DOMAIN tmember_hash : tmember_hash[i].list # <<>>
  /\ \A c \in TextClasses, e \in Edjes :
       Occurrences(HashFind(tmember_hash, c), e) =
         IF loaded[e] THEN Occurrences(TDescs[e], c) ELSE 0

\* The instances that use class c.
Users(c) == {e \in Edjes : loaded[e] /\ c \in ToSet(TDescs[e])}

\* GlobalUpdateRestyles: when edje_text_class_set changes a process class
\* that already existed, every loaded instance using it has its textblock
\* styles rebuilt with the class as it now resolves, frozen or not (the
\* fan-out through the member hash, spec 4.1).
GlobalUpdateRestyles ==
  [][\A c \in TextClasses :
       tc_hash[c] # NoClass /\ tc_hash'[c] # tc_hash[c] =>
         \A e \in Users(c) : styled'[e][c] = _edje_text_class_find(e, c)'
    ]_allVars

\* ObjectUpdateRestyles: a call that changes one of an instance's own text
\* classes leaves the instance's textblock styles built with the class as
\* it now resolves, as the creation path of edje_object_text_class_set
\* does with _edje_textblock_style_all_update.
ObjectUpdateRestyles ==
  [][\A e \in Edjes, c \in TextClasses :
       loaded[e] /\ c \in ToSet(TDescs[e]) /\ tc_obj'[e][c] # tc_obj[e][c] =>
         styled'[e][c] = _edje_text_class_find(e, c)'
    ]_allVars

\* TextFresh: an active loaded instance lays out its text parts and builds
\* its textblock styles with every class it uses as it resolves now.
TextFresh ==
  \A e \in Edjes :
    loaded[e] /\ freeze[e] = 0 =>
      \A c \in ToSet(TDescs[e]) :
        /\ tshown[e][c] = _edje_text_class_find(e, c)
        /\ styled[e][c] = _edje_text_class_find(e, c)

=============================================================================
