----------------------------- MODULE EdjeMinCalc -----------------------------
(***************************************************************************)
(* The minimum-size solver edje_object_size_min_calc of                    *)
(* src/legacy/edje/src/lib/edje_util.c, on one Edje instance.              *)
(*                                                                         *)
(* The solver lays the instance out at size (ed->w, ed->h), reads the      *)
(* slack ep->w - ep->req.w and ep->h - ep->req.h of every part, and grows  *)
(* the instance by the largest slack until no part has any.  When the size *)
(* passes the ceiling (4000 in the code) it starts again once with the     *)
(* maxima no longer reset between passes.                                  *)
(*                                                                         *)
(* The geometry of a part at a size is computed by edje_calc.c, outside    *)
(* src/; it is modelled from the spec (4.3) as the slack functions SlackW  *)
(* and SlackH of each part, and the flags of its chosen description.  The  *)
(* loop runs on one thread without suspension, so each pass of the while  *)
(* loop is one step; a caller sees only the call and its return.           *)
(*                                                                         *)
(* ed->w and ed->h are ints; MaxCoord bounds how far the model follows a   *)
(* growing size, and a solver stopped at MaxCoord is one still looping.    *)
(***************************************************************************)
EXTENDS Integers, SequencesExt

CONSTANTS
  Collections,   \* the collections an instance may have loaded
  PartsOf,       \* PartsOf[c]: ed->parts of collection c, in order
  NoCollection,  \* ed->collection == NULL
  SlackW(_, _, _), \* SlackW(p, w, h): ep->w - ep->req.w of p laid out at w x h
  SlackH(_, _, _), \* SlackH(p, w, h): ep->h - ep->req.h
  Desc,          \* Desc[p]: fixed.w, fixed.h and the textblock flag of the
                 \* chosen description of p
  Ceiling,       \* the 4000 of the divergence guard
  MaxCoord,      \* bound on the size the model follows
  Sizes,         \* the sizes a caller resizes the instance to
  NoPart,        \* pep == NULL
  NoResult       \* the solver has not returned yet

Parts == UNION {ToSet(PartsOf[c]) : c \in Collections}

ASSUME /\ PartsOf \in [Collections -> Seq(Parts)]
       /\ \A p \in Parts : Desc[p] \in [fixed_w : BOOLEAN, fixed_h : BOOLEAN,
                                        textblock_no_min_x : BOOLEAN]
       /\ Ceiling \in Nat /\ MaxCoord \in Nat /\ Ceiling < MaxCoord

VARIABLES
  collection,    \* ed->collection
  w, h,          \* ed->w, ed->h
  pw, ph,        \* the caller's size, saved by the solver
  maxw, maxh,    \* the largest slack of the pass
  ok,            \* the loop goes on
  reset_maxwh,   \* the maxima are reset at every pass
  pep,           \* the last part that raised a maximum
  calc_only,     \* ed->calc_only
  min,           \* <<ed->min.w, ed->min.h>>
  pc,            \* "idle" between calls, "loop" inside the while loop
  ret,           \* <<*minw, *minh>> of the last call
  asked          \* history: the size the caller last gave the instance

vars == <<collection, w, h, pw, ph, maxw, maxh, ok, reset_maxwh, pep,
          calc_only, min, pc, ret, asked>>

\* Mutant: the textblock height skipped whether or not its width grew.
ScanPartSkippingTextblock(ww, hh, acc, p) ==
    LET sw == SlackW(p, ww, hh)
        sh == SlackH(p, ww, hh)
        didw == ~Desc[p].fixed_w /\ sw > acc.maxw
        a1 == IF didw THEN [acc EXCEPT !.maxw = sw, !.ok = TRUE, !.pep = p]
              ELSE acc
        doh == /\ ~Desc[p].fixed_h
               /\ ~Desc[p].textblock_no_min_x
               /\ sh > a1.maxh
    IN IF doh THEN [a1 EXCEPT !.maxh = sh, !.ok = TRUE, !.pep = p] ELSE a1

(***************************************************************************)
(* One scan of ed->parts at size ww x hh, from the maxima acc.maxw and     *)
(* acc.maxh.  A part raises the width maximum unless its description is    *)
(* fixed in width; it raises the height maximum unless fixed in height, or *)
(* a textblock without min_x whose width has just raised the maximum.      *)
(***************************************************************************)
ScanPart(ww, hh, acc, p) ==
    LET sw == SlackW(p, ww, hh)
        sh == SlackH(p, ww, hh)
        didw == ~Desc[p].fixed_w /\ sw > acc.maxw
        a1 == IF didw THEN [acc EXCEPT !.maxw = sw, !.ok = TRUE, !.pep = p]
              ELSE acc
        doh == /\ ~Desc[p].fixed_h
               /\ ~(Desc[p].textblock_no_min_x /\ didw)
               /\ sh > a1.maxh
    IN IF doh THEN [a1 EXCEPT !.maxh = sh, !.ok = TRUE, !.pep = p] ELSE a1

Scan(ww, hh, acc) == FoldLeft(LAMBDA a, p : ScanPart(ww, hh, a, p), acc, PartsOf[collection])

\* Mutant: the size left as it is at "again".
AgainKeepingSize ==
  /\ w' = w /\ h' = h
  /\ maxw' = 0 /\ maxh' = 0
  /\ ok' = TRUE

\* The "again:" label: size and maxima zeroed, the loop entered.
Again ==
  /\ w' = 0 /\ h' = 0
  /\ maxw' = 0 /\ maxh' = 0
  /\ ok' = TRUE

(***************************************************************************)
(* Operations                                                              *)
(***************************************************************************)

\* edje_object_size_min_calc, up to the loop: without a collection it
\* returns 0 x 0; otherwise it saves the caller's size and goes to again.
edje_object_size_min_calc ==
  /\ pc = "idle"
  /\ IF collection = NoCollection
     THEN /\ ret' = <<0, 0>>
          /\ UNCHANGED <<w, h, pw, ph, maxw, maxh, ok, reset_maxwh, pep,
                         calc_only, min, pc>>
     ELSE /\ reset_maxwh' = TRUE
          /\ calc_only' = TRUE
          /\ pw' = w /\ ph' = h
          /\ Again
          /\ pc' = "loop"
          /\ UNCHANGED <<pep, min, ret>>
  /\ UNCHANGED <<collection, asked>>

\* Mutant: the retry taken without clearing reset_maxwh.
RetryKeepingReset(rst) == rst

\* "reset_maxwh = 0; goto again;"
Retry(rst) == FALSE

\* One pass of "while (ok)": recalc at ed->w x ed->h, reset the maxima if
\* reset_maxwh, scan the parts, grow by the maxima if a part had slack; past
\* the ceiling, go to again once with reset_maxwh cleared.
MinCalcPass ==
  LET acc0 == [maxw |-> IF reset_maxwh THEN 0 ELSE maxw,
               maxh |-> IF reset_maxwh THEN 0 ELSE maxh,
               ok |-> FALSE, pep |-> NoPart]
      acc == Scan(w, h, acc0)
      nw == IF acc.ok THEN w + acc.maxw ELSE w
      nh == IF acc.ok THEN h + acc.maxh ELSE h
  IN /\ pc = "loop" /\ ok
     /\ nw <= MaxCoord /\ nh <= MaxCoord
     /\ pep' = acc.pep
     /\ IF (nw > Ceiling \/ nh > Ceiling) /\ reset_maxwh
        THEN /\ reset_maxwh' = Retry(reset_maxwh)
             /\ Again
        ELSE /\ w' = nw /\ h' = nh
             /\ maxw' = acc.maxw /\ maxh' = acc.maxh
             /\ ok' = acc.ok
             /\ UNCHANGED reset_maxwh
     /\ UNCHANGED <<collection, pw, ph, calc_only, min, pc, ret, asked>>

\* Mutant: the caller's size not restored after the loop.
MinCalcReturnKeepingSize ==
  /\ pc = "loop" /\ ~ok
  /\ min' = <<w, h>>
  /\ ret' = <<w, h>>
  /\ calc_only' = FALSE
  /\ pc' = "idle"
  /\ UNCHANGED <<collection, w, h, pw, ph, maxw, maxh, ok, reset_maxwh, pep,
                 asked>>

\* After the loop: the size found is ed->min and returned, the caller's
\* size restored and the instance recalculated at it.
MinCalcReturn ==
  /\ pc = "loop" /\ ~ok
  /\ min' = <<w, h>>
  /\ ret' = <<w, h>>
  /\ w' = pw /\ h' = ph
  /\ calc_only' = FALSE
  /\ pc' = "idle"
  /\ UNCHANGED <<collection, pw, ph, maxw, maxh, ok, reset_maxwh, pep, asked>>

\* evas_object_resize by the embedding container between calls.
Resize(nw, nh) ==
  /\ pc = "idle"
  /\ w' = nw /\ h' = nh
  /\ asked' = <<nw, nh>>
  /\ UNCHANGED <<collection, pw, ph, maxw, maxh, ok, reset_maxwh, pep,
                 calc_only, min, pc, ret>>

MinCalcInit ==
  /\ collection \in Collections \cup {NoCollection}
  /\ w \in Sizes /\ h \in Sizes
  /\ pw = 0 /\ ph = 0
  /\ maxw = 0 /\ maxh = 0
  /\ ok = FALSE
  /\ reset_maxwh = TRUE
  /\ pep = NoPart
  /\ calc_only = FALSE
  /\ min = <<0, 0>>
  /\ pc = "idle"
  /\ ret = NoResult
  /\ asked = <<w, h>>

MinCalcNext ==
  \/ edje_object_size_min_calc
  \/ MinCalcPass
  \/ MinCalcReturn
  \/ \E nw, nh \in Sizes : Resize(nw, nh)

\* The solver runs to its end once called: its passes are weakly fair.
MinCalcSpec ==
  /\ MinCalcInit /\ [][MinCalcNext]_vars
  /\ WF_vars(MinCalcPass) /\ WF_vars(MinCalcReturn)

(***************************************************************************)
(* Properties                                                              *)
(***************************************************************************)

\* A part fits at size ww x hh: no slack on an axis it does not fix.
Fits(p, ww, hh) ==
  /\ ~Desc[p].fixed_w => SlackW(p, ww, hh) <= 0
  /\ ~Desc[p].fixed_h => SlackH(p, ww, hh) <= 0

\* ConvergedMinFits: when the first pass ends without reaching the
\* ceiling, every part fits at the size returned, a textblock whose width
\* grew in an earlier pass included (the didw skip of the height only
\* defers the height to the next pass, it never drops it).
ConvergedMinFits ==
  pc = "idle" /\ collection # NoCollection /\ ret # NoResult /\ reset_maxwh =>
    \A p \in ToSet(PartsOf[collection]) : Fits(p, ret[1], ret[2])

\* CallerSizeKept: between calls the instance has the size its caller last
\* gave it: the solver resizes it to 0 x 0 at "again", grows it pass by
\* pass, starts again on the retry, and must still leave it at the size it
\* saved before the first "again" (edje_object_size_min_calc, lines 1042
\* and 1128).
CallerSizeKept == pc = "idle" => <<w, h>> = asked

\* MinCalcIdempotent: a call returns what the previous call returned, as
\* nothing here changes the collection, whatever the caller resized the
\* instance to in between and whether or not the previous call needed the
\* retry (spec 8: calling the solver twice in a row on an unchanged
\* collection yields the same minimum).
MinCalcIdempotent ==
  [][pc = "loop" /\ pc' = "idle" /\ ret # NoResult => ret' = ret]_vars

\* MinCalcReturns: a call of edje_object_size_min_calc returns: the
\* retry with reset_maxwh cleared ends the runaway growth of a part the
\* first pass met, and the solver accepts the size it reaches (spec 4.3
\* step 4, spec 7: "it always produces a usable result").
MinCalcReturns == pc = "loop" ~> pc = "idle"

=============================================================================
