------------------------------ MODULE EvasHash ------------------------------
(***************************************************************************)
(* The Evas_Hash operations edje_util.c uses on its member indexes, as     *)
(* evas_hash.c (outside src/) implements them: a bucket is a list that     *)
(* evas_hash_add prepends to without looking for the key, evas_hash_find   *)
(* returns the newest entry of a key and evas_hash_del(hash, key, data)    *)
(* with a key removes the newest entry of that key.  Duplicate keys are    *)
(* therefore possible, and a hash is a sequence of entries, newest first.  *)
(***************************************************************************)
EXTENDS SequencesExt

\* evas_hash_find: the list of the newest entry with key c, NULL (<<>>) if none.
HashFind(h, c) ==
  LET i == SelectInSeq(h, LAMBDA x : x.key = c)
  IN IF i = 0 THEN <<>> ELSE h[i].list

\* evas_hash_del(hash, key, data): drop the newest entry with key c.
HashDel(h, c) == RemoveFirstMatch(h, LAMBDA x : x.key = c)

\* evas_hash_add: a new entry in front, whatever entries c already has.
HashAdd(h, c, l) == <<[key |-> c, list |-> l]>> \o h

\* The keys a foreach over the hash visits, one per entry.
HashKeys(h) == [i \in DOMAIN h |-> h[i].key]

=============================================================================
