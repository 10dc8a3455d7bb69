---------------------------- MODULE RequestVars ----------------------------
(***************************************************************************)
(* The lookups behind --request-info: request_var_impl finds $_SERVER in   *)
(* the table of globals, ht_get_string finds a string in $_SERVER. Both    *)
(* scan the buckets of a zend_array in order, without its hash.            *)
(*                                                                         *)
(* A bucket is its key, the tag of its zval, what a reference refers to,   *)
(* and the value. A bucket whose key is null or cannot be read has a key   *)
(* nobody asks for; so has one whose key is cut, for those asked for are   *)
(* short.                                                                  *)
(***************************************************************************)
EXTENDS Naturals, SequencesExt, FiniteSetsExt

CONSTANTS
  BucketMax,   \* buckets looked at, 4096
  Cut,         \* what is read of a zend_string: MAX_STR_LEN bytes at most, as UTF-8
  NoValue      \* the lookup finds nothing

Tags == {"undef", "string", "array", "reference", "other"}

Bucket(Keys, Values) ==
  [key : Keys, tag : Tags, inner : Tags, val : Values]

\* A zval with its reference, if it is one, followed.
Deref(b) == IF b.tag = "reference" THEN b.inner ELSE b.tag

Scanned(table) == SubSeq(table, 1, Min({Len(table), BucketMax}))

\* Is there a _SERVER array to look into? A deleted bucket is not passed over, and
\* what a reference refers to is taken for an array.
FindServer(globals) ==
  LET i == SelectInSeq(Scanned(globals), LAMBDA b : b.key = "_SERVER")
  IN  i > 0 /\ globals[i].tag \in {"array", "reference"}

\* Mutant: a deleted bucket that still has its key is taken for the entry.
AnyBucket(b, want_key) == b.key = want_key

Matches(b, want_key) == b.tag # "undef" /\ b.key = want_key

HtGetString(table, want_key) ==
  LET i == SelectInSeq(Scanned(table), LAMBDA b : Matches(b, want_key))
  IN  IF i > 0 /\ Deref(table[i]) = "string" THEN Cut[table[i].val] ELSE NoValue

(***************************************************************************)
(* What PHP itself would answer, cut: the one live entry of the key.       *)
(***************************************************************************)
Live(table, key) == {b \in ToSet(table) : b.tag # "undef" /\ b.key = key}

TrueServer(globals) == \E b \in Live(globals, "_SERVER") : Deref(b) = "array"

TrueValue(table, key) ==
  LET entries == {b \in Live(table, key) : Deref(b) = "string"}
  IN  IF entries = {} THEN NoValue ELSE Cut[(CHOOSE b \in entries : TRUE).val]

\* $_SERVER was unset, and its bucket still has the key.
Unset(globals) == \E b \in ToSet(globals) : b.tag = "undef" /\ b.key = "_SERVER"

\* The tables PHP can have: a key has at most one live bucket.
IsTable(table) ==
  /\ table \in Seq(ToSet(table))
  /\ \A i, j \in 1..Len(table) :
       table[i].tag # "undef" /\ table[j].tag # "undef" /\ table[i].key = table[j].key
         => i = j

\* A $_SERVER that is a reference refers to an array.
IsGlobals(table) ==
  /\ IsTable(table)
  /\ \A b \in ToSet(table) : b.key = "_SERVER" /\ b.tag = "reference" => b.inner = "array"
=============================================================================
