--------------------------- MODULE PlanProperties ---------------------------
(***************************************************************************)
(* The properties of a plan node (core/src/plan_properties.rs): a sequence *)
(* of [key, value, typed], typed FALSE for the Custom variant that keeps a *)
(* value its key's type could not be read from.                            *)
(***************************************************************************)
EXTENDS Integers, Sequences, SequencesExt

(* A printed value: what was printed and whether it reads as a number.     *)
Number(n) == [text |-> n, numeric |-> TRUE]
Text(s) == [text |-> s, numeric |-> FALSE]

canonical(key) ==
  CASE key = "Exact Heap Blocks" -> "Heap Blocks: exact"
    [] key = "Lossy Heap Blocks" -> "Heap Blocks: lossy"
    [] key = "Hash Batches" -> "Batches"
    [] key = "Original Hash Batches" -> "Original Batches"
    [] key = "Hash Buckets" -> "Buckets"
    [] key = "Original Hash Buckets" -> "Original Buckets"
    [] OTHER -> key

NumericKeys ==
  {"Workers Planned", "Workers Launched", "Rows Removed by Filter",
   "Rows Removed by Index Recheck", "Rows Removed by Join Filter", "Heap Blocks: exact",
   "Heap Blocks: lossy", "Heap Fetches", "Loops", "Batches"}

TextKeys ==
  {"Output", "Index Cond", "Filter", "Join Filter", "Recheck Cond", "Hash Cond", "Merge Cond",
   "Sort Key", "Group Key", "Relation Name", "Index Name", "Alias", "Cache Key", "Cache Mode",
   "Sort Method", "Sort Space Used", "Sort Space Type", "Function", "Subplan Name",
   "One-Time Filter", "Peak Memory Usage"}

(* Whether the value has the type of the key's variant.                    *)
IsTyped(key, value) ==
  \/ key \in TextKeys
  \/ key \in NumericKeys /\ value.numeric
  \/ key = "Inner Unique" /\ value.text \in {"true", "false"}

from_key_value_as_printed(key, value) ==
  [key |-> key, value |-> value.text, typed |-> IsTyped(key, value)]

from_key_value(key, value) ==
  [key |-> canonical(key), value |-> value.text, typed |-> IsTyped(canonical(key), value)]

(* set removes the properties of the key as given, and appends the one     *)
(* under the canonical key.                                                *)
set(properties, key, value) ==
  Append(SelectSeq(properties, LAMBDA p : p.key # key), from_key_value(key, value))

(* get finds the first; a map built from the sequence keeps the last.      *)
Positions(properties, key) == {i \in 1 .. Len(properties) : properties[i].key = key}

get(properties, key) ==
  LET found == Positions(properties, key)
  IN IF found = {} THEN <<>>
     ELSE <<properties[CHOOSE i \in found : \A j \in found : i <= j].value>>

to_hashmap(properties, key) ==
  LET found == Positions(properties, key)
  IN IF found = {} THEN <<>>
     ELSE <<properties[CHOOSE i \in found : \A j \in found : j <= i].value>>

(* The typed getters (rows_removed_by_filter, batches, ...): the first     *)
(* property of that variant.                                               *)
typed_getter(properties, key) ==
  get(SelectSeq(properties, LAMBDA p : p.typed), key)
=============================================================================
