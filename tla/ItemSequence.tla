------------------------------ MODULE ItemSequence ------------------------------
(***************************************************************************)
(* What the calls of src/src/common/array.c promise of an array_t: it is a *)
(* sequence of items, in which a search finds an item if there is an equal *)
(* one.  The places are counted from 0 on.                                 *)
(***************************************************************************)
EXTENDS Integers, FiniteSets, SequencesExt

CONSTANTS
  Item,  \* the items
  Rank   \* the comparison function

VARIABLES
  items,  \* the contents
  found   \* what the last search answered: the place, or -1

Init == items = << >> /\ found = -1

Keep == UNCHANGED found

Splice(k, s) == SubSeq(items, 1, k) \o s \o SubSeq(items, k + 1, Len(items))

(* "Insert an array into another array at the given index." *)
Insert(s, k) == items' = Splice(k, s) /\ Keep

(* "Delete a single data item from the array at the given index."  The       *)
(* place behind the last item stands for the last one.                       *)
Delete(k) == items' = RemoveAt(items, IF k = Len(items) THEN k ELSE k + 1) /\ Keep

(* "Make the array empty" *)
Empty == items' = << >> /\ Keep

(* "Swap the data items at the given indexes." *)
Exchange(j, k) ==
  items' = [items EXCEPT ![j + 1] = items[k + 1], ![k + 1] = items[j + 1]] /\ Keep

InOrder(s) == \A j, k \in DOMAIN s : j < k => Rank[s[j]] <= Rank[s[k]]

Count(s, x) == Cardinality({k \in DOMAIN s : s[k] = x})

Sorted(s) == InOrder(s) /\ Len(s) = Len(items) /\ \A x \in Item : Count(s, x) = Count(items, x)

(* "Sort the array according to the comp callback" *)
Sort == Sorted(items') /\ Keep

(* A search may sort; it answers the place of what it finds, "or -1 if not   *)
(* found".                                                                   *)
Find(key) ==
  /\ Sorted(items')
  /\ LET equal == {k \in DOMAIN items' : Rank[items'[k]] = Rank[key]}
     IN  IF equal = {} THEN found' = -1 ELSE found' + 1 \in equal
================================================================================
