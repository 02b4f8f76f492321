----------------------------- MODULE PointerStack -----------------------------
(***************************************************************************)
(* What the pointer list of src/src/common/pointer_list.c promises as a    *)
(* stack: pointers come out in the opposite order they went in, whatever   *)
(* is read in between, and sorting only exchanges neighbours.              *)
(***************************************************************************)
EXTENDS Integers, Sequences

CONSTANTS
  Ptr,   \* the pointers
  NULL,  \* none
  JUNK,  \* what is found outside of the items
  Rank   \* the order of the comparison function

VARIABLES
  items,  \* the pointers on the stack
  ret     \* the answer of the last call

vars == <<items, ret>>

Init == items = << >> /\ ret = NULL

Push(p) == items' = Append(items, p) /\ UNCHANGED ret

Pop ==
  \/ /\ items = << >>
     /\ ret' = NULL
     /\ UNCHANGED items
  \/ \E rest \in {SubSeq(items, 1, Len(items) - 1)}, p \in Ptr :
       /\ items = Append(rest, p)
       /\ items' = rest
       /\ ret' = p

(* A call that only looks; with an index below zero it may find anything.   *)
Look ==
  /\ ret' \in Ptr \union {NULL, JUNK}
  /\ UNCHANGED items

(* Two neighbours in the wrong order are exchanged. *)
Exchange ==
  /\ \E k \in 1 .. Len(items) - 1 :
       /\ Rank[items[k]] > Rank[items[k + 1]]
       /\ items' = [items EXCEPT ![k] = items[k + 1], ![k + 1] = items[k]]
  /\ UNCHANGED ret

Next == (\E p \in Ptr : Push(p)) \/ Pop \/ Look \/ Exchange

Spec == Init /\ [][Next]_vars
================================================================================
