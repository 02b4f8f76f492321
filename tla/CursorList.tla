------------------------------- MODULE CursorList -------------------------------
(***************************************************************************)
(* What a dl_list_t of src/src/common/dl_list.c promises: a sequence of    *)
(* nodes with a current one, and iterations, of which a mark says where    *)
(* they are.                                                               *)
(***************************************************************************)
EXTENDS Integers, SequencesExt

CONSTANTS
  NULL,  \* no node
  END    \* the mark of an iteration that has ended

VARIABLES
  items,  \* the nodes in their order
  crnt,   \* the current one, NULL when there are none
  mark    \* the node the iteration has come to, NULL before its first step

Init == items = << >> /\ crnt = NULL /\ mark = NULL

IndexOf(n) == CHOOSE k \in DOMAIN items : items[k] = n

Size == Len(items)

(* A node is put in at place k; the first one becomes the current one. *)
Put(n, k) ==
  /\ items' = InsertAt(items, k, n)
  /\ crnt' = IF items = << >> THEN n ELSE crnt
  /\ UNCHANGED mark

AddLast(n) == Put(n, Size + 1)
AddFirst(n) == Put(n, 1)

(* "insert after the current node" *)
Insert(n) == items # << >> /\ Put(n, IndexOf(crnt) + 1)

(* The node behind the deleted one is the current one, or the last one. *)
Delete ==
  /\ Size > 1
  /\ items' = RemoveAt(items, IndexOf(crnt))
  /\ crnt' = items'[IF IndexOf(crnt) < Size THEN IndexOf(crnt) ELSE Size - 1]
  /\ UNCHANGED mark

(* The node in front, or the one behind, becomes the current one. *)
Move(way) ==
  /\ IndexOf(crnt) + way \in 1 .. Size
  /\ crnt' = items[IndexOf(crnt) + way]
  /\ UNCHANGED <<items, mark>>

Reset(k) == crnt' = items[k] /\ UNCHANGED <<items, mark>>

(* An iteration gets the nodes in their order, and ends behind the last. *)
Iterate ==
  /\ mark' = IF mark = NULL THEN Head(items)
             ELSE IF mark = Last(items) THEN END ELSE items[IndexOf(mark) + 1]
  /\ UNCHANGED <<items, crnt>>

Restart == mark' = NULL /\ UNCHANGED <<items, crnt>>
================================================================================
