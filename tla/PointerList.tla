------------------------------ MODULE PointerList ------------------------------
(***************************************************************************)
(* The list of pointers that every other container of the program is built *)
(* on: src/src/common/pointer_list.c.  Sorting and searching take a step   *)
(* for each comparison; the other calls are one step each.                 *)
(*                                                                         *)
(* The comparison function of a list is Rank: comp_func(p, q) is positive  *)
(* when Rank[p] > Rank[q].  A list is sorted and searched with the same    *)
(* one, as string_list.c does.                                             *)
(***************************************************************************)
EXTENDS Integers

CONSTANTS
  Ptr,      \* the pointers that are stored
  NULL,     \* no pointer
  JUNK,     \* what is in memory nobody has written
  Rank,     \* the order of the comparison function
  InitCap,  \* the capacity of a new list
  MaxLen    \* bound: how long a list may get

ASSUME PointerAssumption ==
  /\ Rank \in [Ptr -> Int]
  /\ NULL \notin Ptr /\ JUNK \notin Ptr
  /\ InitCap \in Nat \ {0}
  /\ MaxLen \in Nat

VARIABLES
  buffer,     \* lst->buffer, a function on 0 .. cap - 1
  len,        \* lst->len
  cap,        \* lst->cap
  is_sorted,  \* lst->is_sorted
  ret,        \* the pointer the last call has returned
  post,       \* the mark of an iteration
  pc,         \* "idle", or in which loop a call is: "sort", "find"
  step, i,    \* of sort_ptr_list
  key, low, high,  \* of find_ptr_list_idx
  found       \* the index the last search has returned

list == <<buffer, len, cap, is_sorted>>
sorting == <<step, i>>
finding == <<key, low, high>>
vars == <<list, ret, post, pc, sorting, finding, found>>

Cell == Ptr \union {NULL, JUNK}

(* create_ptr_list: the memory comes zeroed. *)
Init ==
  /\ buffer = [k \in 0 .. InitCap - 1 |-> NULL]
  /\ len = 0
  /\ cap = InitCap
  /\ is_sorted = FALSE
  /\ ret = NULL
  /\ post = 0
  /\ pc = "idle"
  /\ step = 0 /\ i = 0
  /\ key = NULL /\ low = 0 /\ high = -1
  /\ found = -1

Idle == pc = "idle" /\ UNCHANGED <<pc, sorting, finding>>

-------------------------------------------------------------------------------
(* Variant: the items are lost when the buffer grows. *)
EnlargedLosing(c) == [k \in 0 .. c - 1 |-> JUNK]

(* _REALLOC_ARRAY: the contents are kept, what is new is not cleared. *)
Enlarged(c) == [k \in 0 .. c - 1 |-> IF k < cap THEN buffer[k] ELSE JUNK]

(* Variant: the flag is not reset. *)
AppendStaysSorted(p) ==
  /\ Idle
  /\ len < MaxLen
  /\ cap' = IF len + 1 > cap THEN 2 * cap ELSE cap
  /\ buffer' = [Enlarged(cap') EXCEPT ![len] = p]
  /\ len' = len + 1
  /\ UNCHANGED <<is_sorted, ret, post, found>>

(* Variant: the buffer grows one item too late. *)
AppendGrowsLate(p) ==
  /\ Idle
  /\ len < MaxLen
  /\ cap' = IF len > cap THEN 2 * cap ELSE cap
  /\ buffer' = [k \in DOMAIN Enlarged(cap') \union {len} |->
                  IF k = len THEN p ELSE Enlarged(cap')[k]]
  /\ len' = len + 1
  /\ is_sorted' = FALSE
  /\ UNCHANGED <<ret, post, found>>

(* append_ptr_list, and push_ptr_list. *)
AppendPtr(p) ==
  /\ Idle
  /\ len < MaxLen
  /\ cap' = IF len + 1 > cap THEN 2 * cap ELSE cap
  /\ buffer' = [Enlarged(cap') EXCEPT ![len] = p]
  /\ len' = len + 1
  /\ is_sorted' = FALSE
  /\ UNCHANGED <<ret, post, found>>

(* pop_ptr_list: the flag stays as it is. *)
Pop ==
  /\ Idle
  /\ ret' = IF len > 0 THEN buffer[len - 1] ELSE NULL
  /\ len' = IF len > 0 THEN len - 1 ELSE len
  /\ UNCHANGED <<buffer, cap, is_sorted, post, found>>

Peek ==
  /\ Idle
  /\ ret' = IF len > 0 THEN buffer[len - 1] ELSE NULL
  /\ UNCHANGED <<list, post, found>>

(* normalize_index: a negative index is moved beyond the items. *)
Normalized(idx) ==
  IF idx >= 0 /\ idx < len THEN idx
  ELSE IF idx < 0 /\ -idx < len THEN len - idx
  ELSE -1

(* index_ptr_list; behind the buffer anything may be found. *)
Index(idx) ==
  /\ Idle
  /\ ret' = LET n == Normalized(idx)
            IN  IF n < 0 THEN NULL ELSE IF n < cap THEN buffer[n] ELSE JUNK
  /\ UNCHANGED <<list, post, found>>

(* iterate_ptr_list, with the one mark there is. *)
Iterate ==
  /\ Idle
  /\ ret' = IF post < len THEN buffer[post] ELSE NULL
  /\ post' = IF post < len THEN post + 1 ELSE post
  /\ UNCHANGED <<list, found>>

(* A caller begins an iteration. *)
Restart ==
  /\ Idle
  /\ post' = 0
  /\ UNCHANGED <<list, ret, found>>

(* The capacities a list can have. *)
IsCapacity(c) == \E d \in 0 .. MaxLen : c = InitCap * 2 ^ d

(* copy_ptr_list, and the copy is used from here on: it is as large as it   *)
(* has to be and does not count as sorted.                                  *)
Copy ==
  /\ Idle
  /\ cap' \in InitCap .. cap
  /\ IsCapacity(cap')
  /\ len <= cap'
  /\ cap' = InitCap \/ cap' < 2 * len
  /\ buffer' = [k \in 0 .. cap' - 1 |-> IF k < len THEN buffer[k] ELSE JUNK]
  /\ is_sorted' = FALSE
  /\ post' = 0
  /\ UNCHANGED <<len, ret, found>>

-------------------------------------------------------------------------------
(* sort_ptr_list, a bubble sort. *)
BeginSort ==
  /\ pc = "idle"
  /\ pc' = "sort"
  /\ step' = 0 /\ i' = 0
  /\ UNCHANGED <<list, ret, post, finding, found>>

SortStep ==
  /\ pc = "sort"
  /\ step < len - 1
  /\ i < len - step - 1
  /\ buffer' = IF Rank[buffer[i]] > Rank[buffer[i + 1]]
                 THEN [buffer EXCEPT ![i] = buffer[i + 1], ![i + 1] = buffer[i]]
                 ELSE buffer
  /\ i' = i + 1
  /\ UNCHANGED <<len, cap, is_sorted, ret, post, pc, step, finding, found>>

NextPass ==
  /\ pc = "sort"
  /\ step < len - 1
  /\ i >= len - step - 1
  /\ step' = step + 1
  /\ i' = 0
  /\ UNCHANGED <<list, ret, post, pc, finding, found>>

EndSort ==
  /\ pc = "sort"
  /\ step >= len - 1
  /\ is_sorted' = TRUE
  /\ pc' = "idle"
  /\ step' = 0 /\ i' = 0
  /\ UNCHANGED <<buffer, len, cap, ret, post, finding, found>>

-------------------------------------------------------------------------------
(* find_ptr_list and find_ptr_list_idx, a binary search; in a list that     *)
(* does not count as sorted nothing is found.                               *)
BeginFind(k) ==
  /\ pc = "idle"
  /\ \/ /\ ~is_sorted
        /\ found' = -1
        /\ ret' = NULL
        /\ UNCHANGED <<pc, finding>>
     \/ /\ is_sorted
        /\ pc' = "find"
        /\ key' = k /\ low' = 0 /\ high' = len - 1
        /\ UNCHANGED <<found, ret>>
  /\ UNCHANGED <<list, post, sorting>>

Mid == low + (high - low) \div 2

(* The local variables are gone when the call returns. *)
Return(idx, p) ==
  /\ found' = idx
  /\ ret' = p
  /\ pc' = "idle"
  /\ key' = NULL /\ low' = 0 /\ high' = -1

Hit ==
  /\ pc = "find"
  /\ low <= high
  /\ Rank[key] = Rank[buffer[Mid]]
  /\ Return(Mid, buffer[Mid])
  /\ UNCHANGED <<list, post, sorting>>

(* Variant: the upper half still has the middle, so it may not shrink. *)
NarrowStuck ==
  /\ pc = "find"
  /\ low <= high
  /\ \/ Rank[key] > Rank[buffer[Mid]] /\ low' = Mid /\ UNCHANGED high
     \/ Rank[key] < Rank[buffer[Mid]] /\ high' = Mid - 1 /\ UNCHANGED low
  /\ UNCHANGED <<list, ret, post, pc, sorting, key, found>>

(* Variant: the lower half loses one item too many. *)
NarrowTooFar ==
  /\ pc = "find"
  /\ low <= high
  /\ \/ Rank[key] > Rank[buffer[Mid]] /\ low' = Mid + 1 /\ UNCHANGED high
     \/ Rank[key] < Rank[buffer[Mid]] /\ high' = Mid - 2 /\ UNCHANGED low
  /\ UNCHANGED <<list, ret, post, pc, sorting, key, found>>

Narrow ==
  /\ pc = "find"
  /\ low <= high
  /\ \/ Rank[key] > Rank[buffer[Mid]] /\ low' = Mid + 1 /\ UNCHANGED high
     \/ Rank[key] < Rank[buffer[Mid]] /\ high' = Mid - 1 /\ UNCHANGED low
  /\ UNCHANGED <<list, ret, post, pc, sorting, key, found>>

Miss ==
  /\ pc = "find"
  /\ low > high
  /\ Return(-1, NULL)
  /\ UNCHANGED <<list, post, sorting>>

-------------------------------------------------------------------------------
(* The loops of the calls. *)
Loop == SortStep \/ NextPass \/ EndSort \/ Hit \/ Narrow \/ Miss

Next ==
  \/ \E p \in Ptr : AppendPtr(p) \/ BeginFind(p)
  \/ \E idx \in -MaxLen .. MaxLen : Index(idx)
  \/ Pop \/ Peek \/ Iterate \/ Restart \/ Copy
  \/ BeginSort
  \/ Loop

Spec == Init /\ [][Next]_vars

(* A call that was made is executed: one thread, nothing to wait for.       *)
FairSpec == Spec /\ WF_vars(Loop)

-------------------------------------------------------------------------------
TypeOK ==
  /\ cap \in Nat /\ cap >= InitCap
  /\ len \in 0 .. cap
  /\ buffer \in [0 .. cap - 1 -> Cell]
  /\ \A k \in 0 .. len - 1 : buffer[k] \in Ptr
  /\ is_sorted \in BOOLEAN
  /\ ret \in Cell
  /\ post \in Nat
  /\ pc \in {"idle", "sort", "find"}
  /\ step \in Nat /\ i \in Nat
  /\ key \in Ptr \union {NULL} /\ (pc = "find" => key \in Ptr)
  /\ low \in 0 .. len /\ high \in -1 .. len - 1
  /\ found \in Int

(* A list that counts as sorted is in order: an append resets the flag, a   *)
(* pop need not, and while a list is sorted again it stays in order.        *)
SortedIsInOrder ==
  is_sorted => \A j, k \in 0 .. len - 1 : j < k => Rank[buffer[j]] <= Rank[buffer[k]]

(* A search in a sorted list answers with an item that is equal to the key  *)
(* when there is one, and with -1 when there is none (find_ptr_list_idx).   *)
Occurs(k) == \E n \in 0 .. len - 1 : Rank[buffer[n]] = Rank[k]

FindsWhatIsThere ==
  [][pc = "find" /\ pc' = "idle" =>
       IF Occurs(key) THEN /\ found' \in 0 .. len - 1
                           /\ Rank[buffer[found']] = Rank[key]
                           /\ ret' = buffer[found']
                      ELSE found' = -1 /\ ret' = NULL]_vars

(* Sorting and searching end. *)
LoopsEnd == pc # "idle" ~> pc = "idle"

(* As a stack, the list gives the pointers back in reverse order, across    *)
(* every growth of the buffer (append_ptr_list, pop_ptr_list), and sorting  *)
(* loses none.                                                              *)
S == INSTANCE PointerStack WITH items <- [k \in 1 .. len |-> buffer[k - 1]]
ImplementsStack == S!Spec
================================================================================
