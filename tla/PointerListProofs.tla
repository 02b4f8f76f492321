--------------------------- MODULE PointerListProofs ---------------------------
(* What PointerList promises, for every set of pointers, every order of    *)
(* them and lists of every length.                                         *)
EXTENDS PointerList, SequenceTheorems, TLAPS

(* No search is going on: its variables are at rest. *)
AtRest == pc # "find" => low = 0 /\ high = -1

(* Behind step passes the last step items are the largest, in order, and    *)
(* the pass that goes on carries the largest item it has seen.              *)
Passes ==
  pc = "sort" =>
    /\ step = 0 \/ step <= len - 1
    /\ i = 0 \/ i <= len - step - 1
    /\ \A j, k \in 0 .. len - 1 :
         j < k /\ k >= len - step => Rank[buffer[j]] <= Rank[buffer[k]]
    /\ \A j \in 0 .. len - 1 :
         j < i /\ i < len => Rank[buffer[j]] <= Rank[buffer[i]]

(* What the search looks for is between low and high. *)
Search ==
  pc = "find" =>
    /\ is_sorted
    /\ \A k \in 0 .. len - 1 :
         Rank[buffer[k]] = Rank[key] => low <= k /\ k <= high

ListInv == TypeOK /\ AtRest /\ SortedIsInOrder /\ Passes /\ Search

-------------------------------------------------------------------------------
(* The items of a shorter buffer are items of a longer one. *)
LEMMA Within ==
  ASSUME NEW m \in Nat, NEW n \in Nat, m <= n
  PROVE  0 .. m - 1 \subseteq 0 .. n - 1
  OBVIOUS

LEMMA FitsBelow ==
  ASSUME NEW m \in Nat, NEW n \in Nat, m + 1 <= n
  PROVE  m \in 0 .. n - 1
  OBVIOUS

(* A new list satisfies the invariant. *)
LEMMA InitInv == Init => ListInv
<1> SUFFICES ASSUME Init PROVE ListInv
  OBVIOUS
<1>1. InitCap \in Nat /\ cap \in Nat /\ cap >= InitCap /\ len \in 0 .. cap
  BY PointerAssumption DEF Init
<1>2. buffer \in [0 .. cap - 1 -> Cell] /\ ret \in Cell
  BY DEF Init, Cell
<1>3. \A k \in 0 .. len - 1 : buffer[k] \in Ptr
  BY DEF Init
<1>4. low \in 0 .. len /\ high \in -1 .. len - 1
  BY DEF Init
<1>5. is_sorted \in BOOLEAN /\ pc \in {"idle", "sort", "find"} /\ pc # "find"
  BY DEF Init
<1>6. key \in Ptr \union {NULL}
  BY DEF Init
<1>7. post \in Nat /\ step \in Nat /\ i \in Nat /\ found \in Int
  BY DEF Init
<1>8. TypeOK
  BY <1>1, <1>2, <1>3, <1>4, <1>5, <1>6, <1>7 DEF TypeOK
<1> QED
  BY <1>8 DEF Init, ListInv, AtRest, SortedIsInOrder, Passes, Search

(* The middle of a search is an item between low and high. *)
LEMMA MidBetween ==
  ASSUME TypeOK, low <= high
  PROVE  Mid \in low .. high /\ Mid \in 0 .. len - 1
  BY DEF TypeOK, Mid

(* The ranks of the items are integers. *)
LEMMA RankType ==
  ASSUME TypeOK
  PROVE  \A k \in 0 .. len - 1 : Rank[buffer[k]] \in Int
  BY PointerAssumption DEF TypeOK

(* An append: the new item fits, and the list does not count as sorted. *)
LEMMA AppendPtrInv ==
  ASSUME ListInv, NEW p \in Ptr, AppendPtr(p)
  PROVE  ListInv'
<1> USE DEF ListInv
<1>1. InitCap \in Nat /\ cap' \in Nat /\ cap' >= InitCap /\ cap' >= cap /\ len + 1 <= cap'
  BY PointerAssumption DEF AppendPtr, TypeOK
<1>2. buffer' \in [0 .. cap' - 1 -> Cell]
  BY <1>1 DEF AppendPtr, Enlarged, TypeOK, Cell
<1>3. \A k \in 0 .. len' - 1 : buffer'[k] \in Ptr
  BY <1>1 DEF AppendPtr, Enlarged, TypeOK
<1>4. /\ pc = "idle" /\ pc' = "idle" /\ len' = len + 1 /\ is_sorted' = FALSE
      /\ UNCHANGED <<ret, post, step, i, key, low, high, found>>
  BY DEF AppendPtr, Idle, sorting, finding
<1>5. is_sorted' \in BOOLEAN
  BY <1>4
<1>6. len \in Nat /\ len' \in Nat /\ low \in 0 .. len' /\ high \in -1 .. len' - 1
  BY <1>4 DEF TypeOK, AtRest
<1>7. len' \in 0 .. cap'
  BY <1>1, <1>4, <1>6
<1>8. TypeOK'
  BY <1>1, <1>2, <1>3, <1>4, <1>5, <1>6, <1>7 DEF TypeOK
<1> QED
  BY <1>4, <1>8 DEF AtRest, SortedIsInOrder, Passes, Search

(* A pop: what is left of a sorted list is sorted. *)
LEMMA PopInv ==
  ASSUME ListInv, Pop
  PROVE  ListInv'
<1> USE DEF ListInv
<1>1. TypeOK'
  <2>1. ret' \in Cell
    BY DEF Pop, TypeOK, Cell
  <2> QED
    BY <2>1 DEF Pop, Idle, TypeOK, AtRest, sorting, finding
<1>2. SortedIsInOrder'
  BY DEF Pop, TypeOK, SortedIsInOrder
<1> QED
  BY <1>1, <1>2 DEF Pop, Idle, AtRest, Passes, Search, sorting, finding

(* The calls that leave the list as it is. *)
LEMMA LookInv ==
  ASSUME ListInv,
         Peek \/ Iterate \/ Restart \/ (\E idx \in -MaxLen .. MaxLen : Index(idx))
  PROVE  ListInv'
<1> USE DEF ListInv
<1>1. UNCHANGED <<list, pc, sorting, finding, found>>
  BY DEF Peek, Iterate, Restart, Index, Idle
<1>2. ret' \in Cell
  <2>1. CASE Peek
    BY <2>1 DEF Peek, TypeOK, Cell
  <2>2. CASE Iterate
    BY <2>2 DEF Iterate, TypeOK, Cell
  <2>3. CASE Restart
    BY <2>3 DEF Restart, TypeOK
  <2>4. ASSUME NEW idx \in -MaxLen .. MaxLen, Index(idx)
        PROVE  ret' \in Cell
    <3>1. Normalized(idx) \in Int
      BY <2>4, PointerAssumption DEF Normalized, TypeOK
    <3> QED
      BY <2>4, <3>1 DEF Index, TypeOK, Cell
  <2> QED BY <2>1, <2>2, <2>3, <2>4
<1>3. post' \in Nat
  BY DEF Peek, Iterate, Restart, Index, TypeOK
<1>4. TypeOK'
  BY <1>1, <1>2, <1>3 DEF TypeOK, list, sorting, finding
<1> QED
  BY <1>1, <1>4
  DEF AtRest, SortedIsInOrder, Passes, Search, list, sorting, finding

(* A copy has the same items, and does not count as sorted. *)
LEMMA CopyInv ==
  ASSUME ListInv, Copy
  PROVE  ListInv'
<1> USE DEF ListInv
<1>1. /\ pc = "idle" /\ pc' = "idle" /\ is_sorted' = FALSE /\ post' = 0
      /\ UNCHANGED <<len, ret, step, i, key, low, high, found>>
      /\ cap' \in InitCap .. cap /\ len <= cap'
  BY DEF Copy, Idle, sorting, finding
<1>2. InitCap \in Nat /\ cap' \in Nat /\ cap' >= InitCap /\ len \in 0 .. cap' /\ cap' <= cap
  BY <1>1, PointerAssumption DEF TypeOK
<1>3. buffer' = [k \in 0 .. cap' - 1 |-> IF k < len THEN buffer[k] ELSE JUNK]
  BY DEF Copy
<1>4. \A k \in 0 .. cap' - 1 : buffer[k] \in Cell
  <2>1. buffer \in [0 .. cap - 1 -> Cell] /\ cap \in Nat
    BY DEF TypeOK
  <2>2. 0 .. cap' - 1 \subseteq 0 .. cap - 1
    BY <1>2, <2>1, Within
  <2> QED BY <2>1, <2>2
<1>5. buffer' \in [0 .. cap' - 1 -> Cell]
  BY <1>3, <1>4 DEF Cell
<1>6. \A k \in 0 .. len - 1 : buffer'[k] \in Ptr
  <2>1. \A k \in 0 .. len - 1 : buffer[k] \in Ptr
    BY DEF TypeOK
  <2>2. len \in Nat
    BY DEF TypeOK
  <2>3. 0 .. len - 1 \subseteq 0 .. cap' - 1
    BY <1>1, <1>2, <2>2, Within
  <2>4. \A k \in 0 .. len - 1 : k \in 0 .. cap' - 1 /\ k < len
    BY <2>2, <2>3
  <2> QED BY <1>3, <2>1, <2>4
<1>7. TypeOK'
  BY <1>1, <1>2, <1>5, <1>6 DEF TypeOK
<1> QED
  BY <1>1, <1>7 DEF AtRest, SortedIsInOrder, Passes, Search

-------------------------------------------------------------------------------
(* No pass is behind a sort that begins. *)
LEMMA BeginSortInv ==
  ASSUME ListInv, BeginSort
  PROVE  ListInv'
  BY DEF ListInv, BeginSort, TypeOK, AtRest, SortedIsInOrder, Passes, Search,
         list, finding

(* A comparison: the larger one of two neighbours is behind the other then. *)
LEMMA SortStepInv ==
  ASSUME ListInv, SortStep
  PROVE  ListInv'
<1> USE DEF ListInv
<1>1. /\ i \in 0 .. len - 1 /\ i + 1 \in 0 .. len - 1 /\ i + 1 < len - step
      /\ step \in Nat /\ len \in Nat /\ cap \in Nat /\ len <= cap
  BY DEF SortStep, TypeOK
<1>2. buffer' \in [0 .. cap - 1 -> Cell]
  BY <1>1 DEF SortStep, TypeOK, Cell
<1>3. /\ buffer'[i] \in {buffer[i], buffer[i + 1]}
      /\ buffer'[i + 1] \in {buffer[i], buffer[i + 1]}
      /\ \A k \in 0 .. len - 1 : k # i /\ k # i + 1 => buffer'[k] = buffer[k]
  BY <1>1 DEF SortStep, TypeOK
<1>4. Rank[buffer[i]] <= Rank[buffer'[i + 1]] /\ Rank[buffer'[i]] <= Rank[buffer'[i + 1]]
  BY <1>1, RankType DEF SortStep, TypeOK
<1>5. \A k \in 0 .. len - 1 : buffer'[k] \in Ptr
  BY <1>1, <1>3 DEF TypeOK
<1>6. TypeOK'
  BY <1>1, <1>2, <1>5 DEF SortStep, TypeOK, finding
<1>7. SortedIsInOrder'
  <2>1. CASE is_sorted
    <3>1. Rank[buffer[i]] <= Rank[buffer[i + 1]]
      BY <1>1, <2>1 DEF SortedIsInOrder
    <3>2. buffer' = buffer
      BY <1>1, <3>1, RankType DEF SortStep
    <3> QED BY <3>2 DEF SortedIsInOrder, SortStep
  <2>2. CASE ~is_sorted
    BY <2>2 DEF SortStep, SortedIsInOrder
  <2> QED BY <2>1, <2>2 DEF TypeOK
<1>8. Passes'
  <2>1. \A k \in 0 .. len - 1 : Rank[buffer[k]] \in Int /\ Rank[buffer'[k]] \in Int
    BY <1>5, PointerAssumption, RankType
  <2>2. step' = step /\ i' = i + 1 /\ len' = len /\ pc' = "sort" /\ pc = "sort"
    BY DEF SortStep
  <2>3. \A j, k \in 0 .. len - 1 :
          j < k /\ k >= len - step => Rank[buffer'[j]] <= Rank[buffer'[k]]
    <3> SUFFICES ASSUME NEW j \in 0 .. len - 1, NEW k \in 0 .. len - 1,
                        j < k, k >= len - step
                 PROVE  Rank[buffer'[j]] <= Rank[buffer'[k]]
      OBVIOUS
    <3>1. buffer'[k] = buffer[k]
      BY <1>1, <1>3
    <3>2. /\ Rank[buffer[j]] <= Rank[buffer[k]]
          /\ Rank[buffer[i]] <= Rank[buffer[k]]
          /\ Rank[buffer[i + 1]] <= Rank[buffer[k]]
      BY <1>1, <2>2 DEF Passes
    <3>3. buffer'[j] \in {buffer[j], buffer[i], buffer[i + 1]}
      BY <1>1, <1>3
    <3> QED BY <3>1, <3>2, <3>3
  <2>4. \A j \in 0 .. len - 1 : j < i + 1 => Rank[buffer'[j]] <= Rank[buffer'[i + 1]]
    <3> SUFFICES ASSUME NEW j \in 0 .. len - 1, j < i + 1
                 PROVE  Rank[buffer'[j]] <= Rank[buffer'[i + 1]]
      OBVIOUS
    <3>1. CASE j = i
      BY <1>4, <3>1
    <3>2. CASE j # i
      <4>1. j < i /\ buffer'[j] = buffer[j]
        BY <1>1, <1>3, <3>2
      <4>2. Rank[buffer[j]] <= Rank[buffer[i]]
        BY <1>1, <2>2, <4>1 DEF Passes
      <4> QED BY <1>1, <1>4, <2>1, <4>1, <4>2
    <3> QED BY <3>1, <3>2
  <2>5. i + 1 <= len - step - 1 /\ (step = 0 \/ step <= len - 1)
    BY <1>1
  <2> QED BY <2>2, <2>3, <2>4, <2>5 DEF Passes
<1>9. AtRest' /\ Search'
  BY DEF SortStep, AtRest, Search, finding
<1> QED BY <1>6, <1>7, <1>8, <1>9

(* The end of a pass: it has carried its largest item to its place. *)
LEMMA NextPassInv ==
  ASSUME ListInv, NextPass
  PROVE  ListInv'
<1> USE DEF ListInv
<1>1. i = len - step - 1 /\ i \in 0 .. len - 1 /\ step + 1 <= len - 1
  BY DEF NextPass, Passes, TypeOK
<1>2. TypeOK'
  BY DEF NextPass, TypeOK, list, finding
<1>3. \A j, k \in 0 .. len - 1 :
        j < k /\ k >= len - (step + 1) => Rank[buffer[j]] <= Rank[buffer[k]]
  <2> SUFFICES ASSUME NEW j \in 0 .. len - 1, NEW k \in 0 .. len - 1,
                      j < k, k >= len - (step + 1)
               PROVE  Rank[buffer[j]] <= Rank[buffer[k]]
    OBVIOUS
  <2>1. CASE k = i
    BY <1>1, <2>1 DEF NextPass, Passes, TypeOK
  <2>2. CASE k # i
    <3>1. k >= len - step
      BY <1>1, <2>2 DEF TypeOK
    <3> QED BY <3>1 DEF NextPass, Passes
  <2> QED BY <2>1, <2>2
<1>4. Passes'
  BY <1>1, <1>3 DEF NextPass, Passes, TypeOK, list
<1> QED
  BY <1>2, <1>4 DEF NextPass, AtRest, SortedIsInOrder, Search, list, finding

(* After the last pass every item is in its place. *)
LEMMA EndSortInv ==
  ASSUME ListInv, EndSort
  PROVE  ListInv'
<1> USE DEF ListInv
<1>1. \A j, k \in 0 .. len - 1 : j < k => Rank[buffer[j]] <= Rank[buffer[k]]
  BY DEF EndSort, Passes, TypeOK
<1>2. TypeOK'
  BY DEF EndSort, TypeOK, finding
<1> QED
  BY <1>1, <1>2 DEF EndSort, AtRest, SortedIsInOrder, Passes, Search, finding

-------------------------------------------------------------------------------
(* A search begins with the whole list. *)
LEMMA BeginFindInv ==
  ASSUME ListInv, NEW k \in Ptr, BeginFind(k)
  PROVE  ListInv'
<1> USE DEF ListInv
<1>1. TypeOK'
  BY DEF BeginFind, TypeOK, Cell, list, sorting, finding
<1> QED
  BY <1>1 DEF BeginFind, TypeOK, AtRest, SortedIsInOrder, Passes, Search,
              list, sorting, finding

(* The half that is left out does not have the key. *)
LEMMA NarrowInv ==
  ASSUME ListInv, Narrow
  PROVE  ListInv'
<1> USE DEF ListInv
<1>1. Mid \in low .. high /\ Mid \in 0 .. len - 1
  BY MidBetween DEF Narrow
<1>2. /\ low \in Nat /\ high \in Int /\ len \in Nat
      /\ UNCHANGED <<list, key, pc>>
      /\ pc = "find"
  BY DEF Narrow, TypeOK
<1>3. \A k \in 0 .. len - 1 : Rank[buffer[k]] = Rank[key] => low' <= k /\ k <= high'
  <2> SUFFICES ASSUME NEW k \in 0 .. len - 1, Rank[buffer[k]] = Rank[key]
               PROVE  low' <= k /\ k <= high'
    OBVIOUS
  <2>1. low <= k /\ k <= high
    BY <1>2 DEF Search
  <2>2. /\ Rank[buffer[k]] \in Int /\ Rank[buffer[Mid]] \in Int
        /\ (k < Mid => Rank[buffer[k]] <= Rank[buffer[Mid]])
        /\ (Mid < k => Rank[buffer[Mid]] <= Rank[buffer[k]])
    BY <1>1, <1>2, RankType DEF Search, SortedIsInOrder
  <2>3. CASE Rank[key] > Rank[buffer[Mid]] /\ low' = Mid + 1 /\ UNCHANGED high
    BY <1>1, <2>1, <2>2, <2>3
  <2>4. CASE Rank[key] < Rank[buffer[Mid]] /\ high' = Mid - 1 /\ UNCHANGED low
    BY <1>1, <2>1, <2>2, <2>4
  <2> QED BY <2>3, <2>4 DEF Narrow
<1>4. low' \in 0 .. len /\ high' \in -1 .. len - 1
  BY <1>1, <1>2 DEF Narrow, TypeOK
<1>5. TypeOK'
  BY <1>2, <1>4 DEF Narrow, TypeOK, list, sorting
<1> QED
  BY <1>2, <1>3, <1>5 DEF AtRest, SortedIsInOrder, Passes, Search, list

(* The end of a search. *)
LEMMA HitInv ==
  ASSUME ListInv, Hit \/ Miss
  PROVE  ListInv'
<1> USE DEF ListInv
<1>1. ret' \in Cell /\ found' \in Int
  BY MidBetween DEF Hit, Miss, Return, TypeOK, Cell
<1>2. TypeOK'
  BY <1>1 DEF Hit, Miss, Return, TypeOK, list, sorting
<1> QED
  BY <1>2 DEF Hit, Miss, Return, AtRest, SortedIsInOrder, Passes, Search,
              list, sorting

(* Every step keeps the invariant. *)
LEMMA StepInv == ListInv /\ [Next]_vars => ListInv'
<1> SUFFICES ASSUME ListInv, [Next]_vars PROVE ListInv'
  OBVIOUS
<1>1. ASSUME NEW p \in Ptr, AppendPtr(p) \/ BeginFind(p) PROVE ListInv'
  BY <1>1, AppendPtrInv, BeginFindInv
<1>2. CASE Peek \/ Iterate \/ Restart \/ (\E idx \in -MaxLen .. MaxLen : Index(idx))
  BY <1>2, LookInv
<1>3. CASE Pop \/ Copy \/ BeginSort
  BY <1>3, PopInv, CopyInv, BeginSortInv
<1>4. CASE Loop
  BY <1>4, SortStepInv, NextPassInv, EndSortInv, HitInv, NarrowInv DEF Loop
<1>5. CASE UNCHANGED vars
  BY <1>5 DEF vars, ListInv, TypeOK, AtRest, SortedIsInOrder, Passes, Search, Cell,
              list, sorting, finding
<1> QED BY <1>1, <1>2, <1>3, <1>4, <1>5 DEF Next

(* Every call and every step of a loop keeps the shape of the list, the     *)
(* order of a sorted one, and the invariants of the two loops.              *)
THEOREM Inductive == Spec => []ListInv
  BY InitInv, StepInv, PTL DEF Spec

(* The list is well formed: its items are pointers and fit in the buffer    *)
(* (append_ptr_list, sort_ptr_list).                                        *)
THEOREM TypeCorrect == Spec => []TypeOK
<1>1. ListInv => TypeOK
  BY DEF ListInv
<1> QED BY <1>1, Inductive, PTL

(* The flag is_sorted never lies. *)
THEOREM SortedCorrect == Spec => []SortedIsInOrder
<1>1. ListInv => SortedIsInOrder
  BY DEF ListInv
<1> QED BY <1>1, Inductive, PTL

(* The binary search of a list that counts as sorted finds what is there    *)
(* and nothing else (find_ptr_list_idx), whatever was appended, popped and  *)
(* sorted before.                                                           *)
THEOREM SearchCorrect == Spec => FindsWhatIsThere
<1> DEFINE Found ==
      pc = "find" /\ pc' = "idle" =>
        IF Occurs(key) THEN /\ found' \in 0 .. len - 1
                            /\ Rank[buffer[found']] = Rank[key]
                            /\ ret' = buffer[found']
                       ELSE found' = -1 /\ ret' = NULL
<1>1. ListInv /\ [Next]_vars => [Found]_vars
  <2> SUFFICES ASSUME ListInv, Next, pc = "find", pc' = "idle" PROVE Found
    BY DEF vars
  <2>1. Hit \/ Miss
    BY DEF Next, Loop, AppendPtr, BeginFind, Index, Pop, Peek, Iterate, Restart,
           Copy, Idle, BeginSort, SortStep, NextPass, EndSort, Narrow
  <2>2. CASE Hit
    <3>1. Mid \in 0 .. len - 1
      BY <2>2, MidBetween DEF Hit, ListInv
    <3> QED BY <2>2, <3>1 DEF Hit, Return, Occurs
  <2>3. CASE Miss
    <3>1. ~ Occurs(key)
      BY <2>3 DEF Miss, Occurs, ListInv, Search, TypeOK
    <3> QED BY <2>3, <3>1 DEF Miss, Return
  <2> QED BY <2>1, <2>2, <2>3
<1> QED BY <1>1, Inductive, PTL DEF Spec, FindsWhatIsThere

-------------------------------------------------------------------------------
(* The list as the stack it implements. *)
Items == [k \in 1 .. len |-> buffer[k - 1]]

LEMMA ItemsType ==
  ASSUME TypeOK
  PROVE  /\ Items \in Seq(Ptr) /\ Len(Items) = len /\ len \in Nat
         /\ \A k \in 1 .. len : Items[k] = buffer[k - 1]
<1>1. len \in Nat /\ \A k \in 1 .. len : k - 1 \in 0 .. len - 1
  BY DEF TypeOK
<1>2. \A k \in 1 .. len : buffer[k - 1] \in Ptr
  BY <1>1 DEF TypeOK
<1> QED BY <1>1, <1>2 DEF Items

(* What the steps of the list are on the stack. *)
LEMMA LooksAtStack ==
  ASSUME TypeOK', Items' = Items
  PROVE  S!Look
BY DEF S!Look, Items, TypeOK, Cell

LEMMA SameItems ==
  ASSUME TypeOK, len' = len, \A k \in 0 .. len - 1 : buffer'[k] = buffer[k]
  PROVE  Items' = Items
<1>1. \A k \in 1 .. len : k - 1 \in 0 .. len - 1
  BY DEF TypeOK
<1> QED BY <1>1 DEF Items

LEMMA PushesOnStack ==
  ASSUME TypeOK, TypeOK', NEW p \in Ptr, AppendPtr(p)
  PROVE  S!Push(p)
<1>1. /\ len' = len + 1 /\ ret' = ret /\ len \in Nat /\ len + 1 <= cap'
      /\ buffer' = [Enlarged(cap') EXCEPT ![len] = p]
      /\ cap \in Nat /\ len <= cap /\ cap' \in Nat /\ cap <= cap'
  BY PointerAssumption DEF AppendPtr, TypeOK
<1>2. buffer'[len] = p
  <2>1. len \in 0 .. cap' - 1
    BY <1>1, FitsBelow
  <2> QED BY <1>1, <2>1 DEF Enlarged
<1>3. ASSUME NEW k \in 0 .. len - 1 PROVE buffer'[k] = buffer[k]
  <2>1. 0 .. len - 1 \subseteq 0 .. cap' - 1
    <3>1. len <= cap'
      BY <1>1
    <3> QED BY <1>1, <3>1, Within
  <2>2. k < cap /\ k # len
    BY <1>1
  <2> QED BY <1>1, <2>1, <2>2 DEF Enlarged
<1>4. Items' = Append(Items, p)
  <2>1. Items' \in Seq(Ptr) /\ Len(Items') = len + 1
        /\ \A k \in 1 .. len + 1 : Items'[k] = buffer'[k - 1]
    <3>1. Items' = [k \in 1 .. len + 1 |-> buffer'[k - 1]]
      BY <1>1 DEF Items
    <3>2. ASSUME NEW k \in 1 .. len + 1 PROVE buffer'[k - 1] \in Ptr
      <4>1. k - 1 \in 0 .. len' - 1
        BY <1>1
      <4> QED BY <4>1 DEF TypeOK
    <3>3. len + 1 \in Nat
      BY <1>1
    <3> QED BY <3>1, <3>2, <3>3
  <2>2. Append(Items, p) \in Seq(Ptr) /\ Len(Append(Items, p)) = len + 1
        /\ (\A k \in 1 .. len : Append(Items, p)[k] = Items[k])
        /\ Append(Items, p)[len + 1] = p
    BY ItemsType, AppendProperties
  <2>3. ASSUME NEW k \in 1 .. len + 1 PROVE Items'[k] = Append(Items, p)[k]
    <3>1. CASE k = len + 1
      BY <1>1, <1>2, <2>1, <2>2, <3>1
    <3>2. CASE k # len + 1
      <4>1. k \in 1 .. len /\ k - 1 \in 0 .. len - 1
        BY <1>1, <3>2
      <4> QED BY <1>3, <2>1, <2>2, <4>1, ItemsType
    <3> QED BY <3>1, <3>2
  <2> QED BY <2>1, <2>2, <2>3, SeqEqual
<1> QED BY <1>1, <1>4 DEF S!Push, Items

LEMMA PopsFromStack ==
  ASSUME TypeOK, TypeOK', Pop
  PROVE  S!Pop
<1>1. buffer' = buffer /\ len \in Nat
  BY DEF Pop, TypeOK
<1>2. CASE len = 0
  <2>1. Items = << >>
    BY <1>2, ItemsType, EmptySeq
  <2>2. Items' = Items /\ ret' = NULL
    BY <1>1, <1>2 DEF Pop, Items
  <2> QED BY <2>1, <2>2 DEF S!Pop, Items
<1>3. CASE len > 0
  <2> DEFINE p == buffer[len - 1]
  <2>1. len' = len - 1 /\ ret' = p /\ len - 1 \in Nat /\ len \in 1 .. len
    BY <1>1, <1>3 DEF Pop
  <2>2. p \in Ptr
    BY <1>1, <1>3 DEF TypeOK
  <2>3. Items' \in Seq(Ptr) /\ Len(Items') = len - 1
        /\ \A k \in 1 .. len - 1 : Items'[k] = Items[k]
    <3>1. \A k \in 1 .. len - 1 : k \in 1 .. len /\ k - 1 \in 0 .. len - 1
      BY <1>1
    <3>2. Items' = [k \in 1 .. len - 1 |-> buffer[k - 1]]
      BY <1>1, <2>1 DEF Items
    <3>3. \A k \in 1 .. len - 1 : buffer[k - 1] \in Ptr
      BY <3>1 DEF TypeOK
    <3>4. Items' \in Seq(Ptr) /\ Len(Items') = len - 1
      BY <2>1, <3>2, <3>3
    <3>5. \A k \in 1 .. len - 1 : Items'[k] = buffer[k - 1]
      BY <3>2
    <3>6. \A k \in 1 .. len - 1 : Items[k] = buffer[k - 1]
      BY <3>1, ItemsType
    <3> QED BY <3>4, <3>5, <3>6
  <2>4. Items' = SubSeq(Items, 1, Len(Items) - 1)
    BY <1>3, <2>3, ItemsType
  <2>5. Items = Append(Items', p)
    BY <1>3, <2>1, <2>2, <2>3, ItemsType
  <2> QED BY <2>1, <2>2, <2>4, <2>5 DEF S!Pop, Items
<1> QED BY <1>1, <1>2, <1>3

LEMMA SortsStack ==
  ASSUME TypeOK, TypeOK', SortStep
  PROVE  S!Exchange \/ S!Look
<1>1. /\ len' = len /\ ret' = ret /\ len \in Nat /\ cap \in Nat /\ len <= cap
      /\ i \in 0 .. len - 1 /\ i + 1 \in 0 .. len - 1
  BY DEF SortStep, TypeOK
<1>2. CASE ~ (Rank[buffer[i]] > Rank[buffer[i + 1]])
  <2>1. buffer' = buffer
    BY <1>2 DEF SortStep
  <2> QED BY <1>1, <2>1, SameItems, LooksAtStack
<1>3. CASE Rank[buffer[i]] > Rank[buffer[i + 1]]
  <2>1. buffer' = [buffer EXCEPT ![i] = buffer[i + 1], ![i + 1] = buffer[i]]
    BY <1>3 DEF SortStep
  <2>2. /\ buffer'[i] = buffer[i + 1] /\ buffer'[i + 1] = buffer[i]
        /\ \A k \in 0 .. len - 1 : k # i /\ k # i + 1 => buffer'[k] = buffer[k]
    BY <1>1, <2>1 DEF TypeOK
  <2> DEFINE k0 == i + 1
  <2>3. k0 \in 1 .. Len(Items) - 1 /\ Items[k0] = buffer[i] /\ Items[k0 + 1] = buffer[i + 1]
    BY <1>1, ItemsType
  <2>4. Items' = [Items EXCEPT ![k0] = Items[k0 + 1], ![k0 + 1] = Items[k0]]
    <3> DEFINE swapped == [Items EXCEPT ![k0] = Items[k0 + 1], ![k0 + 1] = Items[k0]]
    <3>1. /\ k0 \in 1 .. len /\ k0 + 1 \in 1 .. len /\ k0 # k0 + 1
          /\ k0 - 1 = i /\ (k0 + 1) - 1 = i + 1
      BY <1>1
    <3>2. DOMAIN Items = 1 .. len
      BY DEF Items
    <3>3. /\ DOMAIN swapped = 1 .. len
          /\ swapped[k0] = buffer[i + 1] /\ swapped[k0 + 1] = buffer[i]
          /\ \A k \in 1 .. len : k # k0 /\ k # k0 + 1 => swapped[k] = Items[k]
      BY <2>3, <3>1, <3>2
    <3>4. ASSUME NEW k \in 1 .. len PROVE buffer'[k - 1] = swapped[k]
      <4>1. CASE k = k0
        BY <2>2, <3>1, <3>3, <4>1
      <4>2. CASE k = k0 + 1
        BY <2>2, <3>1, <3>3, <4>2
      <4>3. CASE k # k0 /\ k # k0 + 1
        <5>1. k - 1 \in 0 .. len - 1 /\ k - 1 # i /\ k - 1 # i + 1
          BY <1>1, <4>3
        <5> QED BY <2>2, <3>3, <4>3, <5>1, ItemsType
      <4> QED BY <4>1, <4>2, <4>3
    <3>5. swapped = [k \in 1 .. len |-> swapped[k]]
      BY <3>3
    <3> QED BY <1>1, <3>4, <3>5 DEF Items
  <2> QED BY <1>1, <1>3, <2>3, <2>4 DEF S!Exchange, Items
<1> QED BY <1>2, <1>3

(* As a stack the list gives the pointers back in reverse order, whatever   *)
(* was looked up, searched, copied and sorted in between (append_ptr_list,  *)
(* pop_ptr_list, sort_ptr_list).                                            *)
THEOREM Implements == Spec => ImplementsStack
<1>1. Init => S!Init
  <2> SUFFICES ASSUME Init PROVE S!Init
    OBVIOUS
  <2>1. len = 0 /\ ret = NULL
    BY DEF Init
  <2>2. [k \in 1 .. len |-> buffer[k - 1]] = << >>
    BY <2>1
  <2> QED BY <2>1, <2>2 DEF S!Init
<1>2. TypeOK /\ TypeOK' /\ [Next]_vars => [S!Next]_S!vars
  <2> SUFFICES ASSUME TypeOK, TypeOK', [Next]_vars PROVE [S!Next]_S!vars
    OBVIOUS
  <2>1. ASSUME NEW p \in Ptr, AppendPtr(p) PROVE S!Next
    BY <2>1, PushesOnStack DEF S!Next
  <2>2. CASE Pop
    BY <2>2, PopsFromStack DEF S!Next
  <2>3. CASE SortStep
    BY <2>3, SortsStack DEF S!Next
  <2>4. CASE UNCHANGED list
    BY <2>4, SameItems, LooksAtStack DEF S!Next, list
  <2>5. CASE Copy
    <3>1. len' = len /\ \A k \in 0 .. len - 1 : buffer'[k] = buffer[k]
      <4>1. len' = len /\ len \in Nat /\ cap' \in Nat /\ len <= cap'
            /\ buffer' = [k \in 0 .. cap' - 1 |-> IF k < len THEN buffer[k] ELSE JUNK]
        BY <2>5 DEF Copy, TypeOK
      <4>2. 0 .. len - 1 \subseteq 0 .. cap' - 1
        BY <4>1, Within
      <4>3. \A k \in 0 .. len - 1 : k < len
        BY <4>1
      <4> QED BY <4>1, <4>2, <4>3
    <3> QED BY <3>1, SameItems, LooksAtStack DEF S!Next
  <2>6. CASE EndSort
    BY <2>6, SameItems, LooksAtStack DEF S!Next, EndSort
  <2> QED
    BY <2>1, <2>2, <2>3, <2>4, <2>5, <2>6
    DEF Next, Loop, Index, Peek, Iterate, Restart, BeginSort, BeginFind, NextPass, Hit, Narrow,
        Miss, vars
<1> QED BY <1>1, <1>2, TypeCorrect, PTL DEF Spec, ImplementsStack, S!Spec
================================================================================
