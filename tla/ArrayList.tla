-------------------------------- MODULE ArrayList --------------------------------
(***************************************************************************)
(* The arrays of the program: src/src/common/array.c.  An element is one   *)
(* item; the items of an array have one size, and the copying of bytes is  *)
(* the copying of items.  The memory goes on behind the buffer: reading    *)
(* there gives JUNK.  A call that ends the program, or that writes outside *)
(* of the buffer, or that calls a comparison function that there is not,   *)
(* sets fault, and nothing follows it.                                     *)
(***************************************************************************)
EXTENDS RawMemory, Integers, Sequences, FiniteSets

CONSTANTS
  Element,    \* the items, and what else is in memory
  Rank,       \* the comparison function: an item is below another of larger rank
  Source,     \* the other arrays, as sequences
  Indexes,    \* the indexes that calls are made with
  NewCap,     \* the capacity of a new array
  MinLength,  \* bound: how far deletions from an empty array are followed
  MaxLength   \* bound: how long an array may get

ASSUME ArrayAssumption ==
  /\ JUNK \in Element
  /\ Rank \in [Element -> Int]
  /\ Source \subseteq Seq(Element)
  /\ Indexes \subseteq Int
  /\ NewCap \in Nat \ {0}
  /\ MinLength \in Int /\ MinLength <= 0
  /\ MaxLength \in Nat

VARIABLES
  items,      \* arr->buffer
  length,     \* arr->length
  capacity,   \* arr->capacity
  is_sorted,  \* arr->is_sorted
  comp,       \* arr->comp is not NULL
  found,      \* the answer of the last find_array_index
  fault       \* what has gone wrong: "none", "exit", "outside" or "null"

array == <<items, length, capacity, is_sorted, found>>
arrayVars == <<array, comp, fault>>

(* create_array *)
ArrayInit ==
  /\ items = [k \in 0 .. NewCap - 1 |-> JUNK]
  /\ length = 0
  /\ capacity = NewCap
  /\ is_sorted = FALSE
  /\ comp \in BOOLEAN
  /\ found = -1
  /\ fault = "none"

-------------------------------------------------------------------------------
(* normalize_write_index and normalize_read_index; an index that is not     *)
(* accepted ends the program.  Only one above the length is not: the length *)
(* itself is accepted by both, and a negative one may end up below 0.       *)
Refused(index) == index >= 0 /\ index > length
WriteIndex(index) == IF index < 0 THEN length + index + 1 ELSE index
ReadIndex(index) == IF index < 0 THEN length + index ELSE index

Stop(reason) == fault' = reason /\ UNCHANGED <<array, comp>>

(* What a call does when the index is accepted and it stays in the buffer. *)
Guarded(refused, outside, does) ==
  IF refused THEN Stop("exit")
  ELSE IF outside THEN Stop("outside")
  ELSE UNCHANGED <<comp, fault>> /\ does

(* resize: the capacity is doubled until there is room. *)
Resized(size) ==
  {c \in capacity .. capacity + 2 * (length + size) :
     /\ length + size <= c
     /\ c = capacity \/ c < 2 * (length + size)
     /\ \E d \in 0 .. length + size : c = capacity * 2 ^ d}

ItemAt(k) == IF k < capacity THEN items[k] ELSE JUNK

(* The items s are put in at place idx. *)
PutIn(s, idx) ==
  /\ length' = length + Len(s)
  /\ length' <= MaxLength
  /\ IF length' > capacity THEN capacity' \in Resized(Len(s)) ELSE capacity' = capacity
  /\ items' = [k \in 0 .. capacity' - 1 |->
                 IF k \in idx .. idx + Len(s) - 1 THEN s[k - idx + 1]
                 ELSE IF k \in idx + Len(s) .. length + Len(s) - 1 THEN items[k - Len(s)]
                 ELSE ItemAt(k)]
  /\ UNCHANGED found

(* insert_array; with the index -1 it is append_array.  It writes the places *)
(* from the index to the new end, if there are any.                          *)
InsertArray(src, index) ==
  LET idx == WriteIndex(index)
  IN  Guarded(Refused(index), idx < 0 /\ idx < length + Len(src),
              is_sorted' = FALSE /\ PutIn(src, idx))

(* Variant: no room is made. *)
InsertDataFull(data, index) ==
  LET idx == WriteIndex(index)
  IN  Guarded(Refused(index), idx < 0,
              /\ length < MaxLength
              /\ length' = length + 1
              /\ items' = [k \in 0 .. capacity - 1 |->
                             IF k < idx THEN items[k] ELSE IF k = idx THEN data ELSE items[k - 1]]
              /\ is_sorted' = FALSE
              /\ UNCHANGED <<capacity, found>>)

(* insert_array_data; with -1 it is append_array_data and push_array. *)
InsertData(data, index) ==
  LET idx == WriteIndex(index)
  IN  Guarded(Refused(index), idx < 0, is_sorted' = FALSE /\ PutIn(<<data>>, idx))

(* delete_array_data: it takes a write index, so that -1 names the place     *)
(* behind the last item, whose deletion takes away the last item, or makes   *)
(* the length of an empty array -1; and it reads the item behind the end as  *)
(* well.  The bytes are copied from the first on, as on the build's machine. *)
DeleteData(index) ==
  LET idx == WriteIndex(index)
  IN  Guarded(Refused(index), idx < 0 /\ idx < length,
              /\ length > MinLength
              /\ length' = length - 1
              /\ items' = [k \in DOMAIN items |->
                             IF k \in idx .. length - 1 THEN ItemAt(k + 1) ELSE items[k]]
              /\ is_sorted' = FALSE
              /\ UNCHANGED <<capacity, found>>)

Exchanged(b, i, j) == [b EXCEPT ![i] = b[j], ![j] = b[i]]

(* swap_array_data; the length is accepted as an index. *)
SwapData(idx1, idx2) ==
  LET i1 == ReadIndex(idx1)
      i2 == ReadIndex(idx2)
  IN  Guarded(Refused(idx1) \/ Refused(idx2), ~ ({i1, i2} \subseteq DOMAIN items),
              /\ UNCHANGED <<length, capacity, found>>
              /\ is_sorted' = FALSE
              /\ items' = Exchanged(items, i1, i2))

(* clear_array; what the larger buffer held stays in the smaller one. *)
ClearArray ==
  /\ length' = 0
  /\ capacity' = NewCap
  /\ items' = [k \in 0 .. NewCap - 1 |-> items[k]]
  /\ is_sorted' = FALSE
  /\ UNCHANGED <<comp, found, fault>>

(* pop_array: the flag stays, as the order does. *)
PopArray ==
  /\ length > 0
  /\ length' = length - 1
  /\ UNCHANGED <<items, capacity, is_sorted, comp, found, fault>>

(* The two loops of sort_array: a comparison of neighbours, a run over the   *)
(* first m + 1 items, and the runs one after the other.                      *)
Compared(b, i) == IF Rank[b[i - 1]] > Rank[b[i]] THEN Exchanged(b, i - 1, i) ELSE b

(* Variant: the first neighbours are not compared. *)
SweepLate(b, m) ==
  LET s[i \in 0 .. m] == IF i <= 1 THEN b ELSE Compared(s[i - 1], i)
  IN  s[m]

Sweep(b, m) ==
  LET s[i \in 0 .. m] == IF i = 0 THEN b ELSE Compared(s[i - 1], i)
  IN  s[m]

SortedItems ==
  LET s[k \in 0 .. length - 1] == IF k = 0 THEN items ELSE Sweep(s[k - 1], length - k)
  IN  IF length < 2 THEN items ELSE s[length - 1]

(* sort_array, which calls the comparison function if there are two items. *)
SortArray ==
  IF ~ comp /\ length >= 2 THEN Stop("null")
  ELSE /\ items' = SortedItems
       /\ is_sorted' = TRUE
       /\ UNCHANGED <<length, capacity, comp, found, fault>>

(* The binary search of find_array_index in b. *)
Search(b, key) ==
  LET mid(w) == w[1] + (w[2] - w[1]) \div 2
      search[w \in (0 .. length) \X (-1 .. length - 1)] ==
        IF w[1] > w[2] THEN -1
        ELSE IF Rank[key] = Rank[b[mid(w)]] THEN mid(w)
        ELSE IF Rank[key] > Rank[b[mid(w)]] THEN search[<<mid(w) + 1, w[2]>>]
        ELSE search[<<w[1], mid(w) - 1>>]
  IN  IF length < 0 THEN -1 ELSE search[<<0, length - 1>>]

(* find_array_index, which sorts first if it has to; without a comparison   *)
(* function it finds nothing.                                               *)
FindIndex(key) ==
  /\ UNCHANGED <<length, capacity, comp, fault>>
  /\ IF comp
       THEN /\ items' = IF is_sorted THEN items ELSE SortedItems
            /\ is_sorted' = TRUE
            /\ found' = Search(items', key)
       ELSE found' = -1 /\ UNCHANGED <<items, is_sorted>>

ArrayCalls ==
  \/ \E src \in Source, index \in Indexes : InsertArray(src, index)
  \/ \E data \in Element, index \in Indexes : InsertData(data, index)
  \/ \E index \in Indexes : DeleteData(index)
  \/ \E idx1, idx2 \in Indexes : SwapData(idx1, idx2)
  \/ ClearArray \/ PopArray \/ SortArray
  \/ \E key \in Element : FindIndex(key)

ArrayNext == fault = "none" /\ ArrayCalls

ArraySpec == ArrayInit /\ [][ArrayNext]_arrayVars

-------------------------------------------------------------------------------
(* The length may fall below 0 (array.c:229). *)
ArrayTypeOK ==
  /\ capacity \in Nat /\ capacity >= NewCap
  /\ length \in MinLength .. capacity
  /\ items \in [0 .. capacity - 1 -> Element]
  /\ is_sorted \in BOOLEAN /\ comp \in BOOLEAN
  /\ found \in Int
  /\ fault \in {"none", "exit", "outside", "null"}

Contents == [k \in 1 .. length |-> items[k - 1]]
S == INSTANCE ItemSequence WITH Item <- Element, items <- Contents

(* An index that names a place in the array or, for putting in and taking   *)
(* away, the one behind the last item.                                      *)
InRange(index) == length >= 0 /\ WriteIndex(index) \in 0 .. length
OfItem(index) == ReadIndex(index) \in 0 .. length - 1

(* A call that is made with such an index is carried out, and does what its *)
(* name says with the item the index names, across growth and clearing; and *)
(* as the flag is dropped by each call that disturbs the order, a search    *)
(* finds what is there.  It is said neither of an array whose length has    *)
(* become negative, by the deletion of what it does not have, nor of an     *)
(* exchange with the place behind the last item, which takes in what is in  *)
(* memory there, and not the last one (array.c:187, 229, 276).              *)
CallsOfSequence ==
  /\ \A index \in Indexes :
       InRange(index) =>
         /\ \A src \in Source : InsertArray(src, index) =>
              fault' = "none" /\ S!Insert(src, WriteIndex(index))
         /\ \A data \in Element : InsertData(data, index) =>
              fault' = "none" /\ S!Insert(<<data>>, WriteIndex(index))
         /\ length > 0 /\ DeleteData(index) => fault' = "none" /\ S!Delete(WriteIndex(index))
  /\ \A idx1, idx2 \in Indexes :
       OfItem(idx1) /\ OfItem(idx2) /\ SwapData(idx1, idx2) =>
         fault' = "none" /\ S!Exchange(ReadIndex(idx1), ReadIndex(idx2))
  /\ ClearArray => S!Empty
  /\ PopArray => S!Delete(length - 1)
  /\ comp /\ SortArray => S!Sort
  /\ \A key \in Element : comp /\ FindIndex(key) => S!Find(key)

ImplementsArray == S!Init /\ [][fault = "none" => CallsOfSequence]_arrayVars
================================================================================
