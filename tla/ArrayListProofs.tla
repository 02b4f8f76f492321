---------------------------- MODULE ArrayListProofs ----------------------------
(* What ArrayList promises, for all items, comparison functions and sizes.  *)
EXTENDS ArrayList, Induction, FunctionTheorems

(* The first n items of b do not fall. *)
Ordered(b, n) == \A j, k \in 0 .. n - 1 : j < k => Rank[b[j]] <= Rank[b[k]]

(* The flag tells the truth. *)
ArrayInv == ArrayTypeOK /\ (is_sorted => Ordered(items, length))

LEMMA ContentsAre ==
  ASSUME ArrayTypeOK, length \in Nat
  PROVE  /\ Contents \in Seq(Element) /\ Len(Contents) = length /\ DOMAIN Contents = 1 .. length
         /\ \A k \in 1 .. length : Contents[k] = items[k - 1]
         /\ \A k \in 0 .. length - 1 : items[k] \in Element
         /\ capacity \in Nat
<1>1. /\ capacity \in Nat /\ \A k \in 0 .. length - 1 : k \in 0 .. capacity - 1
      /\ items \in [0 .. capacity - 1 -> Element]
  BY DEF ArrayTypeOK
<1>2. \A k \in 0 .. length - 1 : items[k] \in Element
  BY <1>1
<1>3. \A k \in 1 .. length : k - 1 \in 0 .. length - 1
  OBVIOUS
<1> QED BY <1>1, <1>2, <1>3 DEF Contents

(* A buffer whose first items are those of s. *)
LEMMA ContentsBecome ==
  ASSUME NEW s \in Seq(Element), Len(s) = length',
         \A k \in 1 .. length' : items'[k - 1] = s[k]
  PROVE  Contents' = s
<1>1. length' \in Nat /\ DOMAIN s = 1 .. length'
  BY LenProperties
<1>2. s = [k \in 1 .. length' |-> s[k]]
  BY <1>1
<1> QED BY <1>2 DEF Contents

(* An array of a length below 1 has nothing in it. *)
LEMMA NoContents ==
  ASSUME length \in Int, length < 1
  PROVE  Contents = << >> /\ Len(Contents) = 0
<1>1. 1 .. length = {}
  OBVIOUS
<1>2. Contents = << >>
  BY <1>1 DEF Contents
<1> QED BY <1>2

(* An index that is not refused is not above the length. *)
LEMMA IndexFacts ==
  ASSUME length \in Int, NEW index \in Int, ~ Refused(index)
  PROVE  WriteIndex(index) \in Int /\ WriteIndex(index) <= length
         /\ ReadIndex(index) \in Int /\ ReadIndex(index) <= length
  BY DEF Refused, WriteIndex, ReadIndex

(* Nothing happens when the program ends, or does what it must not. *)
LEMMA StopStep ==
  ASSUME ArrayInv, NEW reason \in {"exit", "outside", "null"}, Stop(reason)
  PROVE  ArrayInv'
  BY DEF ArrayInv, ArrayTypeOK, Ordered, Stop, array

(* What is known when the call is carried out. *)
LEMMA GuardedStep ==
  ASSUME NEW refused, NEW outside, NEW does \in BOOLEAN, Guarded(refused, outside, does)
  PROVE  \/ Stop("exit") \/ Stop("outside")
         \/ ~ refused /\ ~ outside /\ does /\ comp' = comp /\ fault' = fault
  BY DEF Guarded

-------------------------------------------------------------------------------
(* Room is made for what is put in, and the rest moves up. *)
LEMMA PutInParts ==
  ASSUME ArrayTypeOK, NEW s \in Seq(Element), NEW idx \in 0 .. length, PutIn(s, idx)
  PROVE  /\ capacity' \in Nat /\ capacity' >= NewCap
         /\ length' = length + Len(s) /\ length' \in 0 .. capacity'
         /\ items' \in [0 .. capacity' - 1 -> Element]
         /\ \A k \in 0 .. idx - 1 : items'[k] = items[k]
         /\ \A k \in idx .. idx + Len(s) - 1 : items'[k] = s[k - idx + 1]
         /\ \A k \in idx + Len(s) .. length + Len(s) - 1 : items'[k] = items[k - Len(s)]
<1> DEFINE n == Len(s)
<1>1. /\ n \in Nat /\ length \in Nat /\ capacity \in Nat /\ capacity >= NewCap
      /\ length <= capacity /\ NewCap \in Nat /\ idx \in 0 .. length /\ idx \in Nat
      /\ items \in [0 .. capacity - 1 -> Element]
  BY ArrayAssumption, LenProperties DEF ArrayTypeOK
<1>0. n \in Nat /\ length \in Nat /\ capacity \in Nat /\ idx \in 0 .. length /\ length <= capacity
  BY <1>1
<1>2. /\ length' = length + n
      /\ IF length + n > capacity THEN capacity' \in Resized(n) ELSE capacity' = capacity
      /\ items' = [k \in 0 .. capacity' - 1 |->
                  IF k \in idx .. idx + n - 1 THEN s[k - idx + 1]
                  ELSE IF k \in idx + n .. length + n - 1 THEN items[k - n]
                  ELSE IF k < capacity THEN items[k] ELSE JUNK]
  BY DEF PutIn, ItemAt
<1> HIDE DEF n
<1>3. PICK c \in Nat : c = capacity' /\ c >= capacity /\ c >= length + n
  BY <1>1, <1>2 DEF Resized
<1>9. c >= capacity /\ c >= length + n
  BY <1>3
<1>4. ASSUME NEW k \in 0 .. idx - 1 PROVE items'[k] = items[k]
  <2>1. k \in 0 .. c - 1 /\ k < capacity
    BY <1>0, <1>9
  <2>2. ~(k \in idx .. idx + n - 1) /\ ~(k \in idx + n .. length + n - 1)
    BY <1>1
  <2> QED BY <1>2, <1>3, <2>1, <2>2
<1>5. ASSUME NEW k \in idx .. idx + n - 1 PROVE items'[k] = s[k - idx + 1]
  <2>1. k \in 0 .. c - 1
    BY <1>0, <1>9
  <2> QED BY <1>2, <1>3, <2>1
<1>6. ASSUME NEW k \in idx + n .. length + n - 1
      PROVE  items'[k] = items[k - n]
  <2>1. k \in 0 .. c - 1 /\ ~(k \in idx .. idx + n - 1)
    BY <1>0, <1>9
  <2> QED BY <1>2, <1>3, <2>1
<1>7. ASSUME NEW k \in 0 .. c - 1 PROVE items'[k] \in Element
  <2>1. CASE k \in idx .. idx + n - 1
    <3>1. k - idx + 1 \in 1 .. n
      BY <1>1, <2>1
    <3>2. s[k - idx + 1] \in Element
      BY <3>1, ElementOfSeq DEF n
    <3> QED BY <1>5, <2>1, <3>2
  <2>2. CASE k \in idx + n .. length + n - 1
    <3>1. k - n \in 0 .. capacity - 1
      BY <1>1, <2>2
    <3> QED BY <1>1, <1>6, <2>2, <3>1
  <2>3. CASE k \notin idx .. idx + n - 1 /\ k \notin idx + n .. length + n - 1
    <3>1. items'[k] = IF k < capacity THEN items[k] ELSE JUNK
      BY <1>2, <1>3, <2>3
    <3>2. k < capacity => k \in 0 .. capacity - 1
      BY <1>1
    <3> QED BY <1>1, <3>1, <3>2, ArrayAssumption
  <2> QED BY <2>1, <2>2, <2>3
<1>8. items' \in [0 .. capacity' - 1 -> Element]
  BY <1>2, <1>3, <1>7
<1>10. length' \in 0 .. capacity' /\ capacity' >= NewCap
  BY <1>1, <1>2, <1>3
<1> QED BY <1>2, <1>3, <1>4, <1>5, <1>6, <1>8, <1>10 DEF n

(* The array with s at place idx. *)
LEMMA PutInItems ==
  ASSUME ArrayTypeOK, NEW s \in Seq(Element), NEW idx \in 0 .. length, PutIn(s, idx),
         is_sorted' = FALSE, comp' = comp, fault' = fault
  PROVE  ArrayInv' /\ S!Insert(s, idx)
<1> DEFINE u == SubSeq(Contents, 1, idx) \o s \o SubSeq(Contents, idx + 1, Len(Contents))
<1>0. length \in Nat
  BY DEF ArrayTypeOK
<1>1. /\ capacity' \in Nat /\ capacity' >= NewCap
      /\ length' = length + Len(s) /\ length' \in 0 .. capacity'
      /\ items' \in [0 .. capacity' - 1 -> Element]
      /\ \A k \in 0 .. idx - 1 : items'[k] = items[k]
      /\ \A k \in idx .. idx + Len(s) - 1 : items'[k] = s[k - idx + 1]
      /\ \A k \in idx + Len(s) .. length + Len(s) - 1 : items'[k] = items[k - Len(s)]
  BY PutInParts
<1>2. found' = found /\ found \in Int
  BY DEF PutIn, ArrayTypeOK
<1>3. ArrayTypeOK'
  <2>1. length' \in MinLength .. capacity'
    BY <1>1, ArrayAssumption
  <2> QED BY <1>1, <1>2, <2>1 DEF ArrayTypeOK
<1>4. ArrayInv'
  BY <1>3 DEF ArrayInv
<1>5. /\ Contents \in Seq(Element) /\ Len(Contents) = length /\ length \in Nat
      /\ \A k \in 1 .. length : Contents[k] = items[k - 1]
  BY <1>0, ContentsAre
<1>6. idx \in Nat /\ idx <= idx /\ idx <= Len(Contents) /\ idx <= length /\ Len(s) \in Nat
  BY <1>5, LenProperties
<1>7. /\ u \in Seq(Element) /\ Len(u) = idx + Len(s) + (Len(Contents) - idx)
      /\ \A j \in 1 .. idx : u[j] = Contents[j]
      /\ \A j \in 1 .. Len(s) : u[idx + j] = s[j]
      /\ \A j \in 1 .. Len(Contents) - idx : u[idx + Len(s) + j] = Contents[idx + j]
  <2>1. Spliced(u, Element, Contents, s, idx, idx)
    BY <1>5, <1>6, SpliceParts
  <2> HIDE DEF u
  <2> QED BY <2>1 DEF Spliced
<1> HIDE DEF u
<1>8. ASSUME NEW k \in 1 .. length' PROVE items'[k - 1] = u[k]
  <2>1. k \in 1 .. length + Len(s)
    BY <1>1
  <2>2. CASE k \in 1 .. idx
    <3>1. k - 1 \in 0 .. idx - 1 /\ k \in 1 .. length
      BY <1>5, <1>6, <2>2
    <3> QED BY <1>1, <1>5, <1>7, <2>2, <3>1
  <2>3. CASE k \in idx + 1 .. idx + Len(s)
    <3> DEFINE j == k - idx
    <3>1. j \in 1 .. Len(s) /\ k - 1 \in idx .. idx + Len(s) - 1 /\ (k - 1) - idx + 1 = j
          /\ idx + j = k
      BY <1>6, <2>3
    <3> HIDE DEF j
    <3>2. items'[k - 1] = s[j]
      BY <1>1, <3>1
    <3>3. u[idx + j] = s[j]
      BY <1>7, <3>1
    <3> QED BY <3>1, <3>2, <3>3
  <2>4. CASE k \in idx + Len(s) + 1 .. length + Len(s)
    <3> DEFINE j == k - idx - Len(s)
               i == idx + j
    <3>1. /\ j \in 1 .. length - idx /\ k - 1 \in idx + Len(s) .. length + Len(s) - 1
          /\ (k - 1) - Len(s) = i - 1 /\ i \in 1 .. length /\ idx + Len(s) + j = k
          /\ i = idx + j
      BY <1>5, <1>6, <2>4
    <3> HIDE DEF i, j
    <3>2. items'[k - 1] = items[(k - 1) - Len(s)]
      BY <1>1, <3>1
    <3>3. Contents[i] = items[i - 1]
      BY <1>5, <3>1
    <3>4. u[idx + Len(s) + j] = Contents[idx + j]
      BY <1>5, <1>7, <3>1
    <3> QED BY <3>1, <3>2, <3>3, <3>4
  <2> QED BY <1>5, <1>6, <2>1, <2>2, <2>3, <2>4
<1>9. Len(u) = length'
  BY <1>1, <1>5, <1>6, <1>7
<1>10. Contents' = u
  BY <1>7, <1>8, <1>9, ContentsBecome
<1>11. S!Splice(idx, s) = u
  BY DEF S!Splice, u, Contents
<1> QED BY <1>2, <1>4, <1>10, <1>11 DEF S!Insert, S!Keep, Contents

(* Nothing is put in. *)
LEMMA PutInNothing ==
  ASSUME ArrayInv, NEW s \in Seq(Element), Len(s) = 0, length < 0, PutIn(s, length),
         is_sorted' = FALSE, comp' = comp, fault' = fault
  PROVE  ArrayInv'
<1>1. /\ length \in Int /\ length >= MinLength /\ capacity \in Nat /\ capacity >= NewCap
      /\ length \in MinLength .. capacity
      /\ items \in [0 .. capacity - 1 -> Element] /\ found \in Int
  BY DEF ArrayInv, ArrayTypeOK
<1>2. length' = length /\ capacity' = capacity /\ found' = found
  BY <1>1 DEF PutIn
<1>3. items' = [k \in 0 .. capacity - 1 |->
                  IF k \in length .. length - 1 THEN s[k - length + 1]
                  ELSE IF k \in length .. length - 1 THEN items[k - 0]
                  ELSE ItemAt(k)]
  <2>1. length + 0 - 1 = length - 1 /\ length + 0 = length
    BY <1>1
  <2> QED BY <1>2, <2>1 DEF PutIn
<1>4. \A k \in 0 .. capacity - 1 : items'[k] = items[k]
  BY <1>1, <1>3 DEF ItemAt
<1>5. items' \in [0 .. capacity - 1 -> Element]
  BY <1>1, <1>3, <1>4
<1> QED BY <1>1, <1>2, <1>5 DEF ArrayInv, ArrayTypeOK

LEMMA InsertArrayStep ==
  ASSUME ArrayInv, NEW src \in Source, NEW index \in Indexes, InsertArray(src, index)
  PROVE  /\ ArrayInv'
         /\ InRange(index) /\ fault = "none" =>
              fault' = "none" /\ S!Insert(src, WriteIndex(index))
<1> DEFINE idx == WriteIndex(index)
           outside == idx < 0 /\ idx < length + Len(src)
           does == is_sorted' = FALSE /\ PutIn(src, idx)
<1>1. /\ ArrayTypeOK /\ length \in Int /\ src \in Seq(Element) /\ Len(src) \in Nat
      /\ index \in Int
  BY ArrayAssumption, LenProperties DEF ArrayInv, ArrayTypeOK
<1>2. \/ Stop("exit") /\ Refused(index)
      \/ Stop("outside") /\ outside
      \/ ~ Refused(index) /\ ~ outside /\ does /\ comp' = comp /\ fault' = fault
  BY DEF InsertArray, Guarded
<1>3. InRange(index) => ~ Refused(index) /\ ~ outside
  BY <1>1 DEF InRange, Refused, WriteIndex
<1>4. CASE (Stop("exit") /\ Refused(index)) \/ (Stop("outside") /\ outside)
  BY <1>3, <1>4, StopStep
<1>5. CASE ~ Refused(index) /\ ~ outside /\ does /\ comp' = comp /\ fault' = fault
  <2>1. idx \in Int /\ idx <= length
    BY <1>1, <1>5, IndexFacts
  <2> HIDE DEF idx
  <2>2. CASE idx \in 0 .. length
    BY <1>1, <1>5, <2>2, PutInItems DEF idx
  <2>3. CASE idx < 0
    <3>1. Len(src) = 0 /\ idx = length /\ length < 0
      BY <1>1, <1>5, <2>1, <2>3
    <3>2. ArrayInv'
      BY <1>1, <1>5, <3>1, PutInNothing
    <3>3. ~ InRange(index)
      BY <1>1, <3>1 DEF InRange
    <3> QED BY <3>2, <3>3
  <2> QED BY <1>1, <2>1, <2>2, <2>3
<1> QED BY <1>2, <1>4, <1>5

LEMMA InsertDataStep ==
  ASSUME ArrayInv, NEW data \in Element, NEW index \in Indexes, InsertData(data, index)
  PROVE  /\ ArrayInv'
         /\ InRange(index) /\ fault = "none" =>
              fault' = "none" /\ S!Insert(<<data>>, WriteIndex(index))
<1> DEFINE idx == WriteIndex(index)
           does == is_sorted' = FALSE /\ PutIn(<<data>>, idx)
<1>1. ArrayTypeOK /\ length \in Int /\ <<data>> \in Seq(Element) /\ index \in Int
  BY ArrayAssumption DEF ArrayInv, ArrayTypeOK
<1>2. \/ Stop("exit") /\ Refused(index)
      \/ Stop("outside") /\ idx < 0
      \/ ~ Refused(index) /\ ~ (idx < 0) /\ does /\ comp' = comp /\ fault' = fault
  BY DEF InsertData, Guarded
<1>3. InRange(index) => ~ Refused(index) /\ ~ (idx < 0)
  BY <1>1 DEF InRange, Refused, WriteIndex
<1>4. CASE (Stop("exit") /\ Refused(index)) \/ (Stop("outside") /\ idx < 0)
  BY <1>3, <1>4, StopStep
<1>5. CASE ~ Refused(index) /\ ~ (idx < 0) /\ does /\ comp' = comp /\ fault' = fault
  <2>1. idx \in Int /\ idx <= length
    BY <1>1, <1>5, IndexFacts
  <2> HIDE DEF idx
  <2>2. idx \in 0 .. length
    BY <1>1, <1>5, <2>1
  <2>3. ArrayInv' /\ S!Insert(<<data>>, idx)
    BY <1>1, <1>5, <2>2, PutInItems
  <2> QED BY <1>5, <2>3 DEF idx
<1> QED BY <1>2, <1>4, <1>5

(* The items above the place move down; the index -1 takes the last item.   *)
LEMMA DeleteItems ==
  ASSUME ArrayTypeOK, NEW idx \in 0 .. length, length > 0, length' = length - 1,
         is_sorted' = FALSE, UNCHANGED <<capacity, found, comp, fault>>,
         items' = [k \in DOMAIN items |->
                     IF k \in idx .. length - 1 THEN ItemAt(k + 1) ELSE items[k]]
  PROVE  S!Delete(idx)
<1> DEFINE n == length
           q == IF idx = n THEN n ELSE idx + 1
           u == SubSeq(Contents, 1, q - 1) \o SubSeq(Contents, q + 1, Len(Contents))
<1>1. /\ n \in Nat /\ n > 0 /\ idx \in 0 .. n /\ idx \in Nat /\ n <= capacity /\ capacity \in Nat
      /\ items \in [0 .. capacity - 1 -> Element]
  BY DEF ArrayTypeOK
<1>2. items' = [k \in 0 .. capacity - 1 |->
                   IF k \in idx .. n - 1 THEN (IF k + 1 < capacity THEN items[k + 1] ELSE JUNK)
                   ELSE items[k]]
  BY <1>1 DEF ItemAt
<1>3. length' = n - 1 /\ found' = found
  OBVIOUS
<1>6. /\ Contents \in Seq(Element) /\ Len(Contents) = n /\ DOMAIN Contents = 1 .. n
      /\ \A k \in 1 .. n : Contents[k] = items[k - 1]
  BY <1>1, ContentsAre
<1>7. q \in 1 .. n /\ q - 1 \in Nat /\ q \in Nat /\ q - 1 <= q /\ (idx = n \/ q = idx + 1)
      /\ (idx = n => q = n)
  BY <1>1
<1> HIDE DEF q
<1>8. /\ u \in Seq(Element) /\ Len(u) = n - 1
      /\ \A j \in 1 .. q - 1 : u[j] = Contents[j]
      /\ \A j \in 1 .. n - q : u[(q - 1) + j] = Contents[q + j]
  <2> DEFINE v == SubSeq(Contents, 1, q - 1) \o << >> \o SubSeq(Contents, q + 1, Len(Contents))
  <2>1. Spliced(v, Element, Contents, << >>, q - 1, q)
    <3>1. q <= Len(Contents)
      BY <1>6, <1>7
    <3> QED BY <1>6, <1>7, <3>1, EmptyParts, SpliceParts
  <2>2. SubSeq(Contents, 1, q - 1) \o << >> = SubSeq(Contents, 1, q - 1)
    <3>1. \A k \in 1 .. q - 1 : Contents[k] \in Element
      BY <1>1, <1>6, <1>7, ElementOfSeq
    <3>2. SubSeq(Contents, 1, q - 1) \in Seq(Element)
      BY <1>7, <3>1, SubSeqProperties
    <3> QED BY <3>2, ConcatEmptySeq
  <2>3. v = u
    BY <2>2
  <2> HIDE DEF u, v
  <2>4. Spliced(u, Element, Contents, << >>, q - 1, q)
    BY <2>1, <2>3
  <2>5. /\ u \in Seq(Element) /\ Len(u) = (q - 1) + Len(<< >>) + (n - q)
        /\ \A j \in 1 .. q - 1 : u[j] = Contents[j]
        /\ \A j \in 1 .. n - q : u[(q - 1) + Len(<< >>) + j] = Contents[q + j]
    BY <1>6, <2>4 DEF Spliced
  <2>6. Len(<< >>) = 0 /\ (q - 1) + 0 = q - 1
    BY <1>7
  <2>7. (q - 1) + Len(<< >>) + (n - q) = n - 1
    BY <1>1, <1>7, <2>6
  <2> QED BY <2>5, <2>6, <2>7
<1> HIDE DEF u
<1>9. ASSUME NEW k \in 1 .. n - 1 PROVE items'[k - 1] = u[k]
  <2> DEFINE i == k - 1
  <2>1. i \in 0 .. capacity - 1 /\ i = k - 1 /\ i + 1 = k /\ k \in 1 .. n /\ k \in Nat
    BY <1>1
  <2> HIDE DEF i
  <2>2. CASE k \in 1 .. q - 1
    <3>1. i \notin idx .. n - 1
      BY <1>1, <1>7, <2>1, <2>2
    <3>2. items'[i] = items[i] /\ Contents[k] = items[i] /\ u[k] = Contents[k]
      BY <1>2, <1>6, <1>8, <2>1, <2>2, <3>1
    <3> QED BY <2>1, <3>2
  <2>3. CASE ~(k \in 1 .. q - 1)
    <3> DEFINE j == k - (q - 1)
               m == q + j
    <3>1. /\ j \in 1 .. n - q /\ (q - 1) + j = k /\ m \in 1 .. n /\ m - 1 = k
          /\ i \in idx .. n - 1 /\ k < capacity /\ idx # n
      BY <1>1, <1>7, <2>1, <2>3
    <3>2. items'[i] = items[k]
      BY <1>2, <2>1, <3>1
    <3> HIDE DEF j
    <3>3. u[(q - 1) + j] = Contents[m]
      BY <1>8, <3>1
    <3> HIDE DEF m
    <3>4. Contents[m] = items[m - 1]
      BY <1>6, <3>1
    <3> QED BY <2>1, <3>1, <3>2, <3>3, <3>4
  <2> QED BY <2>2, <2>3
<1>10. Contents' = u
  BY <1>3, <1>8, <1>9, ContentsBecome
<1>11. u = S!RemoveAt(Contents, q)
  BY DEF u, S!RemoveAt
<1> QED BY <1>3, <1>6, <1>10, <1>11 DEF q, S!Delete, S!Keep, Contents

LEMMA DeleteDataStep ==
  ASSUME ArrayInv, NEW index \in Indexes, DeleteData(index)
  PROVE  /\ ArrayInv'
         /\ InRange(index) /\ fault = "none" /\ length > 0 =>
              fault' = "none" /\ S!Delete(WriteIndex(index))
<1> DEFINE idx == WriteIndex(index)
           does == /\ length > MinLength
                   /\ length' = length - 1
                   /\ items' = [k \in DOMAIN items |->
                                  IF k \in idx .. length - 1 THEN ItemAt(k + 1) ELSE items[k]]
                   /\ is_sorted' = FALSE
                   /\ UNCHANGED <<capacity, found>>
<1>1. /\ ArrayTypeOK /\ length \in Int /\ length <= capacity /\ capacity \in Nat /\ index \in Int
      /\ items \in [0 .. capacity - 1 -> Element] /\ MinLength \in Int
  BY ArrayAssumption DEF ArrayInv, ArrayTypeOK
<1>2. \/ Stop("exit") /\ Refused(index)
      \/ Stop("outside") /\ idx < 0 /\ idx < length
      \/ ~ Refused(index) /\ does /\ comp' = comp /\ fault' = fault
  BY DEF DeleteData, Guarded
<1>3. InRange(index) => ~ Refused(index) /\ ~ (idx < 0)
  BY <1>1 DEF InRange, Refused, WriteIndex
<1>4. CASE (Stop("exit") /\ Refused(index)) \/ (Stop("outside") /\ idx < 0 /\ idx < length)
  BY <1>3, <1>4, StopStep
<1>5. CASE ~ Refused(index) /\ does /\ comp' = comp /\ fault' = fault
  <2>1. /\ idx \in Int /\ idx <= length
    BY <1>1, <1>5, IndexFacts
  <2>2. InRange(index) => idx \in 0 .. length
    BY DEF InRange
  <2> HIDE DEF idx
  <2>3. ASSUME NEW k \in 0 .. capacity - 1 PROVE items'[k] \in Element
    <3>1. k + 1 < capacity => k + 1 \in 0 .. capacity - 1
      BY <1>1
    <3>2. ItemAt(k + 1) \in Element
      BY <1>1, <3>1, ArrayAssumption DEF ItemAt
    <3> QED BY <1>1, <1>5, <3>2
  <2>4. items' \in [0 .. capacity - 1 -> Element]
    BY <1>1, <1>5, <2>3
  <2>5. length' \in MinLength .. capacity
    BY <1>1, <1>5
  <2>6. ArrayInv'
    BY <1>1, <1>5, <2>4, <2>5 DEF ArrayInv, ArrayTypeOK
  <2>7. ASSUME InRange(index), length > 0 PROVE S!Delete(idx)
    BY <1>1, <1>5, <2>2, <2>7, DeleteItems
  <2> QED BY <1>5, <2>6, <2>7 DEF idx
<1> QED BY <1>2, <1>4, <1>5

LEMMA ClearArrayStep ==
  ASSUME ArrayInv, ClearArray
  PROVE  ArrayInv' /\ S!Empty
<1>1. /\ NewCap \in Nat /\ capacity >= NewCap /\ capacity \in Nat
      /\ items \in [0 .. capacity - 1 -> Element]
  BY ArrayAssumption DEF ArrayInv, ArrayTypeOK
<1>2. /\ items' = [k \in 0 .. NewCap - 1 |-> items[k]] /\ length' = 0 /\ capacity' = NewCap
      /\ is_sorted' = FALSE /\ found' = found /\ comp' = comp /\ fault' = fault
  BY DEF ClearArray
<1>3. \A k \in 0 .. NewCap - 1 : k \in 0 .. capacity - 1
  BY <1>1
<1>4. items' \in [0 .. NewCap - 1 -> Element]
  BY <1>1, <1>2, <1>3
<1>5. ArrayInv'
  <2>1. NewCap >= NewCap /\ 0 \in MinLength .. NewCap
    BY <1>1, ArrayAssumption
  <2> QED BY <1>1, <1>2, <1>4, <2>1 DEF ArrayInv, ArrayTypeOK
<1>6. Contents' = << >>
  <2>1. << >> \in Seq(Element) /\ Len(<< >>) = length' /\ 1 .. length' = {}
    BY <1>2, EmptyParts
  <2> QED BY <2>1, ContentsBecome
<1> QED BY <1>2, <1>5, <1>6 DEF S!Empty, S!Keep, Contents

(* pop_array leaves the order as it is; the last item goes. *)
LEMMA PopArrayStep ==
  ASSUME ArrayInv, PopArray
  PROVE  ArrayInv' /\ S!Delete(length - 1)
<1>1. /\ ArrayTypeOK /\ length \in Nat /\ length > 0 /\ length <= capacity /\ capacity \in Nat
      /\ length' = length - 1 /\ items' = items /\ capacity' = capacity
      /\ is_sorted' = is_sorted /\ found' = found /\ comp' = comp /\ fault' = fault
  BY DEF ArrayInv, ArrayTypeOK, PopArray
<1>2. ArrayTypeOK'
  <2>1. length - 1 \in MinLength .. capacity
    BY <1>1, ArrayAssumption
  <2> QED BY <1>1, <2>1 DEF ArrayTypeOK
<1>3. ArrayInv'
  <2>1. \A k \in 0 .. length' - 1 : k \in 0 .. length - 1
    BY <1>1
  <2> QED BY <1>1, <1>2, <2>1 DEF ArrayInv, Ordered
<1>4. /\ Contents \in Seq(Element) /\ Len(Contents) = length /\ DOMAIN Contents = 1 .. length
      /\ \A k \in 1 .. length : Contents[k] = items[k - 1]
  BY <1>1, ContentsAre
<1> DEFINE u == SubSeq(Contents, 1, length - 1)
<1>5. u \in Seq(Element) /\ Len(u) = length - 1 /\ \A j \in 1 .. length - 1 : u[j] = Contents[j]
  <2>1. \A j \in 1 .. length - 1 : Contents[j] \in Element /\ 1 + j - 1 = j
    BY <1>1, <1>4, ElementOfSeq
  <2>2. /\ u \in Seq(Element) /\ Len(u) = IF 1 <= length - 1 THEN (length - 1) - 1 + 1 ELSE 0
        /\ \A j \in 1 .. (length - 1) - 1 + 1 : u[j] = Contents[1 + j - 1]
    BY <1>1, <2>1, SubSeqProperties
  <2>3. (length - 1) - 1 + 1 = length - 1 /\ (~(1 <= length - 1) => length - 1 = 0)
    BY <1>1
  <2> HIDE DEF u
  <2> QED BY <2>1, <2>2, <2>3
<1>6. Contents' = u
  <2> HIDE DEF u
  <2>1. \A j \in 1 .. length - 1 : j \in 1 .. length
    BY <1>1
  <2>2. Len(u) = length' /\ \A j \in 1 .. length' : items'[j - 1] = u[j]
    BY <1>1, <1>4, <1>5, <2>1
  <2> QED BY <1>5, <2>2, ContentsBecome
<1>7. u = S!RemoveAt(Contents, length)
  <2>1. SubSeq(Contents, length + 1, length) = << >>
    BY <1>1, SubSeqEmpty
  <2>2. u \o << >> = u
    BY <1>5, ConcatEmptySeq
  <2> QED BY <1>4, <2>1, <2>2 DEF S!RemoveAt
<1>8. (IF length - 1 = Len(Contents) THEN length - 1 ELSE (length - 1) + 1) = length
  BY <1>1, <1>4
<1> QED BY <1>1, <1>3, <1>6, <1>7, <1>8 DEF S!Delete, S!Keep, Contents

(* An exchange of two places of the buffer. *)
LEMMA SwapDataStep ==
  ASSUME ArrayInv, NEW idx1 \in Indexes, NEW idx2 \in Indexes, SwapData(idx1, idx2)
  PROVE  /\ ArrayInv'
         /\ OfItem(idx1) /\ OfItem(idx2) /\ fault = "none" =>
              fault' = "none" /\ S!Exchange(ReadIndex(idx1), ReadIndex(idx2))
<1> DEFINE i1 == ReadIndex(idx1)
           i2 == ReadIndex(idx2)
<1>1. /\ ArrayTypeOK /\ length \in Int /\ length <= capacity /\ capacity \in Nat
      /\ items \in [0 .. capacity - 1 -> Element] /\ idx1 \in Int /\ idx2 \in Int
  BY ArrayAssumption DEF ArrayInv, ArrayTypeOK
<1>2. \/ Stop("exit") /\ (Refused(idx1) \/ Refused(idx2))
      \/ Stop("outside") /\ ~ ({i1, i2} \subseteq DOMAIN items)
      \/ /\ {i1, i2} \subseteq DOMAIN items /\ comp' = comp /\ fault' = fault
         /\ UNCHANGED <<length, capacity, found>>
         /\ is_sorted' = FALSE
         /\ items' = [items EXCEPT ![i1] = items[i2], ![i2] = items[i1]]
  BY DEF SwapData, Guarded, Exchanged
<1>3. OfItem(idx1) /\ OfItem(idx2) =>
        /\ ~ Refused(idx1) /\ ~ Refused(idx2) /\ {i1, i2} \subseteq DOMAIN items
        /\ length \in Nat /\ i1 \in 0 .. length - 1 /\ i2 \in 0 .. length - 1
  BY <1>1 DEF OfItem, Refused, ReadIndex
<1> HIDE DEF i1, i2
<1>4. CASE \/ Stop("exit") /\ (Refused(idx1) \/ Refused(idx2))
           \/ Stop("outside") /\ ~ ({i1, i2} \subseteq DOMAIN items)
  BY <1>3, <1>4, StopStep
<1>5. CASE /\ {i1, i2} \subseteq DOMAIN items /\ comp' = comp /\ fault' = fault
           /\ UNCHANGED <<length, capacity, found>>
           /\ is_sorted' = FALSE
           /\ items' = [items EXCEPT ![i1] = items[i2], ![i2] = items[i1]]
  <2>1. /\ items' \in [0 .. capacity - 1 -> Element]
        /\ items'[i2] = items[i1]
        /\ i1 # i2 => items'[i1] = items[i2]
        /\ \A k \in 0 .. capacity - 1 : k # i1 /\ k # i2 => items'[k] = items[k]
    BY <1>1, <1>5
  <2>2. ArrayInv'
    BY <1>1, <1>5, <2>1 DEF ArrayInv, ArrayTypeOK
  <2>3. ASSUME OfItem(idx1), OfItem(idx2) PROVE S!Exchange(i1, i2)
    <3> DEFINE j1 == i1 + 1
               j2 == i2 + 1
               u == [Contents EXCEPT ![j1] = Contents[j2], ![j2] = Contents[j1]]
    <3>0. length \in Nat /\ i1 \in 0 .. length - 1 /\ i2 \in 0 .. length - 1
      BY <1>3, <2>3
    <3>1. /\ j1 \in 1 .. length /\ j2 \in 1 .. length /\ j1 - 1 = i1 /\ j2 - 1 = i2
          /\ \A k \in 1 .. length : (k - 1 = i1 <=> k = j1) /\ (k - 1 = i2 <=> k = j2)
          /\ \A k \in 1 .. length : k - 1 \in 0 .. capacity - 1
      BY <1>1, <3>0
    <3>2. /\ Contents \in Seq(Element) /\ Len(Contents) = length /\ DOMAIN Contents = 1 .. length
          /\ \A k \in 1 .. length : Contents[k] = items[k - 1]
      BY <1>1, <3>0, ContentsAre
    <3>3. Contents' = [k \in 1 .. length |-> items'[k - 1]]
      BY <1>5 DEF Contents
    <3> HIDE DEF j1, j2
    <3>4. Contents[j1] = items[i1] /\ Contents[j2] = items[i2]
      BY <3>1, <3>2
    <3>5. ASSUME NEW k \in 1 .. length PROVE u[k] = items'[k - 1]
      BY <2>1, <3>1, <3>2, <3>4
    <3>6. u = [k \in 1 .. length |-> u[k]]
      BY <3>2
    <3>7. Contents' = u
      <4> HIDE DEF u
      <4> QED BY <3>3, <3>5, <3>6
    <3> QED BY <1>5, <3>7 DEF j1, j2, S!Exchange, S!Keep, Contents
  <2> QED BY <1>5, <2>2, <2>3 DEF i1, i2
<1> QED BY <1>2, <1>4, <1>5

-------------------------------------------------------------------------------
(* Sorting. *)
Buffers == [0 .. capacity - 1 -> Element]
Spots == 0 .. length - 1

(* The places of g hold the items of b that p names, and nothing is moved    *)
(* across or behind the place i.                                             *)
Moved(b, g, p, i) ==
  /\ p \in [Spots -> Spots]
  /\ \A j, k \in Spots : p[j] = p[k] => j = k
  /\ \A k \in Spots : g[k] = b[p[k]] /\ (k <= i => p[k] <= i) /\ (k > i => p[k] = k)

LEMMA MovedLess ==
  ASSUME length \in Nat, NEW b, NEW g, NEW p, NEW i \in Nat, NEW j \in Nat, i <= j, Moved(b, g, p, i)
  PROVE  Moved(b, g, p, j)
<1>1. /\ p \in [Spots -> Spots] /\ \A k, m \in Spots : p[k] = p[m] => k = m
      /\ \A k \in Spots : g[k] = b[p[k]] /\ (k <= i => p[k] <= i) /\ (k > i => p[k] = k)
  BY DEF Moved
<1>2. \A k \in Spots : k \in Int /\ p[k] \in Int
  BY <1>1 DEF Spots
<1>3. ASSUME NEW k \in Spots PROVE (k <= j => p[k] <= j) /\ (k > j => p[k] = k)
  <2>1. CASE k <= i
    BY <1>1, <1>2, <2>1
  <2>2. CASE k > i
    BY <1>1, <1>2, <2>2
  <2> QED BY <1>2, <2>1, <2>2
<1> QED BY <1>1, <1>3 DEF Moved

LEMMA MovedTwice ==
  ASSUME NEW b, NEW g, NEW h, NEW p, NEW q, NEW i, Moved(b, g, p, i), Moved(g, h, q, i)
  PROVE  \E r : Moved(b, h, r, i)
<1> DEFINE r == [k \in Spots |-> p[q[k]]]
<1>1. p \in [Spots -> Spots] /\ q \in [Spots -> Spots]
  BY DEF Moved
<1>2. r \in [Spots -> Spots] /\ \A k \in Spots : r[k] = p[q[k]] /\ q[k] \in Spots
  BY <1>1
<1> HIDE DEF r
<1>3. \A j, k \in Spots : r[j] = r[k] => j = k
  BY <1>2 DEF Moved
<1>4. ASSUME NEW k \in Spots
      PROVE  h[k] = b[r[k]] /\ (k <= i => r[k] <= i) /\ (k > i => r[k] = k)
  BY <1>2 DEF Moved
<1> QED BY <1>2, <1>3, <1>4 DEF Moved

LEMMA NotMoved ==
  ASSUME length \in Nat, NEW b, NEW i
  PROVE  \E p : Moved(b, b, p, i)
<1> DEFINE p == [k \in Spots |-> k]
<1>1. Moved(b, b, p, i)
  BY DEF Moved
<1> QED BY <1>1

(* A comparison exchanges two neighbours, or leaves them. *)
LEMMA ComparedFacts ==
  ASSUME length \in Nat, capacity \in Nat, length <= capacity,
         NEW b \in Buffers, NEW i \in 1 .. length - 1
  PROVE  /\ Compared(b, i) \in Buffers
         /\ \E p : Moved(b, Compared(b, i), p, i)
         /\ Rank[Compared(b, i)[i]] \in Int
         /\ Rank[b[i - 1]] <= Rank[Compared(b, i)[i]]
         /\ Rank[Compared(b, i)[i - 1]] <= Rank[Compared(b, i)[i]]
         /\ \A k \in 0 .. capacity - 1 : k # i /\ k # i - 1 => Compared(b, i)[k] = b[k]
<1> DEFINE g == Compared(b, i)
           h == i - 1
<1>1. /\ i \in Spots /\ h \in Spots /\ h # i /\ h < i /\ i \in Nat /\ h \in Nat
      /\ i \in 0 .. capacity - 1 /\ h \in 0 .. capacity - 1 /\ h = i - 1
      /\ \A k \in Spots : k \in 0 .. capacity - 1 /\ k \in Nat
  BY DEF Spots
<1>2. g = IF Rank[b[h]] > Rank[b[i]] THEN [b EXCEPT ![h] = b[i], ![i] = b[h]] ELSE b
  BY DEF Compared, Exchanged
<1> HIDE DEF g, h
<1>3. b[i] \in Element /\ b[h] \in Element /\ Rank[b[i]] \in Int /\ Rank[b[h]] \in Int
      /\ b \in [0 .. capacity - 1 -> Element]
  BY <1>1, ArrayAssumption DEF Buffers
<1>4. CASE Rank[b[h]] > Rank[b[i]]
  <2> DEFINE p == [k \in Spots |-> IF k = i THEN h ELSE IF k = h THEN i ELSE k]
  <2>1. /\ g \in [0 .. capacity - 1 -> Element] /\ g[i] = b[h] /\ g[h] = b[i]
        /\ \A k \in 0 .. capacity - 1 : k # i /\ k # h => g[k] = b[k]
    BY <1>1, <1>2, <1>3, <1>4
  <2>2. p \in [Spots -> Spots] /\ p[i] = h /\ p[h] = i /\ \A k \in Spots : k # i /\ k # h => p[k] = k
    BY <1>1
  <2> HIDE DEF p
  <2>3. ASSUME NEW j \in Spots, NEW k \in Spots, p[j] = p[k] PROVE j = k
    BY <1>1, <2>2, <2>3
  <2>4. ASSUME NEW k \in Spots
        PROVE  g[k] = b[p[k]] /\ (k <= i => p[k] <= i) /\ (k > i => p[k] = k)
    <3>1. g[k] = b[p[k]]
      BY <1>1, <2>1, <2>2
    <3>2. (k <= i => p[k] <= i) /\ (k > i => p[k] = k)
      BY <1>1, <2>2
    <3> QED BY <3>1, <3>2
  <2>5. Moved(b, g, p, i)
    BY <2>2, <2>3, <2>4 DEF Moved
  <2>6. \E q : Moved(b, g, q, i)
    BY <2>5
  <2>7. Rank[g[i]] \in Int /\ Rank[b[h]] <= Rank[g[i]] /\ Rank[g[h]] <= Rank[g[i]]
    BY <1>3, <1>4, <2>1
  <2> QED BY <2>1, <2>6, <2>7 DEF Buffers, g, h
<1>5. CASE ~ (Rank[b[h]] > Rank[b[i]])
  <2>1. g = b
    BY <1>2, <1>5
  <2>2. \E q : Moved(b, g, q, i)
    BY <2>1, NotMoved
  <2>3. Rank[g[i]] \in Int /\ Rank[b[h]] <= Rank[g[i]] /\ Rank[g[h]] <= Rank[g[i]]
    BY <1>3, <1>5, <2>1
  <2> QED BY <2>1, <2>2, <2>3 DEF g, h
<1> QED BY <1>4, <1>5

(* After a run over the first m + 1 items the largest of them is the last.  *)
Swept(b, g, m) ==
  /\ g \in Buffers
  /\ \E p : Moved(b, g, p, m)
  /\ \A k \in 0 .. m : Rank[g[k]] <= Rank[g[m]]

LEMMA SweepFacts ==
  ASSUME length \in Nat, capacity \in Nat, length <= capacity,
         NEW b \in Buffers, NEW m \in 0 .. length - 1
  PROVE  Swept(b, Sweep(b, m), m)
<1> DEFINE Turn(s, i) == IF i = 0 THEN b ELSE Compared(s[i - 1], i)
           IsRun(s) == s = [i \in 0 .. m |-> Turn(s, i)]
           run == CHOOSE s : IsRun(s)
<1>1. Sweep(b, m) = run[m]
  BY DEF Sweep
<1>2. \E s : IsRun(s)
  <2> DEFINE F == [w \in Buffers \X (1 .. m) |-> Compared(w[1], w[2])]
  <2>1. \A c \in Buffers, i \in 1 .. m : Compared(c, i) \in Buffers
    <3>1. \A i \in 1 .. m : i \in 1 .. length - 1
      OBVIOUS
    <3> QED BY <3>1, ComparedFacts
  <2>2. F \in [Buffers \X (1 .. m) -> Buffers]
    BY <2>1
  <2>3. \A c \in Buffers, i \in 1 .. m : F[<<c, i>>] = Compared(c, i)
    OBVIOUS
  <2> HIDE DEF F
  <2>4. PICK f \in [0 .. m -> Buffers] : f[0] = b /\ \A i \in 1 .. m : f[i] = F[<<f[i - 1], i>>]
    <3>1. m \in Nat /\ b \in Buffers
      OBVIOUS
    <3> HIDE DEF Turn, IsRun
    <3>2. \E f \in [0 .. m -> Buffers] : Iterates(f, m, b, F)
      BY <2>2, <3>1, IterationExists
    <3> QED BY <3>2 DEF Iterates
  <2>5. \A i \in 1 .. m : f[i] = Compared(f[i - 1], i)
    <3>1. \A i \in 1 .. m : f[i - 1] \in Buffers
      BY <2>4
    <3> QED BY <2>3, <2>4, <3>1
  <2>6. \A i \in 0 .. m : f[i] = Turn(f, i)
    BY <2>4, <2>5
  <2> HIDE DEF Turn
  <2>7. f = [i \in 0 .. m |-> Turn(f, i)]
    BY <2>4, <2>6
  <2> QED BY <2>7
<1>3. IsRun(run)
  BY <1>2
<1> HIDE DEF run
<1>4. run[0] = b /\ \A i \in 1 .. m : run[i] = Compared(run[i - 1], i)
  <2>1. \A i \in 0 .. m : run[i] = Turn(run, i)
    <3> HIDE DEF Turn
    <3>1. run = [i \in 0 .. m |-> Turn(run, i)]
      BY <1>3
    <3> DEFINE T(i) == Turn(run, i)
    <3>2. run = [i \in 0 .. m |-> T(i)]
      BY <3>1
    <3> HIDE DEF T
    <3>3. \A i \in 0 .. m : run[i] = T(i)
      BY <3>2
    <3> QED BY <3>3 DEF T
  <2> QED BY <2>1
<1> HIDE DEF IsRun
<1> DEFINE N == {i \in Nat : i <= m => Swept(b, run[i], i)}
<1>5. 0 \in N
  <2>1. \E p : Moved(b, b, p, 0)
    BY NotMoved
  <2>2. Rank[b[0]] \in Int /\ 0 .. 0 = {0}
    <3>1. 0 \in 0 .. capacity - 1
      OBVIOUS
    <3> QED BY <3>1, ArrayAssumption DEF Buffers
  <2> QED BY <1>4, <2>1, <2>2 DEF Swept
<1>6. ASSUME NEW h \in Nat, h \in N, h + 1 <= m PROVE Swept(b, run[h + 1], h + 1)
  <2> DEFINE i == h + 1
             c == run[h]
             g == run[i]
  <2>1. i \in 1 .. length - 1 /\ i - 1 = h /\ i \in Nat /\ h \in Nat /\ h <= i /\ h <= m /\ i \in 1 .. m
        /\ h \in Spots /\ i \in Spots
    BY <1>6 DEF Spots
  <2>2. Swept(b, c, h)
    BY <1>6, <2>1
  <2>3. g = Compared(c, i)
    BY <1>4, <2>1
  <2> HIDE DEF g, c, i
  <2>4. c \in Buffers /\ \A k \in 0 .. h : Rank[c[k]] <= Rank[c[h]]
    BY <2>2 DEF Swept
  <2>5. PICK p : Moved(b, c, p, h)
    BY <2>2 DEF Swept
  <2>6. /\ g \in Buffers
        /\ \E q : Moved(c, g, q, i)
        /\ Rank[g[i]] \in Int
        /\ Rank[c[h]] <= Rank[g[i]]
        /\ Rank[g[h]] <= Rank[g[i]]
        /\ \A k \in 0 .. capacity - 1 : k # i /\ k # h => g[k] = c[k]
    BY <2>1, <2>3, <2>4, ComparedFacts
  <2>7. PICK q : Moved(c, g, q, i)
    BY <2>6
  <2>8. Moved(b, c, p, i)
    BY <2>1, <2>5, MovedLess
  <2>9. \E r : Moved(b, g, r, i)
    BY <2>7, <2>8, MovedTwice
  <2>10. ASSUME NEW k \in 0 .. i PROVE Rank[g[k]] <= Rank[g[i]]
    <3>1. CASE k = i
      BY <2>6, <3>1
    <3>2. CASE k = h
      BY <2>6, <3>2
    <3>3. CASE k # i /\ k # h
      <4>1. k \in 0 .. h /\ k \in 0 .. capacity - 1 /\ h \in 0 .. capacity - 1
        BY <2>1, <3>3
      <4>2. g[k] = c[k] /\ Rank[c[k]] <= Rank[c[h]]
        BY <2>4, <2>6, <3>3, <4>1
      <4>3. Rank[c[k]] \in Int /\ Rank[c[h]] \in Int
        BY <2>4, <4>1, ArrayAssumption DEF Buffers
      <4> QED BY <2>6, <4>2, <4>3
    <3> QED BY <3>1, <3>2, <3>3
  <2>11. Swept(b, g, i)
    BY <2>6, <2>9, <2>10 DEF Swept
  <2> QED BY <2>11 DEF g, i
<1>7. ASSUME NEW h \in Nat, h \in N PROVE h + 1 \in N
  BY <1>6, <1>7
<1>8. m \in N
  <2> HIDE DEF N
  <2>1. m \in Nat
    OBVIOUS
  <2> QED BY <1>5, <1>7, <2>1, NatSetInduction
<1> QED BY <1>1, <1>8

(* After k runs the last k places hold what belongs there. *)
Settled(g, k) ==
  /\ g \in Buffers
  /\ \E p : Moved(items, g, p, length - 1)
  /\ \A q \in Spots : q >= length - k => \A j \in 0 .. q : Rank[g[j]] <= Rank[g[q]]

LEMMA SettledMore ==
  ASSUME length \in Nat, capacity \in Nat, length <= capacity,
         NEW g, NEW k \in 1 .. length - 1, Settled(g, k - 1)
  PROVE  Settled(Sweep(g, length - k), k)
<1> DEFINE m == length - k
           last == length - 1
           h == Sweep(g, m)
<1>1. /\ m \in 0 .. length - 1 /\ m \in Nat /\ last \in Nat /\ m <= last
      /\ length - (k - 1) = m + 1 /\ m = length - k
  OBVIOUS
<1>2. /\ g \in Buffers /\ \E p : Moved(items, g, p, last)
      /\ \A q \in Spots : q >= m + 1 => \A j \in 0 .. q : Rank[g[j]] <= Rank[g[q]]
  BY <1>1 DEF Settled
<1>3. Swept(g, h, m)
  BY <1>1, <1>2, SweepFacts
<1> HIDE DEF h, m, last
<1>4. PICK q : Moved(g, h, q, m)
  BY <1>3 DEF Swept
<1>5. \E p : Moved(items, h, p, last)
  <2>1. Moved(g, h, q, last)
    BY <1>1, <1>4, MovedLess
  <2> QED BY <1>2, <2>1, MovedTwice
<1>6. ASSUME NEW t \in Spots, t >= m, NEW j \in 0 .. t PROVE Rank[h[j]] <= Rank[h[t]]
  <2>0. t \in Nat /\ j \in Nat /\ j \in Spots
    BY DEF Spots
  <2>1. CASE t = m
    BY <1>3, <2>1 DEF Swept
  <2>2. CASE t # m
    <3>1. t > m /\ t >= m + 1
      BY <1>1, <1>6, <2>0, <2>2
    <3>2. /\ h[t] = g[q[t]] /\ q[t] = t /\ h[j] = g[q[j]] /\ q[j] \in Spots
          /\ (j <= m => q[j] <= m) /\ (j > m => q[j] = j)
      BY <1>4, <2>0, <3>1 DEF Moved
    <3>3. q[j] \in 0 .. t
      <4>1. q[j] \in Nat
        BY <3>2 DEF Spots
      <4> QED BY <1>1, <2>0, <3>1, <3>2, <4>1
    <3>4. Rank[g[q[j]]] <= Rank[g[t]]
      BY <1>2, <3>1, <3>3
    <3> QED BY <3>2, <3>4
  <2> QED BY <2>1, <2>2
<1>7. h \in Buffers
  BY <1>3 DEF Swept
<1>8. Settled(h, k)
  BY <1>1, <1>5, <1>6, <1>7 DEF Settled, last
<1> QED BY <1>8 DEF h, m

(* sort_array: the runs leave the items in order, and none is lost or       *)
(* doubled.                                                                  *)
LEMMA SortedFacts ==
  ASSUME ArrayTypeOK, length >= 2
  PROVE  /\ SortedItems \in Buffers
         /\ \E p : Moved(items, SortedItems, p, length - 1)
         /\ Ordered(SortedItems, length)
<1> DEFINE n == length - 1
           Turn(s, k) == IF k = 0 THEN items ELSE Sweep(s[k - 1], length - k)
           IsSort(s) == s = [k \in 0 .. n |-> Turn(s, k)]
           sort == CHOOSE s : IsSort(s)
<1>0. /\ length \in Nat /\ capacity \in Nat /\ length <= capacity /\ n \in Nat /\ n \in 1 .. n
      /\ n = length - 1 /\ ~(length < 2) /\ items \in Buffers
  BY DEF ArrayTypeOK, Buffers
<1>1. SortedItems = sort[n]
  BY <1>0 DEF SortedItems
<1> HIDE DEF n
<1>2. \E s : IsSort(s)
  <2> DEFINE F == [w \in Buffers \X (1 .. n) |-> Sweep(w[1], length - w[2])]
  <2>1. \A b \in Buffers, k \in 1 .. n : Sweep(b, length - k) \in Buffers
    <3> SUFFICES ASSUME NEW b \in Buffers, NEW k \in 1 .. n PROVE Sweep(b, length - k) \in Buffers
      OBVIOUS
    <3>1. length - k \in 0 .. length - 1
      BY <1>0
    <3>2. Swept(b, Sweep(b, length - k), length - k)
      BY <1>0, <3>1, SweepFacts
    <3> QED BY <3>2 DEF Swept
  <2>2. F \in [Buffers \X (1 .. n) -> Buffers]
    BY <2>1
  <2>3. \A b \in Buffers, k \in 1 .. n : F[<<b, k>>] = Sweep(b, length - k)
    OBVIOUS
  <2> HIDE DEF F
  <2>4. PICK f \in [0 .. n -> Buffers] : f[0] = items /\ \A k \in 1 .. n : f[k] = F[<<f[k - 1], k>>]
    <3> HIDE DEF Turn, IsSort
    <3>1. \E f \in [0 .. n -> Buffers] : Iterates(f, n, items, F)
      BY <1>0, <2>2, IterationExists
    <3> QED BY <3>1 DEF Iterates
  <2>5. \A k \in 1 .. n : f[k] = Sweep(f[k - 1], length - k)
    <3>1. \A k \in 1 .. n : f[k - 1] \in Buffers
      BY <1>0, <2>4
    <3> QED BY <2>3, <2>4, <3>1
  <2>6. \A k \in 0 .. n : f[k] = Turn(f, k)
    BY <1>0, <2>4, <2>5
  <2> HIDE DEF Turn
  <2>7. f = [k \in 0 .. n |-> Turn(f, k)]
    BY <2>4, <2>6
  <2> QED BY <2>7
<1>3. IsSort(sort)
  BY <1>2
<1> HIDE DEF sort
<1>4. sort[0] = items /\ \A k \in 1 .. n : sort[k] = Sweep(sort[k - 1], length - k)
  <2>1. \A k \in 0 .. n : sort[k] = Turn(sort, k)
    <3> HIDE DEF Turn
    <3> DEFINE T(k) == Turn(sort, k)
    <3>2. sort = [k \in 0 .. n |-> T(k)]
      BY <1>3
    <3> HIDE DEF T, IsSort
    <3>3. \A k \in 0 .. n : sort[k] = T(k)
      BY <3>2
    <3> QED BY <3>3 DEF T
  <2> QED BY <1>0, <2>1
<1> HIDE DEF IsSort
<1> DEFINE N == {k \in Nat : k <= n => Settled(sort[k], k)}
<1>5. 0 \in N
  <2>1. \E p : Moved(items, items, p, length - 1)
    BY <1>0, NotMoved
  <2>2. \A q \in Spots : ~(q >= length - 0)
    BY <1>0 DEF Spots
  <2>3. Settled(sort[0], 0)
    BY <1>0, <1>4, <2>1, <2>2 DEF Settled
  <2> QED BY <2>3
<1>6. ASSUME NEW h \in Nat, h \in N, h + 1 <= n PROVE Settled(sort[h + 1], h + 1)
  <2> DEFINE k == h + 1
  <2>1. k \in 1 .. length - 1 /\ k - 1 = h /\ k \in 1 .. n /\ h <= n
    BY <1>0, <1>6
  <2>2. Settled(sort[h], k - 1)
    BY <1>6, <2>1
  <2> HIDE DEF k
  <2>3. Settled(Sweep(sort[h], length - k), k)
    BY <1>0, <2>1, <2>2, SettledMore
  <2>4. sort[k] = Sweep(sort[h], length - k)
    BY <1>4, <2>1
  <2>5. Settled(sort[k], k)
    BY <2>3, <2>4
  <2> QED BY <2>5 DEF k
<1>7. ASSUME NEW h \in Nat, h \in N PROVE h + 1 \in N
  BY <1>6, <1>7
<1>8. n \in N
  <2> HIDE DEF N
  <2> QED BY <1>0, <1>5, <1>7, NatSetInduction
<1>9. Settled(SortedItems, n)
  BY <1>0, <1>1, <1>8
<1>10. ASSUME NEW j \in 0 .. length - 1, NEW k \in 0 .. length - 1, j < k
       PROVE  Rank[SortedItems[j]] <= Rank[SortedItems[k]]
  <2>1. k \in Spots /\ k >= length - n /\ j \in 0 .. k
    BY <1>0, <1>10 DEF Spots
  <2> QED BY <1>9, <2>1 DEF Settled
<1>11. Ordered(SortedItems, length)
  BY <1>10 DEF Ordered
<1> QED BY <1>9, <1>11 DEF Settled

LEMMA SameCardinality == \A P : S!Cardinality(P) = Cardinality(P)
  BY DEF S!Cardinality, Cardinality

(* As many items are equal to x after a rearrangement as before. *)
LEMMA MovedCounts ==
  ASSUME ArrayTypeOK, length \in Nat, NEW x, NEW g, NEW p, Moved(items, g, p, length - 1),
         NEW u, u = [k \in 1 .. length |-> g[k - 1]]
  PROVE  S!Count(u, x) = S!Count(Contents, x)
<1> DEFINE A == {k \in 1 .. length : u[k] = x}
           B == {k \in 1 .. length : Contents[k] = x}
           f == [k \in A |-> p[k - 1] + 1]
<1>1. DOMAIN Contents = 1 .. length /\ DOMAIN u = 1 .. length
  BY ContentsAre
<1>2. /\ p \in [Spots -> Spots] /\ \A j, k \in Spots : p[j] = p[k] => j = k
      /\ \A k \in Spots : g[k] = items[p[k]]
  BY DEF Moved
<1>3. p \in Surjection(Spots, Spots)
  <2>1. IsFiniteSet(Spots)
    BY FS_Interval DEF Spots
  <2>2. p \in Injection(Spots, Spots)
    BY <1>2, Fun_IsInj
  <2> QED BY <2>1, <2>2, FS_Injection
<1>4. ASSUME NEW k \in 1 .. length
      PROVE  /\ k - 1 \in Spots /\ p[k - 1] \in Spots /\ p[k - 1] + 1 \in 1 .. length
             /\ u[k] = Contents[p[k - 1] + 1]
  <2> DEFINE i == k - 1
             o == p[i]
             q == o + 1
  <2>1. i \in Spots
    BY DEF Spots
  <2>2. o \in Spots /\ g[i] = items[o]
    BY <1>2, <2>1
  <2> HIDE DEF o
  <2>3. q \in 1 .. length /\ q - 1 = o
    BY <2>2 DEF Spots
  <2> HIDE DEF q
  <2>4. Contents[q] = items[q - 1]
    BY <2>3, ContentsAre
  <2>5. u[k] = g[i]
    OBVIOUS
  <2> QED BY <2>1, <2>2, <2>3, <2>4, <2>5 DEF o, q
<1>5. ASSUME NEW j \in A PROVE f[j] \in B
  BY <1>4
<1>6. ASSUME NEW j \in A, NEW k \in A, f[j] = f[k] PROVE j = k
  <2>1. p[j - 1] = p[k - 1]
    <3>1. p[j - 1] \in Int /\ p[k - 1] \in Int /\ p[j - 1] + 1 = p[k - 1] + 1
      BY <1>4, <1>6 DEF Spots
    <3> QED BY <3>1
  <2>2. j - 1 = k - 1
    BY <1>2, <1>4, <2>1
  <2> QED BY <2>2
<1>7. ASSUME NEW y \in B PROVE \E k \in A : f[k] = y
  <2> DEFINE o == y - 1
  <2>1. o \in Spots /\ o + 1 = y
    BY DEF Spots
  <2> HIDE DEF o
  <2>2. PICK i \in Spots : p[i] = o
    BY <1>3, <2>1, Fun_SurjectionProperties
  <2> DEFINE k == i + 1
  <2>3. k \in 1 .. length /\ k - 1 = i
    BY DEF Spots
  <2> HIDE DEF k
  <2>4. p[k - 1] + 1 = y
    BY <2>1, <2>2, <2>3
  <2>5. k \in A
    BY <1>4, <2>3, <2>4
  <2> QED BY <2>4, <2>5
<1>8. ExistsBijection(A, B)
  <2>1. f \in [A -> B]
    BY <1>5
  <2> HIDE DEF f, A, B
  <2>2. f \in Bijection(A, B)
    BY <1>6, <1>7, <2>1, Fun_IsBij
  <2> QED BY <2>2 DEF ExistsBijection
<1>9. IsFiniteSet(A)
  <2>1. IsFiniteSet(1 .. length)
    BY FS_Interval
  <2> QED BY <2>1, FS_Subset
<1>10. Cardinality(A) = Cardinality(B)
  <2> HIDE DEF A, B
  <2> QED BY <1>8, <1>9, FS_Bijection
<1>11. S!Count(u, x) = Cardinality(A) /\ S!Count(Contents, x) = Cardinality(B)
  BY <1>1, SameCardinality DEF S!Count
<1> QED BY <1>10, <1>11

(* What is in order is in order for the sequence. *)
LEMMA OrderedContents ==
  ASSUME length' \in Int, Ordered(items', length')
  PROVE  S!InOrder(Contents')
<1>1. Contents' = [k \in 1 .. length' |-> items'[k - 1]]
  BY DEF Contents
<1>2. ASSUME NEW j \in 1 .. length', NEW k \in 1 .. length', j < k
      PROVE  Rank[(Contents')[j]] <= Rank[(Contents')[k]]
  <2> DEFINE a == j - 1
             b == k - 1
  <2>1. a \in 0 .. length' - 1 /\ b \in 0 .. length' - 1 /\ a < b
    <3>1. ASSUME NEW n \in Int, NEW x \in 1 .. n, NEW y \in 1 .. n, x < y
          PROVE  x - 1 \in 0 .. n - 1 /\ y - 1 \in 0 .. n - 1 /\ x - 1 < y - 1
      BY <3>1
    <3> QED BY <1>2, <3>1
  <2>2. (Contents')[j] = items'[a] /\ (Contents')[k] = items'[b]
    BY <1>1
  <2> HIDE DEF a, b
  <2> QED BY <2>1, <2>2 DEF Ordered
<1>3. DOMAIN (Contents') = 1 .. length'
  BY <1>1
<1> HIDE DEF Contents
<1> QED BY <1>2, <1>3 DEF S!InOrder

(* sort_array, and the sorting of find_array_index. *)
LEMMA SortSorts ==
  ASSUME ArrayTypeOK, length' = length, items' = SortedItems
  PROVE  S!Sorted(Contents') /\ Ordered(items', length') /\ items' \in Buffers
<1>0. length \in Int /\ items \in Buffers
  BY DEF ArrayTypeOK, Buffers
<1>1. CASE length < 2
  <2>1. items' = items
    BY <1>1 DEF SortedItems
  <2>2. \A j, k \in 0 .. length - 1 : ~(j < k)
    BY <1>0, <1>1
  <2>3. Ordered(items', length')
    BY <2>2 DEF Ordered
  <2>4. Contents' = Contents
    BY <2>1 DEF Contents
  <2>5. S!InOrder(Contents')
    BY <1>0, <2>3, OrderedContents
  <2> QED BY <1>0, <2>1, <2>3, <2>4, <2>5 DEF S!Sorted, Contents
<1>2. CASE ~(length < 2)
  <2>1. /\ SortedItems \in Buffers
        /\ \E p : Moved(items, SortedItems, p, length - 1)
        /\ Ordered(SortedItems, length)
    BY <1>0, <1>2, SortedFacts
  <2>2. length \in Nat
    BY <1>0, <1>2
  <2> DEFINE u == [k \in 1 .. length |-> SortedItems[k - 1]]
  <2>3. Contents' = u
    BY DEF Contents
  <2>4. Len(u) = length
    BY <2>2
  <2>5. \A x \in Element : S!Count(u, x) = S!Count(Contents, x)
    <3> HIDE DEF u
    <3>1. u = [k \in 1 .. length |-> SortedItems[k - 1]]
      BY DEF u
    <3> QED BY <2>1, <2>2, <3>1, MovedCounts
  <2> HIDE DEF u
  <2>6. Len(Contents) = length
    BY <2>2, ContentsAre
  <2>7. S!InOrder(u)
    BY <1>0, <2>1, <2>3, OrderedContents
  <2>8. S!Sorted(u)
    BY <2>4, <2>5, <2>6, <2>7 DEF S!Sorted, Contents
  <2> QED BY <2>1, <2>3, <2>8
<1> QED BY <1>1, <1>2

LEMMA SortArrayStep ==
  ASSUME ArrayInv, SortArray
  PROVE  ArrayInv' /\ (comp => S!Sort)
<1>1. CASE ~ comp /\ length >= 2
  <2>1. Stop("null")
    BY <1>1 DEF SortArray
  <2> QED BY <1>1, <2>1, StopStep
<1>2. CASE ~ (~ comp /\ length >= 2)
  <2>1. /\ items' = SortedItems /\ length' = length /\ capacity' = capacity
        /\ is_sorted' = TRUE /\ found' = found /\ comp' = comp /\ fault' = fault /\ ArrayTypeOK
    BY <1>2 DEF SortArray, ArrayInv
  <2>2. S!Sorted(Contents') /\ Ordered(items', length') /\ items' \in Buffers
    BY <2>1, SortSorts
  <2>3. ArrayTypeOK'
    BY <2>1, <2>2 DEF ArrayTypeOK, Buffers
  <2> QED BY <2>1, <2>2, <2>3 DEF ArrayInv, S!Sort, S!Keep, Contents
<1> QED BY <1>1, <1>2

-------------------------------------------------------------------------------
(* The binary search, on pairs of a lower and an upper end. *)
Pairs == (0 .. length) \X (-1 .. length - 1)
Mid(w) == w[1] + (w[2] - w[1]) \div 2
Width(w) == w[2] - w[1] + 1

(* One turn of the loop of find_array_index, when f answers the others.     *)
Probe(f, b, key, w) ==
  IF w[1] > w[2] THEN -1
  ELSE IF Rank[key] = Rank[b[Mid(w)]] THEN Mid(w)
  ELSE IF Rank[key] > Rank[b[Mid(w)]] THEN f[<<Mid(w) + 1, w[2]>>]
  ELSE f[<<w[1], Mid(w) - 1>>]

IsSearch(f, b, key) == f = [w \in Pairs |-> Probe(f, b, key, w)]

(* The middle is between the ends, and both parts are smaller. *)
LEMMA MidBetween ==
  ASSUME length \in Nat, NEW w \in Pairs, w[1] <= w[2]
  PROVE  /\ Mid(w) \in w[1] .. w[2] /\ Mid(w) \in 0 .. length - 1
         /\ <<Mid(w) + 1, w[2]>> \in Pairs /\ <<w[1], Mid(w) - 1>> \in Pairs
         /\ Width(<<Mid(w) + 1, w[2]>>) <= Width(w) - 1
         /\ Width(<<w[1], Mid(w) - 1>>) <= Width(w) - 1
<1>1. w[1] \in 0 .. length /\ w[2] \in -1 .. length - 1
  BY DEF Pairs
<1>2. w[1] \in Nat /\ w[2] \in Nat /\ w[2] <= length - 1
  BY <1>1
<1>3. ASSUME NEW x \in Nat PROVE x \div 2 \in 0 .. x
  OBVIOUS
<1>4. Mid(w) \in w[1] .. w[2]
  <2>1. w[2] - w[1] \in Nat
    BY <1>2
  <2>2. (w[2] - w[1]) \div 2 \in 0 .. w[2] - w[1]
    BY <1>3, <2>1
  <2> QED BY <1>2, <2>2 DEF Mid
<1>5. ASSUME NEW m \in w[1] .. w[2]
      PROVE  /\ m \in 0 .. length - 1
             /\ <<m + 1, w[2]>> \in Pairs /\ <<w[1], m - 1>> \in Pairs
             /\ Width(<<m + 1, w[2]>>) <= Width(w) - 1
             /\ Width(<<w[1], m - 1>>) <= Width(w) - 1
  <2>1. m \in Nat /\ m \in 0 .. length - 1 /\ m + 1 \in 0 .. length /\ m - 1 \in -1 .. length - 1
    BY <1>2
  <2>2. <<m + 1, w[2]>> \in Pairs /\ <<w[1], m - 1>> \in Pairs
    BY <1>1, <2>1 DEF Pairs
  <2>3. ASSUME NEW lo \in Int, NEW hi \in Int, NEW v, v = <<lo, hi>>
        PROVE  Width(v) = hi - lo + 1
    BY <2>3 DEF Width
  <2>4. PICK lo \in Int, hi \in Int : lo = w[1] /\ hi = w[2]
    BY <1>2
  <2>5. Width(w) = hi - lo + 1
    BY <2>4 DEF Width
  <2>6. Width(<<m + 1, w[2]>>) = hi - (m + 1) + 1 /\ Width(<<w[1], m - 1>>) = (m - 1) - lo + 1
    <3>1. m + 1 \in Int /\ m - 1 \in Int
      BY <2>1
    <3> QED BY <2>3, <2>4, <3>1
  <2>7. lo <= m /\ m <= hi
    BY <1>2, <2>4
  <2> HIDE DEF Width
  <2>8. Width(<<m + 1, w[2]>>) <= Width(w) - 1
    <3>1. hi - (m + 1) + 1 <= (hi - lo + 1) - 1
      BY <2>1, <2>7
    <3> QED BY <2>5, <2>6, <3>1
  <2>9. Width(<<w[1], m - 1>>) <= Width(w) - 1
    <3>1. (m - 1) - lo + 1 <= (hi - lo + 1) - 1
      BY <2>1, <2>7
    <3> QED BY <2>5, <2>6, <3>1
  <2> QED BY <2>1, <2>2, <2>8, <2>9
<1> QED BY <1>4, <1>5

LEMMA WidthType ==
  ASSUME length \in Nat, NEW w \in Pairs
  PROVE  Width(w) \in Int /\ Width(w) <= length /\ (w[1] > w[2] <=> Width(w) <= 0)
         /\ w[1] \in Int /\ w[2] \in Int
<1>1. w[1] \in 0 .. length /\ w[2] \in -1 .. length - 1
  BY DEF Pairs
<1> QED BY <1>1 DEF Width

(* Where two functions agree on what is narrower, so do their turns. *)
LEMMA ProbeNarrower ==
  ASSUME length \in Nat, NEW f, NEW g, NEW b, NEW key, NEW w \in Pairs, NEW m \in Int,
         Width(w) <= m + 1, \A v \in Pairs : Width(v) <= m => f[v] = g[v]
  PROVE  Probe(f, b, key, w) = Probe(g, b, key, w)
<1>1. CASE w[1] > w[2]
  BY <1>1 DEF Probe
<1>2. CASE ~(w[1] > w[2])
  <2> DEFINE u == <<Mid(w) + 1, w[2]>>
             v == <<w[1], Mid(w) - 1>>
  <2>1. w[1] <= w[2] /\ Width(w) \in Int
    BY <1>2, WidthType
  <2>2. u \in Pairs /\ v \in Pairs /\ Width(u) <= Width(w) - 1 /\ Width(v) <= Width(w) - 1
    BY <2>1, MidBetween
  <2>3. Width(u) <= m /\ Width(v) <= m
    <3> HIDE DEF u, v
    <3>1. Width(u) \in Int /\ Width(v) \in Int
      BY <2>2, WidthType
    <3> QED BY <2>1, <2>2, <3>1
  <2>4. f[u] = g[u] /\ f[v] = g[v]
    BY <2>2, <2>3
  <2> QED BY <2>4 DEF Probe
<1> QED BY <1>1, <1>2

LEMMA SearchExists ==
  ASSUME length \in Nat, NEW b, NEW key
  PROVE  \E f : IsSearch(f, b, key)
<1> DEFINE Upto(f, m) ==
             /\ f = [w \in Pairs |-> f[w]]
             /\ \A w \in Pairs : Width(w) <= m => f[w] = Probe(f, b, key, w)
           Ex(m) == \E f : Upto(f, m)
           N == {m \in Nat : Ex(m)}
<1>1. 0 \in N
  <2> DEFINE f == [w \in Pairs |-> -1]
  <2>1. ASSUME NEW w \in Pairs, Width(w) <= 0 PROVE f[w] = Probe(f, b, key, w)
    <3>1. w[1] > w[2]
      BY <2>1, WidthType
    <3> QED BY <3>1 DEF Probe
  <2>2. f = [w \in Pairs |-> f[w]]
    OBVIOUS
  <2> HIDE DEF f
  <2>3. Upto(f, 0)
    BY <2>1, <2>2
  <2> QED BY <2>3
<1>2. ASSUME NEW m \in Nat, m \in N PROVE m + 1 \in N
  <2>1. PICK f : Upto(f, m)
    BY <1>2
  <2> DEFINE g == [w \in Pairs |-> IF Width(w) <= m THEN f[w] ELSE Probe(f, b, key, w)]
  <2>2. \A w \in Pairs : Width(w) <= m => f[w] = g[w]
    OBVIOUS
  <2>3. \A w \in Pairs : g[w] = Probe(f, b, key, w)
    BY <2>1
  <2>4. g = [w \in Pairs |-> g[w]]
    OBVIOUS
  <2> HIDE DEF g
  <2>5. ASSUME NEW w \in Pairs, Width(w) <= m + 1 PROVE g[w] = Probe(g, b, key, w)
    <3>1. Probe(f, b, key, w) = Probe(g, b, key, w)
      BY <2>2, <2>5, ProbeNarrower
    <3> QED BY <2>3, <3>1
  <2>6. Upto(g, m + 1)
    BY <2>4, <2>5
  <2> QED BY <2>6
<1>3. length \in N
  <2> HIDE DEF N
  <2> QED BY <1>1, <1>2, NatSetInduction
<1>4. PICK f : Upto(f, length)
  BY <1>3
<1>5. \A w \in Pairs : f[w] = Probe(f, b, key, w)
  BY <1>4, WidthType
<1>6. IsSearch(f, b, key)
  BY <1>4, <1>5 DEF IsSearch
<1> QED BY <1>6

(* What the search has to answer for the places w[1] .. w[2]. *)
Answers(i, b, key, w) ==
  \/ i = -1 /\ \A k \in w[1] .. w[2] : Rank[b[k]] # Rank[key]
  \/ i \in w[1] .. w[2] /\ Rank[b[i]] = Rank[key]

(* In what is in order, a turn excludes only places that cannot be it.       *)
LEMMA ProbeAnswers ==
  ASSUME length \in Nat, NEW b, NEW key, Rank[key] \in Int,
         \A k \in 0 .. length - 1 : Rank[b[k]] \in Int, Ordered(b, length),
         NEW f, NEW m \in Int, NEW w \in Pairs, Width(w) <= m + 1,
         \A v \in Pairs : Width(v) <= m => Answers(f[v], b, key, v)
  PROVE  Answers(Probe(f, b, key, w), b, key, w)
<1> DEFINE lo == w[1]
           hi == w[2]
           mid == Mid(w)
<1>0. lo \in 0 .. length /\ hi \in -1 .. length - 1
  BY DEF Pairs
<1>1. CASE lo > hi
  BY <1>0, <1>1 DEF Probe, Answers
<1>2. CASE lo <= hi
  <2> DEFINE u == <<mid + 1, hi>>
             v == <<lo, mid - 1>>
  <2>1. /\ mid \in lo .. hi /\ mid \in 0 .. length - 1 /\ u \in Pairs /\ v \in Pairs
        /\ Width(u) <= Width(w) - 1 /\ Width(v) <= Width(w) - 1
    BY <1>2, MidBetween
  <2>2. Width(u) <= m /\ Width(v) <= m
    <3> HIDE DEF u, v
    <3>1. Width(u) \in Int /\ Width(v) \in Int /\ Width(w) \in Int
      BY <2>1, WidthType
    <3> QED BY <2>1, <3>1
  <2>3. Answers(f[u], b, key, u) /\ Answers(f[v], b, key, v)
    BY <2>1, <2>2
  <2>4. u[1] = mid + 1 /\ u[2] = hi /\ v[1] = lo /\ v[2] = mid - 1
    OBVIOUS
  <2>5. Probe(f, b, key, w) =
          IF Rank[key] = Rank[b[mid]] THEN mid
          ELSE IF Rank[key] > Rank[b[mid]] THEN f[u] ELSE f[v]
    BY <1>0, <1>2 DEF Probe
  <2> HIDE DEF u, v, mid, lo, hi
  <2>6. lo \in Int /\ hi \in Int /\ mid \in Int /\ lo <= mid /\ mid <= hi /\ 0 <= lo /\ hi <= length - 1
    BY <1>0, <2>1
  <2>7. \A k \in lo .. hi : k \in 0 .. length - 1
    BY <2>6
  <2>8. Rank[b[mid]] \in Int /\ \A k \in lo .. hi : Rank[b[k]] \in Int
    BY <2>1, <2>7
  <2>9. CASE Rank[key] = Rank[b[mid]]
    BY <2>1, <2>5, <2>9 DEF Answers, lo, hi
  <2>10. CASE Rank[key] > Rank[b[mid]]
    <3>1. ASSUME NEW k \in lo .. hi, k <= mid PROVE Rank[b[k]] # Rank[key]
      <4>1. k = mid \/ k < mid
        BY <2>6, <3>1
      <4>2. Rank[b[k]] <= Rank[b[mid]]
        BY <2>1, <2>7, <2>8, <4>1 DEF Ordered
      <4> QED BY <2>8, <2>10, <4>2
    <3>2. Probe(f, b, key, w) = f[u]
      BY <2>5, <2>8, <2>10
    <3>3. \A k \in lo .. hi : k <= mid \/ k \in mid + 1 .. hi
      BY <2>6
    <3>4. \A k \in mid + 1 .. hi : k \in lo .. hi
      BY <2>6
    <3>5. \/ f[u] = -1 /\ \A k \in mid + 1 .. hi : Rank[b[k]] # Rank[key]
          \/ f[u] \in mid + 1 .. hi /\ Rank[b[f[u]]] = Rank[key]
      BY <2>3, <2>4 DEF Answers
    <3>6. \/ f[u] = -1 /\ \A k \in lo .. hi : Rank[b[k]] # Rank[key]
          \/ f[u] \in lo .. hi /\ Rank[b[f[u]]] = Rank[key]
      BY <3>1, <3>3, <3>4, <3>5
    <3> QED BY <3>2, <3>6 DEF Answers, lo, hi
  <2>11. CASE Rank[key] < Rank[b[mid]]
    <3>1. ASSUME NEW k \in lo .. hi, mid <= k PROVE Rank[b[k]] # Rank[key]
      <4>1. k = mid \/ mid < k
        BY <2>6, <3>1
      <4>2. Rank[b[mid]] <= Rank[b[k]]
        BY <2>1, <2>7, <2>8, <4>1 DEF Ordered
      <4> QED BY <2>8, <2>11, <4>2
    <3>2. Probe(f, b, key, w) = f[v]
      BY <2>5, <2>8, <2>11
    <3>3. \A k \in lo .. hi : mid <= k \/ k \in lo .. mid - 1
      BY <2>6
    <3>4. \A k \in lo .. mid - 1 : k \in lo .. hi
      BY <2>6
    <3>5. \/ f[v] = -1 /\ \A k \in lo .. mid - 1 : Rank[b[k]] # Rank[key]
          \/ f[v] \in lo .. mid - 1 /\ Rank[b[f[v]]] = Rank[key]
      BY <2>3, <2>4 DEF Answers
    <3>6. \/ f[v] = -1 /\ \A k \in lo .. hi : Rank[b[k]] # Rank[key]
          \/ f[v] \in lo .. hi /\ Rank[b[f[v]]] = Rank[key]
      BY <3>1, <3>3, <3>4, <3>5
    <3> QED BY <3>2, <3>6 DEF Answers, lo, hi
  <2> QED BY <2>8, <2>9, <2>10, <2>11
<1> QED BY <1>0, <1>1, <1>2

(* find_array_index answers a place of an equal item if there is one, else   *)
(* -1, in whatever is in order.                                              *)
LEMMA SearchAnswers ==
  ASSUME length \in Nat, NEW b, NEW key, Rank[key] \in Int,
         \A k \in 0 .. length - 1 : Rank[b[k]] \in Int, Ordered(b, length)
  PROVE  Answers(Search(b, key), b, key, <<0, length - 1>>)
<1> DEFINE f == CHOOSE g : IsSearch(g, b, key)
<1>1. IsSearch(f, b, key)
  BY SearchExists
<1>2. Search(b, key) = f[<<0, length - 1>>]
  BY DEF Search, IsSearch, Probe, Pairs, Mid
<1> HIDE DEF f
<1>3. \A w \in Pairs : f[w] = Probe(f, b, key, w)
  <2>1. f = [w \in Pairs |-> Probe(f, b, key, w)]
    BY <1>1 DEF IsSearch
  <2> DEFINE P(w) == Probe(f, b, key, w)
  <2>2. f = [w \in Pairs |-> P(w)]
    BY <2>1
  <2> HIDE DEF P
  <2>3. \A w \in Pairs : f[w] = P(w)
    BY <2>2
  <2> QED BY <2>3 DEF P
<1> DEFINE Good(m) == \A w \in Pairs : Width(w) <= m => Answers(f[w], b, key, w)
           N == {m \in Nat : Good(m)}
<1>4. 0 \in N
  <2>1. ASSUME NEW w \in Pairs, Width(w) <= 0 PROVE Answers(f[w], b, key, w)
    <3>1. w[1] > w[2] /\ w[1] \in Int /\ w[2] \in Int
      BY <2>1, WidthType
    <3>2. f[w] = Probe(f, b, key, w)
      BY <1>3
    <3>3. Probe(f, b, key, w) = -1
      BY <3>1 DEF Probe
    <3>4. w[1] .. w[2] = {}
      BY <3>1
    <3> QED BY <3>2, <3>3, <3>4 DEF Answers
  <2> QED BY <2>1
<1>5. ASSUME NEW m \in Nat, m \in N PROVE m + 1 \in N
  <2>1. \A v \in Pairs : Width(v) <= m => Answers(f[v], b, key, v)
    BY <1>5
  <2>2. ASSUME NEW w \in Pairs, Width(w) <= m + 1 PROVE Answers(f[w], b, key, w)
    <3>1. Answers(Probe(f, b, key, w), b, key, w)
      BY <2>1, <2>2, ProbeAnswers
    <3> QED BY <1>3, <3>1
  <2> QED BY <2>2
<1>6. length \in N
  <2> HIDE DEF N
  <2> QED BY <1>4, <1>5, NatSetInduction
<1>7. <<0, length - 1>> \in Pairs /\ Width(<<0, length - 1>>) <= length
  BY DEF Pairs, Width
<1> QED BY <1>2, <1>6, <1>7

(* find_array_index sorts if the flag does not say that it need not.        *)
LEMMA FindIndexStep ==
  ASSUME ArrayInv, NEW key \in Element, comp, FindIndex(key)
  PROVE  ArrayInv' /\ S!Find(key)
<1>1. /\ ArrayTypeOK /\ length \in Int /\ length <= capacity /\ capacity \in Nat
      /\ items' = (IF is_sorted THEN items ELSE SortedItems) /\ is_sorted' = TRUE
      /\ found' = Search(items', key) /\ length' = length /\ capacity' = capacity
      /\ comp' = comp /\ fault' = fault
  BY DEF ArrayInv, ArrayTypeOK, FindIndex
<1>2. S!Sorted(Contents') /\ Ordered(items', length) /\ items' \in Buffers
  <2>1. CASE ~ is_sorted
    <3>1. items' = SortedItems
      BY <1>1, <2>1
    <3> QED BY <1>1, <3>1, SortSorts
  <2>2. CASE is_sorted
    <3>1. items' = items /\ Ordered(items', length') /\ items' \in Buffers
      BY <1>1, <2>2 DEF ArrayInv, ArrayTypeOK, Buffers
    <3>2. Contents' = Contents
      BY <1>1, <3>1 DEF Contents
    <3>3. S!InOrder(Contents')
      BY <1>1, <3>1, OrderedContents
    <3> QED BY <1>1, <3>1, <3>2, <3>3 DEF S!Sorted, Contents
  <2> QED BY <2>1, <2>2
<1>3. Rank[key] \in Int
  BY ArrayAssumption
<1>4. \A k \in 0 .. length - 1 : items'[k] \in Element /\ Rank[items'[k]] \in Int
  <2>1. \A k \in 0 .. length - 1 : k \in 0 .. capacity - 1
    BY <1>1
  <2> QED BY <1>2, <2>1, ArrayAssumption DEF Buffers
<1>5. \/ found' = -1 /\ \A k \in 0 .. length - 1 : Rank[items'[k]] # Rank[key]
      \/ found' \in 0 .. length - 1 /\ Rank[items'[found']] = Rank[key]
  <2>1. CASE length < 0
    <3>1. 0 .. length - 1 = {}
      BY <1>1, <2>1
    <3> QED BY <1>1, <2>1, <3>1 DEF Search
  <2>2. CASE length >= 0
    <3>1. ASSUME NEW b, b = items' PROVE Answers(Search(b, key), b, key, <<0, length - 1>>)
      <4>1. /\ \A k \in 0 .. length - 1 : Rank[b[k]] \in Int
            /\ Ordered(b, length) /\ length \in Nat
        BY <1>1, <1>2, <1>4, <2>2, <3>1
      <4> QED BY <1>3, <4>1, SearchAnswers
    <3>2. Answers(found', items', key, <<0, length - 1>>)
      BY <1>1, <3>1
    <3> QED BY <3>2 DEF Answers
  <2> QED BY <1>1, <2>1, <2>2
<1>6. ArrayInv'
  <2>1. found' \in Int
    BY <1>5
  <2> QED BY <1>1, <1>2, <2>1 DEF ArrayInv, ArrayTypeOK, Buffers
<1>7. Contents' = [k \in 1 .. length |-> items'[k - 1]]
  BY <1>1 DEF Contents
<1>8. DOMAIN (Contents') = 1 .. length /\ \A k \in 1 .. length : (Contents')[k] = items'[k - 1]
  BY <1>7
<1> DEFINE equal == {k \in DOMAIN (Contents') : Rank[(Contents')[k]] = Rank[key]}
<1>9. IF equal = {} THEN found' = -1 ELSE found' + 1 \in equal
  <2>1. CASE found' = -1 /\ \A k \in 0 .. length - 1 : Rank[items'[k]] # Rank[key]
    <3>1. \A k \in 1 .. length : k - 1 \in 0 .. length - 1
      BY <1>1
    <3>2. equal = {}
      BY <1>8, <2>1, <3>1
    <3> QED BY <2>1, <3>2
  <2>2. CASE found' \in 0 .. length - 1 /\ Rank[items'[found']] = Rank[key]
    <3> DEFINE k == found' + 1
    <3>1. k \in 1 .. length /\ k - 1 = found'
      BY <1>1, <2>2
    <3> HIDE DEF k
    <3>2. k \in equal
      BY <1>8, <2>2, <3>1
    <3> QED BY <3>2 DEF k
  <2> QED BY <1>5, <2>1, <2>2
<1> QED BY <1>2, <1>6, <1>9 DEF S!Find, Contents

LEMMA FindNothing ==
  ASSUME ArrayInv, NEW key \in Element, ~ comp, FindIndex(key)
  PROVE  ArrayInv'
<1>1. /\ items' = items /\ length' = length /\ capacity' = capacity /\ is_sorted' = is_sorted
      /\ comp' = comp /\ fault' = fault /\ found' = -1
  BY DEF FindIndex
<1> QED BY <1>1 DEF ArrayInv, ArrayTypeOK, Ordered

-------------------------------------------------------------------------------
LEMMA ArrayStarts == ArrayInit => ArrayInv /\ S!Init
<1> SUFFICES ASSUME ArrayInit PROVE ArrayInv /\ S!Init
  OBVIOUS
<1>1. ArrayTypeOK
  <2>1. 0 \in MinLength .. NewCap /\ NewCap \in Nat /\ NewCap >= NewCap
    BY ArrayAssumption
  <2>2. [k \in 0 .. NewCap - 1 |-> JUNK] \in [0 .. NewCap - 1 -> Element]
    BY ArrayAssumption
  <2>3. capacity \in Nat /\ capacity >= NewCap /\ length \in MinLength .. capacity
    BY <2>1 DEF ArrayInit
  <2>4. items \in [0 .. capacity - 1 -> Element]
    BY <2>2 DEF ArrayInit
  <2>5. found \in Int
    BY DEF ArrayInit
  <2>6. is_sorted \in BOOLEAN /\ comp \in BOOLEAN /\ fault \in {"none", "exit", "outside", "null"}
    BY DEF ArrayInit
  <2> QED BY <2>3, <2>4, <2>5, <2>6 DEF ArrayTypeOK
<1>2. ArrayInv
  BY <1>1 DEF ArrayInit, ArrayInv
<1>3. Contents = << >>
  BY NoContents DEF ArrayInit
<1> QED BY <1>2, <1>3 DEF ArrayInit, S!Init, Contents

LEMMA ArrayStep ==
  ASSUME ArrayInv, [ArrayNext]_arrayVars
  PROVE  ArrayInv'
<1>1. ASSUME NEW src \in Source, NEW index \in Indexes, InsertArray(src, index) PROVE ArrayInv'
  BY <1>1, InsertArrayStep
<1>2. ASSUME NEW data \in Element, NEW index \in Indexes, InsertData(data, index) PROVE ArrayInv'
  BY <1>2, InsertDataStep
<1>3. ASSUME NEW index \in Indexes, DeleteData(index) PROVE ArrayInv'
  BY <1>3, DeleteDataStep
<1>4. ASSUME NEW idx1 \in Indexes, NEW idx2 \in Indexes, SwapData(idx1, idx2) PROVE ArrayInv'
  BY <1>4, SwapDataStep
<1>5. CASE ClearArray
  BY <1>5, ClearArrayStep
<1>6. CASE PopArray
  BY <1>6, PopArrayStep
<1>7. CASE SortArray
  BY <1>7, SortArrayStep
<1>8. ASSUME NEW key \in Element, FindIndex(key) PROVE ArrayInv'
  BY <1>8, FindIndexStep, FindNothing
<1>9. CASE UNCHANGED arrayVars
  BY <1>9 DEF arrayVars, array, ArrayInv, ArrayTypeOK, Ordered
<1> QED BY <1>1, <1>2, <1>3, <1>4, <1>5, <1>6, <1>7, <1>8, <1>9 DEF ArrayNext, ArrayCalls

(* What each call has to do, it does. *)
LEMMA ArrayStepCalls ==
  ASSUME ArrayInv, fault = "none"
  PROVE  CallsOfSequence
<1>1. ASSUME NEW index \in Indexes, InRange(index)
      PROVE  /\ \A src \in Source : InsertArray(src, index) =>
                   fault' = "none" /\ S!Insert(src, WriteIndex(index))
             /\ \A data \in Element : InsertData(data, index) =>
                   fault' = "none" /\ S!Insert(<<data>>, WriteIndex(index))
             /\ length > 0 /\ DeleteData(index) =>
                   fault' = "none" /\ S!Delete(WriteIndex(index))
  <2>1. ASSUME NEW src \in Source, InsertArray(src, index)
        PROVE  fault' = "none" /\ S!Insert(src, WriteIndex(index))
    BY <1>1, <2>1, InsertArrayStep
  <2>2. ASSUME NEW data \in Element, InsertData(data, index)
        PROVE  fault' = "none" /\ S!Insert(<<data>>, WriteIndex(index))
    BY <1>1, <2>2, InsertDataStep
  <2>3. ASSUME length > 0, DeleteData(index)
        PROVE  fault' = "none" /\ S!Delete(WriteIndex(index))
    BY <1>1, <2>3, DeleteDataStep
  <2> QED BY <2>1, <2>2, <2>3
<1>2. ASSUME NEW idx1 \in Indexes, NEW idx2 \in Indexes,
             OfItem(idx1), OfItem(idx2), SwapData(idx1, idx2)
      PROVE  fault' = "none" /\ S!Exchange(ReadIndex(idx1), ReadIndex(idx2))
  BY <1>2, SwapDataStep
<1>3. ClearArray => S!Empty
  BY ClearArrayStep
<1>4. PopArray => S!Delete(length - 1)
  BY PopArrayStep
<1>5. comp /\ SortArray => S!Sort
  BY SortArrayStep
<1>6. ASSUME NEW key \in Element, comp, FindIndex(key) PROVE S!Find(key)
  BY <1>6, FindIndexStep
<1> QED BY <1>1, <1>2, <1>3, <1>4, <1>5, <1>6 DEF CallsOfSequence

LEMMA ArrayInvariant == ArraySpec => []ArrayInv
<1>1. ArrayInv /\ [ArrayNext]_arrayVars => ArrayInv'
  BY ArrayStep
<1> QED BY <1>1, ArrayStarts, PTL DEF ArraySpec

(* The buffer is as large as the capacity says, and what is in the array     *)
(* fits, through every growth, clear_array and run of the sort; the length   *)
(* is bounded by the capacity, and not by 0 (resize, clear_array,            *)
(* sort_array, delete_array_data).                                           *)
THEOREM ArrayTypeCorrect == ArraySpec => []ArrayTypeOK
<1>1. ArrayInv => ArrayTypeOK
  BY DEF ArrayInv
<1> QED BY <1>1, ArrayInvariant, PTL

(* Every call with an index that names a place of the array does to the      *)
(* sequence what its name says; the two loops of the sort leave the items in *)
(* order and lose none of them; and a search finds what is there, because    *)
(* the flag that spares it the sorting tells the truth (insert_array,        *)
(* delete_array_data, swap_array_data, sort_array, find_array_index).        *)
THEOREM ArrayIsSequence == ArraySpec => ImplementsArray
<1>1. ArrayInv /\ [ArrayNext]_arrayVars => [fault = "none" => CallsOfSequence]_arrayVars
  BY ArrayStepCalls
<1>2. ArrayInit => S!Init
  BY ArrayStarts
<1> QED BY <1>1, <1>2, ArrayInvariant, PTL DEF ArraySpec, ImplementsArray
================================================================================
