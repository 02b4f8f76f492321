--------------------------- MODULE StringBufferProofs ---------------------------
(* What StringBuffer promises, for all characters and capacities.           *)
EXTENDS StringBuffer, Induction

Cells == Char \union {NUL, JUNK}

(* The first NUL of b is at n. *)
EndsAt(b, n) == b[n] = NUL /\ \A k \in 0 .. n - 1 : b[k] # NUL

(* strlen answers the place of the first NUL.                               *)
LEMMA StrLenIs ==
  ASSUME NEW c \in Nat, NEW b, DOMAIN b = 0 .. c, NEW n \in 0 .. c, EndsAt(b, n)
  PROVE  StrLen(b) = n
<1>1. ASSUME NEW m \in 0 .. c, EndsAt(b, m) PROVE m = n
  <2>1. CASE m < n
    <3>1. m \in 0 .. n - 1
      BY <2>1
    <3> QED BY <1>1, <3>1 DEF EndsAt
  <2>2. CASE n < m
    <3>1. n \in 0 .. m - 1
      BY <2>2
    <3> QED BY <1>1, <3>1 DEF EndsAt
  <2> QED BY <2>1, <2>2
<1>2. StrLen(b) = CHOOSE m \in 0 .. c : EndsAt(b, m)
  BY DEF StrLen, EndsAt
<1> HIDE DEF EndsAt
<1> QED BY <1>1, <1>2

(* There is a first NUL when there is one at all. *)
LEMMA StrLenExists ==
  ASSUME NEW c \in Nat, NEW b, DOMAIN b = 0 .. c, NEW l \in 0 .. c, b[l] = NUL
  PROVE  StrLen(b) \in 0 .. l /\ EndsAt(b, StrLen(b))
<1> DEFINE N == {m \in 0 .. c : b[m] = NUL}
<1>1. PICK m \in N : \A n \in N : m <= n
  <2>1. N \in SUBSET Nat /\ N # {}
    OBVIOUS
  <2> HIDE DEF N
  <2> QED BY <2>1, SmallestElement
<1>2. m \in 0 .. l /\ m \in 0 .. c
  BY <1>1
<1>3. EndsAt(b, m)
  BY <1>1 DEF EndsAt
<1> QED BY <1>2, <1>3, StrLenIs

-------------------------------------------------------------------------------
(* The text of b without the spaces at its ends is at from .. to - 1. *)
Trims(b, from, to) ==
  /\ to \in 0 .. StrLen(b) /\ from \in 0 .. to
  /\ \A k \in to .. StrLen(b) - 1 : b[k] \in Space
  /\ to = 0 \/ b[to - 1] \notin Space
  /\ \A k \in 0 .. from - 1 : b[k] \in Space
  /\ from = to \/ b[from] \notin Space

(* What the two loops and the memmove of strip_space make of b.             *)
Cut(b, from, to) ==
  [k \in DOMAIN b |->
     IF k <= to - from THEN (IF from + k \in to .. StrLen(b) THEN NUL ELSE b[from + k])
     ELSE IF k \in to .. StrLen(b) THEN NUL ELSE b[k]]

(* The first loop ends behind the last character that is no space. *)
LEMMA ToExists ==
  ASSUME NEW b, NEW n \in Nat
  PROVE  \E e \in 0 .. n : /\ \A k \in e .. n - 1 : b[k] \in Space
                           /\ e = 0 \/ ~(\A k \in e - 1 .. n - 1 : b[k] \in Space)
<1> DEFINE N == {e \in 0 .. n : \A k \in e .. n - 1 : b[k] \in Space}
<1>1. PICK e \in N : \A d \in N : e <= d
  <2>1. n \in N /\ N \in SUBSET Nat
    OBVIOUS
  <2> HIDE DEF N
  <2> QED BY <2>1, SmallestElement
<1>2. e = 0 \/ (e - 1 \in 0 .. n /\ e - 1 \notin N)
  BY <1>1
<1> QED BY <1>1, <1>2

(* The second one ends at the first character that is none. *)
LEMMA FromExists ==
  ASSUME NEW b, NEW n \in Nat
  PROVE  \E s \in 0 .. n : /\ \A k \in 0 .. s - 1 : b[k] \in Space
                           /\ s = n \/ ~(\A k \in 0 .. s : b[k] \in Space)
<1> DEFINE N == {s \in 0 .. n : s = n \/ b[s] \notin Space}
<1>1. PICK s \in N : \A d \in N : s <= d
  <2>1. n \in N /\ N \in SUBSET Nat
    OBVIOUS
  <2> HIDE DEF N
  <2> QED BY <2>1, SmallestElement
<1>2. \A k \in 0 .. s - 1 : k \in 0 .. n /\ k \notin N
  BY <1>1
<1>3. s \in 0 .. n /\ s \in 0 .. s
  BY <1>1
<1> QED BY <1>1, <1>2, <1>3

LEMMA StripSpacesCuts ==
  ASSUME NEW c \in Nat, NEW b, DOMAIN b = 0 .. c, StrLen(b) \in 0 .. c
  PROVE  \E from, to \in Nat : Trims(b, from, to) /\ StripSpaces(b) = Cut(b, from, to)
<1> DEFINE n == StrLen(b)
           IsEnd(e) == \A k \in e .. n - 1 : b[k] \in Space
           IsStart(s) == \A k \in 0 .. s - 1 : b[k] \in Space
           to == CHOOSE e \in 0 .. n : IsEnd(e) /\ (e = 0 \/ ~ IsEnd(e - 1))
           from == CHOOSE s \in 0 .. to : IsStart(s) /\ (s = to \/ ~ IsStart(s + 1))
<1>0. n \in Nat
  OBVIOUS
<1>1. to \in 0 .. n /\ IsEnd(to) /\ (to = 0 \/ ~ IsEnd(to - 1))
  <2>1. \E e \in 0 .. n : IsEnd(e) /\ (e = 0 \/ ~ IsEnd(e - 1))
    BY <1>0, ToExists
  <2> HIDE DEF IsEnd
  <2> QED BY <2>1
<1> HIDE DEF to
<1>2. from \in 0 .. to /\ IsStart(from) /\ (from = to \/ ~ IsStart(from + 1))
  <2>1. \E s \in 0 .. to : IsStart(s) /\ (s = to \/ ~ IsStart(s + 1))
    <3>1. PICK s \in 0 .. to : /\ \A k \in 0 .. s - 1 : b[k] \in Space
                               /\ s = to \/ ~(\A k \in 0 .. s : b[k] \in Space)
      <4>1. to \in Nat
        BY <1>0, <1>1
      <4> QED BY <4>1, FromExists
    <3>2. (s + 1) - 1 = s
      BY <1>1
    <3> QED BY <3>1, <3>2
  <2> HIDE DEF IsStart
  <2> QED BY <2>1
<1> HIDE DEF from
<1>3. to = 0 \/ b[to - 1] \notin Space
  BY <1>1
<1>4. from = to \/ b[from] \notin Space
  BY <1>1, <1>2
<1>5. Trims(b, from, to)
  BY <1>1, <1>2, <1>3, <1>4 DEF Trims
<1> DEFINE cut == [k \in DOMAIN b |-> IF k \in to .. n THEN NUL ELSE b[k]]
<1>6. StripSpaces(b) = Cut(b, from, to)
  <2>1. StripSpaces(b) = [k \in DOMAIN b |-> IF k <= to - from THEN cut[from + k] ELSE cut[k]]
    BY DEF StripSpaces, from, to
  <2>2. ASSUME NEW k \in DOMAIN b, k <= to - from
        PROVE  cut[from + k] = IF from + k \in to .. n THEN NUL ELSE b[from + k]
    <3>1. from + k \in DOMAIN b
      BY <1>1, <1>2, <2>2
    <3> QED BY <3>1
  <2> QED BY <2>1, <2>2 DEF Cut
<1>7. from \in Nat /\ to \in Nat
  BY <1>1, <1>2
<1> QED BY <1>5, <1>6, <1>7
(* What is left of a text without the spaces at its ends, and what of its    *)
(* buffer stays as it was.                                                   *)
LEMMA StripSpacesResult ==
  ASSUME NEW c \in Nat, NEW b \in [0 .. c -> Cells], NEW l \in 0 .. c, b[l] = NUL
  PROVE  LET s == StripSpaces(b)
         IN  \E from, to \in Nat :
               /\ Trims(b, from, to)
               /\ s \in [0 .. c -> Cells]
               /\ StrLen(s) = to - from /\ EndsAt(s, to - from)
               /\ \A k \in 0 .. to - from - 1 : s[k] = b[from + k]
               /\ \A k \in 0 .. l : s[k] = NUL \/ \E j \in 0 .. l : s[k] = b[j]
               /\ s[l] = NUL
<1> DEFINE s == StripSpaces(b)
           n == StrLen(b)
<1>1. n \in 0 .. l /\ EndsAt(b, n) /\ n \in 0 .. c
  BY StrLenExists
<1>2. PICK from \in Nat, to \in Nat : Trims(b, from, to) /\ s = Cut(b, from, to)
  BY <1>1, StripSpacesCuts
<1>3. to \in 0 .. n /\ from \in 0 .. to /\ to - from \in 0 .. n
  BY <1>1, <1>2 DEF Trims
<1>4. s = [k \in 0 .. c |->
             IF k <= to - from THEN (IF from + k \in to .. n THEN NUL ELSE b[from + k])
             ELSE IF k \in to .. n THEN NUL ELSE b[k]]
  BY <1>2 DEF Cut
<1> HIDE DEF s, n
<1>5. ASSUME NEW k \in 0 .. c PROVE k <= to - from => from + k \in 0 .. n
  BY <1>1, <1>3
<1>6. s \in [0 .. c -> Cells]
  <2>1. ASSUME NEW k \in 0 .. c PROVE s[k] \in Cells
    <3>1. CASE k <= to - from
      <4>1. from + k \in 0 .. n
        BY <1>5, <3>1
      <4>2. from + k \in 0 .. c
        BY <1>1, <4>1
      <4>3. s[k] = NUL \/ s[k] = b[from + k]
        BY <1>4, <3>1
      <4> QED BY <4>2, <4>3 DEF Cells
    <3>2. CASE ~(k <= to - from)
      <4>1. s[k] = NUL \/ s[k] = b[k]
        BY <1>4, <3>2
      <4> QED BY <4>1 DEF Cells
    <3> QED BY <3>1, <3>2
  <2> QED BY <1>4, <2>1
<1>7. ASSUME NEW k \in 0 .. to - from - 1 PROVE s[k] = b[from + k] /\ b[from + k] # NUL
  <2>1. k \in 0 .. c /\ k <= to - from /\ from + k \notin to .. n /\ from + k \in 0 .. n - 1
    BY <1>1, <1>3
  <2> QED BY <1>1, <1>4, <2>1 DEF EndsAt
<1>8. s[to - from] = NUL
  <2>1. to - from \in 0 .. c /\ from + (to - from) \in to .. n
    BY <1>1, <1>3
  <2> QED BY <1>4, <2>1
<1>9. EndsAt(s, to - from) /\ StrLen(s) = to - from
  <2>1. EndsAt(s, to - from)
    BY <1>7, <1>8 DEF EndsAt
  <2>2. to - from \in 0 .. c /\ DOMAIN s = 0 .. c
    BY <1>1, <1>3, <1>4
  <2> QED BY <2>1, <2>2, StrLenIs
<1>10. ASSUME NEW k \in 0 .. l PROVE s[k] = NUL \/ \E j \in 0 .. l : s[k] = b[j]
  <2>1. k \in 0 .. c
    OBVIOUS
  <2>2. CASE k <= to - from
    <3>1. s[k] = NUL \/ s[k] = b[from + k]
      BY <1>4, <2>1, <2>2
    <3>2. from + k \in 0 .. n
      BY <1>5, <2>1, <2>2
    <3>3. from + k \in 0 .. l
      BY <1>1, <3>2
    <3> QED BY <3>1, <3>3
  <2>3. CASE ~(k <= to - from)
    BY <1>4, <2>1, <2>3
  <2> QED BY <2>2, <2>3
<1>11. s[l] = NUL
  <2>1. CASE l <= to - from
    <3>1. l = to - from
      BY <1>1, <1>3, <2>1
    <3> QED BY <1>8, <3>1
  <2>2. CASE ~(l <= to - from)
    BY <1>4, <2>2
  <2> QED BY <2>1, <2>2
<1> QED BY <1>2, <1>6, <1>7, <1>9, <1>10, <1>11 DEF s
-------------------------------------------------------------------------------
(* strip_char. *)
IsLeaves(f, s, ch, n) ==
  f = [k \in 0 .. n |->
         IF k = 0 THEN << >> ELSE IF s[k] = ch THEN f[k - 1] ELSE Append(f[k - 1], s[k])]

Leaves(s, ch) == CHOOSE f : IsLeaves(f, s, ch, Len(s))

(* The recursion of Squeezed has a solution. *)
LEMMA LeavesExist ==
  ASSUME NEW s, NEW ch, NEW n \in Nat
  PROVE  \E f : IsLeaves(f, s, ch, n)
<1> DEFINE Ex(m) == \E f : IsLeaves(f, s, ch, m)
           N == {m \in Nat : Ex(m)}
<1>1. 0 \in N
  <2> DEFINE g == [k \in 0 .. 0 |-> << >>]
  <2>1. IsLeaves(g, s, ch, 0)
    BY DEF IsLeaves
  <2> QED BY <2>1
<1>2. ASSUME NEW m \in Nat, m \in N PROVE m + 1 \in N
  <2>0. PICK f : IsLeaves(f, s, ch, m)
    BY <1>2
  <2>1. f = [k \in 0 .. m |->
               IF k = 0 THEN << >> ELSE IF s[k] = ch THEN f[k - 1] ELSE Append(f[k - 1], s[k])]
    BY <2>0 DEF IsLeaves
  <2> DEFINE g == [k \in 0 .. m + 1 |->
                     IF k = m + 1 THEN (IF s[k] = ch THEN f[m] ELSE Append(f[m], s[k])) ELSE f[k]]
             h == [k \in 0 .. m + 1 |->
                     IF k = 0 THEN << >>
                     ELSE IF s[k] = ch THEN g[k - 1] ELSE Append(g[k - 1], s[k])]
  <2>2. ASSUME NEW k \in 0 .. m + 1 PROVE g[k] = h[k]
    <3>1. CASE k = m + 1
      <4>1. k - 1 = m /\ g[k - 1] = f[m] /\ k # 0
        BY <3>1
      <4> QED BY <3>1, <4>1
    <3>2. CASE k = 0
      <4>1. g[k] = f[0] /\ 0 \in 0 .. m
        BY <3>2
      <4> QED BY <2>1, <3>2, <4>1
    <3>3. CASE k # m + 1 /\ k # 0
      <4>1. k \in 0 .. m /\ k - 1 \in 0 .. m
        BY <3>3
      <4>2. g[k] = f[k] /\ g[k - 1] = f[k - 1]
        BY <4>1
      <4>3. f[k] = IF s[k] = ch THEN f[k - 1] ELSE Append(f[k - 1], s[k])
        BY <2>1, <3>3, <4>1
      <4>4. h[k] = IF s[k] = ch THEN g[k - 1] ELSE Append(g[k - 1], s[k])
        BY <3>3
      <4> HIDE DEF g, h
      <4> QED BY <4>2, <4>3, <4>4
    <3> QED BY <3>1, <3>2, <3>3
  <2>3. g = h
    <3> HIDE DEF g, h
    <3>1. g = [k \in 0 .. m + 1 |-> g[k]] /\ h = [k \in 0 .. m + 1 |-> h[k]]
      BY DEF g, h
    <3> QED BY <2>2, <3>1
  <2> HIDE DEF g
  <2>4. IsLeaves(g, s, ch, m + 1)
    BY <2>3 DEF IsLeaves
  <2> QED BY <2>4
<1> HIDE DEF N
<1>3. n \in N
  BY <1>1, <1>2, NatSetInduction
<1> QED BY <1>3 DEF N

(* The equation of Squeezed. *)
LEMMA LeavesStep ==
  ASSUME NEW s, NEW ch, Len(s) \in Nat
  PROVE  /\ Squeezed(s, ch) = Leaves(s, ch)[Len(s)]
         /\ Leaves(s, ch)[0] = << >>
         /\ \A k \in 1 .. Len(s) :
              /\ s[k] = ch => Leaves(s, ch)[k] = Leaves(s, ch)[k - 1]
              /\ s[k] # ch => Leaves(s, ch)[k] = Append(Leaves(s, ch)[k - 1], s[k])
<1>1. \E f : IsLeaves(f, s, ch, Len(s))
  BY LeavesExist
<1>2. IsLeaves(Leaves(s, ch), s, ch, Len(s))
  BY <1>1 DEF Leaves
<1>3. Squeezed(s, ch) = Leaves(s, ch)[Len(s)]
  BY DEF Squeezed, Leaves, IsLeaves
<1>4. \A k \in 0 .. Len(s) :
        Leaves(s, ch)[k] = IF k = 0 THEN << >>
                           ELSE IF s[k] = ch THEN Leaves(s, ch)[k - 1]
                           ELSE Append(Leaves(s, ch)[k - 1], s[k])
  BY <1>2 DEF IsLeaves
<1>5. 0 \in 0 .. Len(s) /\ \A k \in 1 .. Len(s) : k \in 0 .. Len(s) /\ k # 0
  OBVIOUS
<1>6. Leaves(s, ch)[0] = << >>
  BY <1>4, <1>5
<1>7. ASSUME NEW k \in 1 .. Len(s)
      PROVE  /\ s[k] = ch => Leaves(s, ch)[k] = Leaves(s, ch)[k - 1]
             /\ s[k] # ch => Leaves(s, ch)[k] = Append(Leaves(s, ch)[k - 1], s[k])
  <2>1. Leaves(s, ch)[k] = IF s[k] = ch THEN Leaves(s, ch)[k - 1]
                           ELSE Append(Leaves(s, ch)[k - 1], s[k])
    BY <1>4, <1>5
  <2> QED BY <2>1
<1> QED BY <1>3, <1>6, <1>7

(* The places up to i of what is not ch. *)
Others(s, ch, i) == {p \in 1 .. i : s[p] # ch}

LEMMA OthersGrow ==
  ASSUME NEW s, NEW ch, NEW i \in Nat
  PROVE  /\ Cardinality(Others(s, ch, i)) \in Nat
         /\ Others(s, ch, 0) = {} /\ Cardinality(Others(s, ch, 0)) = 0
         /\ s[i + 1] = ch => Others(s, ch, i + 1) = Others(s, ch, i)
         /\ s[i + 1] # ch =>
              /\ Others(s, ch, i + 1) = Others(s, ch, i) \union {i + 1}
              /\ Cardinality(Others(s, ch, i + 1)) = Cardinality(Others(s, ch, i)) + 1
<1>1. IsFiniteSet(Others(s, ch, i))
  <2>1. IsFiniteSet(1 .. i) /\ Others(s, ch, i) \in SUBSET (1 .. i)
    BY FS_Interval DEF Others
  <2> QED BY <2>1, FS_Subset
<1>2. Cardinality(Others(s, ch, i)) \in Nat
  BY <1>1, FS_CardinalityType
<1>3. Others(s, ch, 0) = {} /\ Cardinality(Others(s, ch, 0)) = 0
  BY FS_EmptySet DEF Others
<1>4. s[i + 1] = ch => Others(s, ch, i + 1) = Others(s, ch, i)
  BY DEF Others
<1>5. i + 1 \notin Others(s, ch, i)
  BY DEF Others
<1>6. s[i + 1] # ch => Others(s, ch, i + 1) = Others(s, ch, i) \union {i + 1}
  BY DEF Others
<1> QED BY <1>1, <1>2, <1>3, <1>4, <1>5, <1>6, FS_AddElement

(* The characters of u are those of s at these places, in their order. *)
Selects(u, s, ch, i) ==
  /\ Len(u) = Cardinality(Others(s, ch, i))
  /\ \A p \in Others(s, ch, i) :
       /\ Cardinality(Others(s, ch, p)) \in 1 .. Len(u)
       /\ u[Cardinality(Others(s, ch, p))] = s[p]
  /\ \A r \in 1 .. Len(u) : \E p \in Others(s, ch, i) : Cardinality(Others(s, ch, p)) = r

LEMMA LeavesSelect ==
  ASSUME NEW S, NEW s \in Seq(S), NEW ch
  PROVE  \A k \in 0 .. Len(s) :
           /\ Leaves(s, ch)[k] \in Seq(S) /\ Len(Leaves(s, ch)[k]) <= k
           /\ Selects(Leaves(s, ch)[k], s, ch, k)
<1>0. Len(s) \in Nat /\ \A k \in 1 .. Len(s) : s[k] \in S
  BY LenProperties, ElementOfSeq
<1> DEFINE L(k) == Leaves(s, ch)[k]
           Good(k) == L(k) \in Seq(S) /\ Len(L(k)) <= k /\ Selects(L(k), s, ch, k)
           N == {k \in Nat : k <= Len(s) => Good(k)}
<1>1. 0 \in N
  <2>1. L(0) = << >>
    BY <1>0, LeavesStep
  <2>2. Others(s, ch, 0) = {} /\ Cardinality(Others(s, ch, 0)) = 0
    BY OthersGrow
  <2> HIDE DEF L
  <2>3. L(0) \in Seq(S) /\ Len(L(0)) = 0
    BY <2>1, EmptySeq
  <2>4. Selects(L(0), s, ch, 0)
    BY <2>2, <2>3 DEF Selects
  <2> QED BY <2>3, <2>4
<1>2. ASSUME NEW k \in Nat, k \in N PROVE k + 1 \in N
  <2> SUFFICES ASSUME k + 1 <= Len(s) PROVE Good(k + 1)
    OBVIOUS
  <2>1. k + 1 \in 1 .. Len(s) /\ s[k + 1] \in S /\ (k + 1) - 1 = k
    BY <1>0
  <2>2. L(k) \in Seq(S) /\ Len(L(k)) <= k /\ Selects(L(k), s, ch, k) /\ Len(L(k)) \in Nat
    <3>1. L(k) \in Seq(S) /\ Len(L(k)) <= k /\ Selects(L(k), s, ch, k)
      BY <1>0, <1>2
    <3> QED BY <3>1, LenProperties
  <2>3. CASE s[k + 1] = ch
    <3>1. L(k + 1) = L(k)
      BY <1>0, <2>1, <2>3, LeavesStep
    <3>2. Others(s, ch, k + 1) = Others(s, ch, k)
      BY <2>3, OthersGrow
    <3> HIDE DEF L
    <3>3. Selects(L(k), s, ch, k + 1)
      BY <2>2, <3>2 DEF Selects
    <3> QED BY <2>2, <3>1, <3>3
  <2>4. CASE s[k + 1] # ch
    <3> DEFINE u == L(k)
               v == L(k + 1)
    <3>1. v = Append(u, s[k + 1])
      BY <1>0, <2>1, <2>4, LeavesStep
    <3> HIDE DEF u, v
    <3>2. u \in Seq(S) /\ Len(u) \in Nat /\ Len(u) <= k /\ Selects(u, s, ch, k)
      BY <2>2 DEF u
    <3>3. /\ v \in Seq(S) /\ Len(v) = Len(u) + 1
          /\ \A r \in 1 .. Len(u) : v[r] = u[r]
          /\ v[Len(u) + 1] = s[k + 1]
      BY <2>1, <3>1, <3>2, AppendProperties
    <3>4. /\ Others(s, ch, k + 1) = Others(s, ch, k) \union {k + 1}
          /\ Cardinality(Others(s, ch, k + 1)) = Cardinality(Others(s, ch, k)) + 1
      BY <2>4, OthersGrow
    <3>5. Len(v) = Cardinality(Others(s, ch, k + 1))
      BY <3>2, <3>3, <3>4 DEF Selects
    <3>6. ASSUME NEW p \in Others(s, ch, k + 1)
          PROVE  /\ Cardinality(Others(s, ch, p)) \in 1 .. Len(v)
                 /\ v[Cardinality(Others(s, ch, p))] = s[p]
      <4>1. CASE p = k + 1
        <5>1. Cardinality(Others(s, ch, p)) = Len(u) + 1
          BY <3>3, <3>5, <4>1
        <5> QED BY <3>2, <3>3, <4>1, <5>1
      <4>2. CASE p \in Others(s, ch, k)
        <5>1. /\ Cardinality(Others(s, ch, p)) \in 1 .. Len(u)
              /\ u[Cardinality(Others(s, ch, p))] = s[p]
          BY <3>2, <4>2 DEF Selects
        <5> QED BY <3>2, <3>3, <5>1
      <4> QED BY <3>4, <4>1, <4>2
    <3>7. ASSUME NEW r \in 1 .. Len(v)
          PROVE  \E p \in Others(s, ch, k + 1) : Cardinality(Others(s, ch, p)) = r
      <4>1. CASE r = Len(u) + 1
        BY <3>3, <3>4, <3>5, <4>1
      <4>2. CASE r \in 1 .. Len(u)
        <5>1. \E p \in Others(s, ch, k) : Cardinality(Others(s, ch, p)) = r
          BY <3>2, <4>2 DEF Selects
        <5> QED BY <3>4, <5>1
      <4> QED BY <3>2, <3>3, <4>1, <4>2
    <3>8. Selects(v, s, ch, k + 1)
      BY <3>5, <3>6, <3>7 DEF Selects
    <3>9. Len(v) <= k + 1
      BY <3>2, <3>3
    <3> QED BY <3>3, <3>8, <3>9 DEF v
  <2> QED BY <2>3, <2>4
<1>3. Nat \subseteq N
  <2> HIDE DEF N
  <2> QED BY <1>1, <1>2, NatSetInduction
<1> QED BY <1>0, <1>3

LEMMA SameCardinality == \A P : T!Cardinality(P) = Cardinality(P)
  BY DEF T!Cardinality, Cardinality

(* What strip_char leaves of a text is the text without the character.       *)
LEMMA SqueezedResult ==
  ASSUME NEW S, NEW s \in Seq(S), NEW ch
  PROVE  /\ Squeezed(s, ch) \in Seq(S) /\ Len(Squeezed(s, ch)) <= Len(s)
         /\ Squeezed(s, ch) = T!Without(s, ch)
<1> DEFINE n == Len(s)
           u == Squeezed(s, ch)
<1>1. n \in Nat /\ DOMAIN s = 1 .. n /\ n \in 0 .. n
  BY LenProperties
<1>2. u \in Seq(S) /\ Len(u) <= n /\ Selects(u, s, ch, n)
  BY <1>1, LeavesStep, LeavesSelect
<1> HIDE DEF n, u
<1> DEFINE others == {p \in DOMAIN s : s[p] # ch}
<1>3. others = Others(s, ch, n) /\ Len(u) = Cardinality(others)
  BY <1>1, <1>2 DEF Others, Selects
<1>4. ASSUME NEW p \in others PROVE {q \in others : q <= p} = Others(s, ch, p)
  BY <1>1 DEF Others
<1>7. T!Without(s, ch) =
        [k \in 1 .. Cardinality(others) |->
           s[CHOOSE p \in others : Cardinality({q \in others : q <= p}) = k]]
  BY DEF T!Without, T!Cardinality, Cardinality
<1> HIDE DEF others
<1>5. ASSUME NEW k \in 1 .. Len(u)
      PROVE  u[k] = s[CHOOSE p \in others : Cardinality({q \in others : q <= p}) = k]
  <2> DEFINE P(p) == Cardinality({q \in others : q <= p}) = k
             c == CHOOSE p \in others : P(p)
  <2>1. \E p \in others : P(p)
    <3>1. PICK p \in others : Cardinality(Others(s, ch, p)) = k
      BY <1>2, <1>3, <1>5 DEF Selects
    <3> QED BY <1>4, <3>1
  <2>2. c \in others /\ P(c)
    <3> HIDE DEF P
    <3> QED BY <2>1
  <2>3. Cardinality(Others(s, ch, c)) = k
    BY <1>4, <2>2
  <2>4. u[Cardinality(Others(s, ch, c))] = s[c]
    BY <1>2, <1>3, <2>2 DEF Selects
  <2> QED BY <2>3, <2>4
<1>6. u = [k \in 1 .. Len(u) |-> u[k]]
  BY <1>2
<1>8. u = T!Without(s, ch)
  BY <1>3, <1>5, <1>6, <1>7
<1> QED BY <1>2, <1>8 DEF n, u

-------------------------------------------------------------------------------
BufferOK ==
  /\ cap \in Nat /\ cap >= InitCap
  /\ len \in Nat
  /\ buffer \in [0 .. cap -> Char \union {NUL, JUNK}]

(* Nothing up to len is memory that nobody has written, and there is a NUL   *)
(* at len, although the text may end before it.                             *)
StringInv ==
  /\ BufferOK
  /\ len <= cap /\ buffer[len] = NUL
  /\ \A k \in 0 .. len : buffer[k] # JUNK

TextOf(b) == [k \in 1 .. StrLen(b) |-> b[k - 1]]

LEMMA InvFacts ==
  ASSUME StringInv
  PROVE  /\ cap \in Nat \ {0} /\ len \in Nat /\ len \in 0 .. cap
         /\ buffer \in [0 .. cap -> Cells]
         /\ StrLen(buffer) \in 0 .. len /\ EndsAt(buffer, StrLen(buffer))
         /\ \A k \in 0 .. StrLen(buffer) - 1 : buffer[k] \in Char
<1>1. /\ cap \in Nat \ {0} /\ len \in Nat /\ len \in 0 .. cap
      /\ buffer \in [0 .. cap -> Cells] /\ buffer[len] = NUL
  BY StringAssumption DEF StringInv, BufferOK, Cells
<1>2. StrLen(buffer) \in 0 .. len /\ EndsAt(buffer, StrLen(buffer))
  BY <1>1, StrLenExists
<1>3. ASSUME NEW k \in 0 .. StrLen(buffer) - 1 PROVE buffer[k] \in Char
  <2>1. k \in 0 .. cap /\ k \in 0 .. len
    BY <1>1, <1>2
  <2>2. buffer[k] \in Cells /\ buffer[k] # NUL /\ buffer[k] # JUNK
    BY <1>1, <1>2, <2>1 DEF EndsAt, StringInv
  <2> QED BY <2>2 DEF Cells
<1> QED BY <1>1, <1>2, <1>3

(* A text of which the buffer holds the characters. *)
LEMMA TextOfBuffer ==
  ASSUME NEW c \in Nat, NEW b, DOMAIN b = 0 .. c, NEW n \in 0 .. c, EndsAt(b, n),
         \A k \in 0 .. n - 1 : b[k] \in Char
  PROVE  /\ StrLen(b) = n
         /\ TextOf(b) = [k \in 1 .. n |-> b[k - 1]]
         /\ TextOf(b) \in Seq(Char) /\ Len(TextOf(b)) = n
         /\ \A k \in 1 .. n : TextOf(b)[k] = b[k - 1]
<1>1. StrLen(b) = n
  BY StrLenIs
<1>2. TextOf(b) = [k \in 1 .. n |-> b[k - 1]]
  BY <1>1 DEF TextOf
<1>3. \A k \in 1 .. n : b[k - 1] \in Char
  OBVIOUS
<1> QED BY <1>1, <1>2, <1>3

LEMMA TextFacts ==
  ASSUME StringInv
  PROVE  /\ Text = TextOf(buffer)
         /\ Text \in Seq(Char) /\ Len(Text) = StrLen(buffer)
         /\ \A k \in 1 .. StrLen(buffer) : Text[k] = buffer[k - 1]
<1>1. Text = TextOf(buffer)
  BY DEF Text, TextOf
<1>2. /\ cap \in Nat /\ DOMAIN buffer = 0 .. cap /\ StrLen(buffer) \in 0 .. cap
      /\ EndsAt(buffer, StrLen(buffer)) /\ \A k \in 0 .. StrLen(buffer) - 1 : buffer[k] \in Char
  BY InvFacts
<1> HIDE DEF EndsAt
<1> QED BY <1>1, <1>2, TextOfBuffer

(* The next buffer holds the text s, and the rest of it is in order.        *)
Holds(b, c, l, s) ==
  /\ c \in Nat /\ c >= InitCap /\ l \in 0 .. c
  /\ b \in [0 .. c -> Cells] /\ b[l] = NUL
  /\ \A k \in 0 .. l : b[k] # JUNK
  /\ Len(s) \in 0 .. c /\ EndsAt(b, Len(s))
  /\ \A k \in 0 .. Len(s) - 1 : b[k] = s[k + 1]

LEMMA HoldsInv ==
  ASSUME NEW s \in Seq(Char), Holds(buffer', cap', len', s)
  PROVE  StringInv' /\ Text' = s
<1>1. StringInv'
  BY DEF Holds, StringInv, BufferOK, Cells
<1>2. ASSUME NEW k \in 0 .. Len(s) - 1 PROVE buffer'[k] \in Char
  <2>1. Len(s) \in Nat /\ k + 1 \in 1 .. Len(s)
    BY LenProperties
  <2>2. s[k + 1] \in Char
    BY <2>1, ElementOfSeq
  <2> QED BY <1>2, <2>2 DEF Holds
<1>3. /\ cap' \in Nat /\ DOMAIN (buffer') = 0 .. cap' /\ Len(s) \in 0 .. cap'
      /\ EndsAt(buffer', Len(s))
  BY DEF Holds
<1>4. /\ TextOf(buffer') \in Seq(Char) /\ Len(TextOf(buffer')) = Len(s)
      /\ \A k \in 1 .. Len(s) : TextOf(buffer')[k] = buffer'[k - 1]
  BY <1>2, <1>3, TextOfBuffer
<1>5. ASSUME NEW k \in 1 .. Len(s) PROVE TextOf(buffer')[k] = s[k]
  <2>1. Len(s) \in Nat
    BY LenProperties
  <2>2. k - 1 \in 0 .. Len(s) - 1 /\ (k - 1) + 1 = k
    BY <2>1
  <2>3. buffer'[k - 1] = s[(k - 1) + 1]
    BY <2>2 DEF Holds
  <2> QED BY <1>4, <2>2, <2>3
<1>6. TextOf(buffer') = s
  BY <1>4, <1>5, SeqEqual
<1> QED BY <1>1, <1>6 DEF Text, TextOf

(* Room is made for what is needed, and the capacity does not shrink. *)
LEMMA RoomFits ==
  ASSUME NEW from \in Nat, NEW need \in Nat, NEW c \in Room(from, need)
  PROVE  c \in Nat /\ c >= from /\ c >= need
  BY DEF Room

LEMMA InitHolds == StringInit => StringInv /\ Text = << >>
<1> SUFFICES ASSUME StringInit PROVE StringInv /\ Text = << >>
  OBVIOUS
<1>1. InitCap \in Nat /\ InitCap >= InitCap /\ NUL # JUNK
  BY StringAssumption
<1>2. StringInv
  BY <1>1 DEF StringInit, StringInv, BufferOK
<1>3. EndsAt(buffer, 0)
  BY <1>1 DEF StringInit, EndsAt
<1>4. StrLen(buffer) = 0
  <2>1. DOMAIN buffer = 0 .. InitCap /\ 0 \in 0 .. InitCap
    BY <1>1 DEF StringInit
  <2> QED BY <1>1, <1>3, <2>1, StrLenIs
<1>5. Text \in Seq(Char) /\ Len(Text) = 0
  BY <1>2, <1>4, TextFacts
<1> QED BY <1>2, <1>5

LEMMA JoinParts ==
  ASSUME NEW S, NEW u \in Seq(S), NEW t \in Seq(S)
  PROVE  /\ u \o t \in Seq(S) /\ Len(u \o t) = Len(u) + Len(t)
         /\ \A k \in 1 .. Len(u) : (u \o t)[k] = u[k]
         /\ \A k \in 1 .. Len(t) : (u \o t)[Len(u) + k] = t[k]
  OBVIOUS

(* strcat goes on at the NUL, and room was made for len. *)
LEMMA AppendStringText ==
  ASSUME StringInv, NEW t \in Pieces, AppendString(t)
  PROVE  StringInv' /\ Text' = Text \o t /\ t \in Seq(Char)
<1> DEFINE n == StrLen(buffer)
           s == Text \o t
<1>1. /\ cap \in Nat \ {0} /\ cap >= InitCap /\ len \in 0 .. cap /\ n \in 0 .. len
      /\ buffer \in [0 .. cap -> Cells] /\ EndsAt(buffer, n)
      /\ \A k \in 0 .. len : buffer[k] # JUNK
  BY InvFacts DEF StringInv, BufferOK
<1>2. /\ t \in Seq(Char) /\ Len(t) \in Nat /\ \A k \in 1 .. Len(t) : t[k] \in Char
  BY StringAssumption, LenProperties, ElementOfSeq
<1>3. /\ Text \in Seq(Char) /\ Len(Text) = n
      /\ \A k \in 1 .. n : Text[k] = buffer[k - 1]
  BY TextFacts
<1>4. cap' \in Nat /\ cap' >= cap /\ cap' >= Len(t) + len + 1
  <2>1. cap' \in Room(cap, Len(t) + len + 1) /\ cap \in Nat /\ Len(t) + len + 1 \in Nat
    BY <1>1, <1>2 DEF AppendString
  <2> QED BY <2>1, RoomFits
<1>5. /\ buffer' = [k \in 0 .. cap' |->
                      IF k \in n .. n + Len(t) - 1 THEN t[k - n + 1]
                      ELSE IF k = n + Len(t) THEN NUL
                      ELSE IF k <= cap THEN buffer[k] ELSE JUNK]
      /\ len' = n + Len(t)
  BY DEF AppendString, Kept
<1>6. InitCap \in Nat /\ \A x \in Char : x # NUL /\ x # JUNK
  BY StringAssumption
<1>7. /\ s \in Seq(Char) /\ Len(s) = n + Len(t)
      /\ \A k \in 1 .. n : s[k] = Text[k]
      /\ \A k \in 1 .. Len(t) : s[n + k] = t[k]
  <2>1. Text \in Seq(Char) /\ t \in Seq(Char) /\ Len(Text) = n
    BY <1>2, <1>3
  <2>2. /\ Text \o t \in Seq(Char) /\ Len(Text \o t) = Len(Text) + Len(t)
        /\ \A k \in 1 .. Len(Text) : (Text \o t)[k] = Text[k]
        /\ \A k \in 1 .. Len(t) : (Text \o t)[Len(Text) + k] = t[k]
    <3> HIDE DEF n
    <3>1. \A S : \A u, v \in Seq(S) :
            /\ u \o v \in Seq(S) /\ Len(u \o v) = Len(u) + Len(v)
            /\ \A k \in 1 .. Len(u) : (u \o v)[k] = u[k]
            /\ \A k \in 1 .. Len(v) : (u \o v)[Len(u) + k] = v[k]
      BY JoinParts
    <3>2. \A u, v \in Seq(Char) :
            /\ u \o v \in Seq(Char) /\ Len(u \o v) = Len(u) + Len(v)
            /\ \A k \in 1 .. Len(u) : (u \o v)[k] = u[k]
            /\ \A k \in 1 .. Len(v) : (u \o v)[Len(u) + k] = v[k]
      BY <3>1
    <3> QED BY <2>1, <3>2
  <2> HIDE DEF n
  <2> QED BY <2>1, <2>2
<1> HIDE DEF n, s
<1>8. len' \in 0 .. cap' /\ len' = Len(s)
  BY <1>1, <1>2, <1>4, <1>5, <1>7
<1>9. buffer' \in [0 .. cap' -> Cells]
  <2>1. ASSUME NEW k \in 0 .. cap' PROVE buffer'[k] \in Cells
    <3>1. CASE k \in n .. n + Len(t) - 1
      <4>1. k - n + 1 \in 1 .. Len(t) /\ buffer'[k] = t[k - n + 1]
        BY <1>1, <1>2, <1>5, <3>1
      <4> QED BY <1>2, <4>1 DEF Cells
    <3>2. CASE ~(k \in n .. n + Len(t) - 1)
      <4>1. buffer'[k] = NUL \/ buffer'[k] = JUNK \/ (k <= cap /\ buffer'[k] = buffer[k])
        BY <1>5, <3>2
      <4>2. k <= cap => k \in 0 .. cap
        BY <1>1
      <4> QED BY <1>1, <4>1, <4>2 DEF Cells
    <3> QED BY <3>1, <3>2
  <2> QED BY <1>5, <2>1
<1>10. buffer'[len'] = NUL
  BY <1>1, <1>2, <1>5, <1>8
<1>11. ASSUME NEW k \in 0 .. n - 1 PROVE buffer'[k] = buffer[k] /\ buffer'[k] = s[k + 1]
  <2>1. k \in 0 .. cap' /\ k <= cap /\ ~(k \in n .. n + Len(t) - 1) /\ k # n + Len(t)
    BY <1>1, <1>2, <1>4
  <2>2. k + 1 \in 1 .. n /\ (k + 1) - 1 = k
    BY <1>1
  <2>3. buffer'[k] = buffer[k]
    BY <1>5, <2>1
  <2> QED BY <1>3, <1>7, <2>2, <2>3
<1>12. ASSUME NEW k \in n .. n + Len(t) - 1 PROVE buffer'[k] = s[k + 1] /\ buffer'[k] \in Char
  <2> DEFINE j == k - n + 1
  <2>1. k \in 0 .. cap' /\ j \in 1 .. Len(t) /\ n + j = k + 1
    BY <1>1, <1>2, <1>4
  <2>2. buffer'[k] = t[j]
    BY <1>5, <2>1
  <2> HIDE DEF j
  <2>3. s[n + j] = t[j] /\ t[j] \in Char
    BY <1>2, <1>7, <2>1
  <2> QED BY <2>1, <2>2, <2>3
<1>13. \A k \in 0 .. Len(s) - 1 : k \in 0 .. n - 1 \/ k \in n .. n + Len(t) - 1
  BY <1>1, <1>2, <1>7
<1>14. EndsAt(buffer', Len(s))
  <2>1. \A k \in 0 .. n - 1 : buffer[k] # NUL
    BY <1>1 DEF EndsAt
  <2>2. \A k \in 0 .. Len(s) - 1 : buffer'[k] # NUL
    BY <1>6, <1>11, <1>12, <1>13, <2>1
  <2> QED BY <1>8, <1>10, <2>2 DEF EndsAt
<1>15. \A k \in 0 .. len' : buffer'[k] # JUNK
  <2> SUFFICES ASSUME NEW k \in 0 .. len' PROVE buffer'[k] # JUNK
    OBVIOUS
  <2>1. CASE k = len'
    BY <1>6, <1>10, <2>1, StringAssumption
  <2>2. CASE k \in 0 .. n - 1
    <3>1. k \in 0 .. len
      BY <1>1, <2>2
    <3> QED BY <1>1, <1>11, <2>2, <3>1
  <2>3. CASE k \in n .. n + Len(t) - 1
    BY <1>6, <1>12, <2>3
  <2>4. k \in 0 .. len' => k = len' \/ k \in 0 .. Len(s) - 1
    BY <1>8
  <2> QED BY <1>13, <2>1, <2>2, <2>3, <2>4
<1>16. Holds(buffer', cap', len', s)
  <2>1. cap' >= InitCap
    BY <1>1, <1>4, <1>6
  <2> QED BY <1>4, <1>8, <1>9, <1>10, <1>11, <1>12, <1>13, <1>14, <1>15, <2>1 DEF Holds
<1> QED BY <1>2, <1>7, <1>16, HoldsInv DEF s

(* A character is written at len, and the NUL behind it: where the text ends *)
(* before len nothing changes of it.                                         *)
LEMMA AppendCharText ==
  ASSUME StringInv, NEW ch \in Char \union {NUL}, AppendChar(ch)
  PROVE  /\ StringInv'
         /\ len = Len(Text) /\ ch \in Char => Text' = Append(Text, ch)
         /\ ~(len = Len(Text) /\ ch \in Char) => Text' = Text
<1> DEFINE n == StrLen(buffer)
<1>1. /\ cap \in Nat \ {0} /\ cap >= InitCap /\ len \in 0 .. cap /\ n \in 0 .. len
      /\ buffer \in [0 .. cap -> Cells] /\ EndsAt(buffer, n)
      /\ \A k \in 0 .. len : buffer[k] # JUNK
  BY InvFacts DEF StringInv, BufferOK
<1>2. InitCap \in Nat /\ NUL # JUNK /\ \A x \in Char : x # NUL /\ x # JUNK
  BY StringAssumption
<1>3. /\ Text \in Seq(Char) /\ Len(Text) = n
      /\ \A k \in 1 .. n : Text[k] = buffer[k - 1]
  BY TextFacts
<1>4. /\ cap' = (IF len + 1 > cap THEN 2 * cap ELSE cap)
      /\ buffer' = [k \in 0 .. cap' |->
                      IF k = len THEN ch ELSE IF k = len + 1 THEN NUL
                      ELSE IF k <= cap THEN buffer[k] ELSE JUNK]
      /\ len' = len + 1
  BY DEF AppendChar, Kept
<1>5. cap' \in Nat /\ cap' >= cap /\ cap' >= len + 1
  BY <1>1, <1>4
<1> HIDE DEF n
<1>6. len' \in 0 .. cap' /\ cap' >= InitCap /\ buffer'[len'] = NUL /\ buffer'[len] = ch
  BY <1>1, <1>2, <1>4, <1>5
<1>7. \A k \in 0 .. len - 1 : buffer'[k] = buffer[k]
  BY <1>1, <1>4, <1>5
<1>8. buffer' \in [0 .. cap' -> Cells]
  <2>1. ASSUME NEW k \in 0 .. cap' PROVE buffer'[k] \in Cells
    <3>1. \/ buffer'[k] = ch \/ buffer'[k] = NUL \/ buffer'[k] = JUNK
          \/ k <= cap /\ buffer'[k] = buffer[k]
      BY <1>4
    <3>2. k <= cap => k \in 0 .. cap
      BY <1>1
    <3> QED BY <1>1, <3>1, <3>2 DEF Cells
  <2> QED BY <1>4, <2>1
<1>9. \A k \in 0 .. len' : buffer'[k] # JUNK
  <2> SUFFICES ASSUME NEW k \in 0 .. len' PROVE buffer'[k] # JUNK
    OBVIOUS
  <2>1. k = len' \/ k = len \/ (k \in 0 .. len - 1 /\ k \in 0 .. len)
    BY <1>1, <1>4
  <2> QED BY <1>1, <1>2, <1>6, <1>7, <2>1
<1>10. ASSUME len = n, ch \in Char PROVE Holds(buffer', cap', len', Append(Text, ch))
  <2> DEFINE s == Append(Text, ch)
  <2>1. /\ s \in Seq(Char) /\ Len(s) = n + 1 /\ s[n + 1] = ch
        /\ \A k \in 1 .. n : s[k] = Text[k]
    BY <1>3, <1>10, AppendProperties
  <2> HIDE DEF s
  <2>2. ASSUME NEW k \in 0 .. Len(s) - 1 PROVE buffer'[k] = s[k + 1] /\ buffer'[k] # NUL
    <3>1. CASE k = n
      BY <1>2, <1>6, <1>10, <2>1, <3>1
    <3>2. CASE k # n
      <4>1. k \in 0 .. n - 1 /\ k + 1 \in 1 .. n /\ (k + 1) - 1 = k
        BY <1>1, <2>1, <3>2
      <4> QED BY <1>1, <1>3, <1>7, <1>10, <2>1, <4>1 DEF EndsAt
    <3> QED BY <3>1, <3>2
  <2>3. Len(s) = len' /\ EndsAt(buffer', Len(s))
    <3>1. Len(s) = len'
      BY <1>4, <1>10, <2>1
    <3> QED BY <1>6, <2>2, <3>1 DEF EndsAt
  <2> QED BY <1>5, <1>6, <1>8, <1>9, <2>2, <2>3 DEF Holds, s
<1>11. ASSUME ~(len = n /\ ch \in Char) PROVE Holds(buffer', cap', len', Text)
  <2>1. ASSUME NEW k \in 0 .. n - 1
        PROVE  buffer'[k] = Text[k + 1] /\ buffer'[k] # NUL
    <3>1. k \in 0 .. len - 1 /\ k + 1 \in 1 .. n /\ (k + 1) - 1 = k
      BY <1>1
    <3> QED BY <1>1, <1>3, <1>7, <3>1 DEF EndsAt
  <2>2. buffer'[n] = NUL
    <3>1. CASE len = n
      BY <1>6, <1>11, <3>1
    <3>2. CASE len # n
      <4>1. n \in 0 .. len - 1
        BY <1>1, <3>2
      <4> QED BY <1>1, <1>7, <4>1 DEF EndsAt
    <3> QED BY <3>1, <3>2
  <2>3. EndsAt(buffer', Len(Text))
    BY <1>3, <2>1, <2>2 DEF EndsAt
  <2>4. Len(Text) \in 0 .. cap'
    BY <1>1, <1>3, <1>5
  <2> QED BY <1>3, <1>5, <1>6, <1>8, <1>9, <2>1, <2>3, <2>4 DEF Holds
<1>12. ch \in Char => Append(Text, ch) \in Seq(Char)
  BY <1>3, AppendProperties
<1> QED BY <1>3, <1>10, <1>11, <1>12, HoldsInv

LEMMA ClearText ==
  ASSUME StringInv, Clear
  PROVE  StringInv' /\ Text' = << >>
<1>1. /\ cap \in Nat \ {0} /\ cap >= InitCap /\ buffer \in [0 .. cap -> Cells]
      /\ InitCap \in Nat /\ NUL # JUNK
  BY InvFacts, StringAssumption DEF StringInv, BufferOK
<1>2. buffer' = [buffer EXCEPT ![0] = NUL] /\ len' = 0 /\ cap' = cap
  BY DEF Clear
<1>3. 0 \in 0 .. cap /\ buffer' \in [0 .. cap -> Cells] /\ buffer'[0] = NUL
  BY <1>1, <1>2 DEF Cells
<1>4. Len(<< >>) = 0 /\ << >> \in Seq(Char)
  OBVIOUS
<1>5. EndsAt(buffer', 0) /\ \A k \in 0 .. len' : buffer'[k] # JUNK
  BY <1>1, <1>2, <1>3 DEF EndsAt
<1>6. Holds(buffer', cap', len', << >>)
  BY <1>1, <1>2, <1>3, <1>4, <1>5 DEF Holds
<1> QED BY <1>4, <1>6, HoldsInv

(* upcase changes the characters of the text only. *)
LEMMA UpcaseText ==
  ASSUME StringInv, Upcase
  PROVE  StringInv' /\ Text' = [k \in DOMAIN Text |-> Upper[Text[k]]]
<1> DEFINE n == StrLen(buffer)
           s == [k \in DOMAIN Text |-> Upper[Text[k]]]
<1>1. /\ cap \in Nat \ {0} /\ cap >= InitCap /\ len \in 0 .. cap /\ n \in 0 .. len
      /\ buffer \in [0 .. cap -> Cells] /\ EndsAt(buffer, n) /\ buffer[len] = NUL
      /\ \A k \in 0 .. len : buffer[k] # JUNK
      /\ \A k \in 0 .. n - 1 : buffer[k] \in Char
  BY InvFacts DEF StringInv, BufferOK
<1>2. /\ InitCap \in Nat /\ \A x \in Char : x # NUL /\ x # JUNK /\ Upper[x] \in Char
  BY StringAssumption
<1>3. /\ Text \in Seq(Char) /\ Len(Text) = n /\ DOMAIN Text = 1 .. n
      /\ \A k \in 1 .. n : Text[k] = buffer[k - 1]
  BY TextFacts, LenProperties
<1>4. /\ buffer' = [k \in 0 .. cap |-> IF k < n THEN Upper[buffer[k]] ELSE buffer[k]]
      /\ len' = len /\ cap' = cap
  BY <1>1 DEF Upcase
<1>5. \A k \in 1 .. n : Text[k] \in Char
  BY <1>3, ElementOfSeq
<1>6. s \in Seq(Char) /\ Len(s) = n /\ \A k \in 1 .. n : s[k] = Upper[Text[k]]
  <2>1. n \in Nat
    BY <1>1
  <2>2. s = [k \in 1 .. n |-> Upper[Text[k]]]
    BY <1>3
  <2> HIDE DEF n, s
  <2> QED BY <1>2, <1>5, <2>1, <2>2
<1> HIDE DEF n, s
<1>7. \A k \in 0 .. n - 1 : buffer'[k] = Upper[buffer[k]] /\ buffer'[k] \in Char
  BY <1>1, <1>2, <1>4
<1>8. \A k \in 0 .. cap : ~(k < n) => buffer'[k] = buffer[k]
  BY <1>4
<1>9. \A k \in 0 .. cap : k \in 0 .. n - 1 \/ ~(k < n)
  BY <1>1
<1>10. buffer' \in [0 .. cap -> Cells]
  BY <1>1, <1>4, <1>7, <1>8, <1>9 DEF Cells
<1>11. EndsAt(buffer', n)
  <2>1. buffer'[n] = NUL
    BY <1>1, <1>8 DEF EndsAt
  <2> QED BY <1>2, <1>7, <2>1 DEF EndsAt
<1>12. \A k \in 0 .. len : buffer'[k] # JUNK
  BY <1>1, <1>2, <1>7, <1>8, <1>9
<1>13. buffer'[len] = NUL
  BY <1>1, <1>8
<1>14. ASSUME NEW k \in 0 .. n - 1 PROVE buffer'[k] = s[k + 1]
  <2>1. k + 1 \in 1 .. n /\ (k + 1) - 1 = k
    BY <1>1
  <2> QED BY <1>3, <1>6, <1>7, <2>1
<1>15. Holds(buffer', cap', len', s)
  <2>1. n \in 0 .. cap
    BY <1>1
  <2> QED BY <1>1, <1>4, <1>6, <1>10, <1>11, <1>12, <1>13, <1>14, <2>1 DEF Holds
<1> QED BY <1>6, <1>15, HoldsInv DEF s

-------------------------------------------------------------------------------
(* The ends that strip_space finds are those of the trimmed text.           *)
LEMMA TrimmedIs ==
  ASSUME StringInv, NEW from \in Nat, NEW to \in Nat, Trims(buffer, from, to)
  PROVE  /\ T!Trimmed \in Seq(Char) /\ Len(T!Trimmed) = to - from
         /\ \A k \in 1 .. to - from : T!Trimmed[k] = Text[from + k]
<1> DEFINE n == StrLen(buffer)
           inner == {k \in DOMAIN Text : /\ \E j \in 1 .. k : T!Solid(j)
                                         /\ \E j \in k .. Len(Text) : T!Solid(j)}
           first == CHOOSE k \in inner : \A j \in inner : k <= j
<1>1. /\ Text \in Seq(Char) /\ Len(Text) = n /\ DOMAIN Text = 1 .. n /\ n \in Nat
      /\ \A k \in 1 .. n : Text[k] = buffer[k - 1]
  BY TextFacts, LenProperties
<1>2. /\ to \in 0 .. n /\ from \in 0 .. to
      /\ \A k \in to .. n - 1 : buffer[k] \in Space
      /\ \A k \in 0 .. from - 1 : buffer[k] \in Space
      /\ from = to \/ (buffer[from] \notin Space /\ buffer[to - 1] \notin Space)
  BY DEF Trims
<1>3. T!Trimmed = IF inner = {} THEN << >>
                  ELSE SubSeq(Text, first, first + Cardinality(inner) - 1)
  BY SameCardinality DEF T!Trimmed
<1>4. ASSUME NEW j, T!Solid(j) PROVE j \in from + 1 .. to
  <2>1. j \in 1 .. n /\ Text[j] \notin Space
    BY <1>1, <1>4 DEF T!Solid
  <2>2. j - 1 \in 0 .. n - 1 /\ buffer[j - 1] \notin Space
    BY <1>1, <2>1
  <2>3. ~(j - 1 \in 0 .. from - 1) /\ ~(j - 1 \in to .. n - 1)
    BY <1>2, <2>2
  <2> QED BY <1>1, <1>2, <2>1, <2>3
<1> HIDE DEF n
<1>5. CASE from = to
  <2>1. inner = {}
    BY <1>4, <1>5
  <2>2. T!Trimmed = << >>
    BY <1>3, <2>1
  <2> QED BY <1>5, <2>2
<1>6. CASE from # to
  <2>1. T!Solid(from + 1) /\ T!Solid(to)
    <3>1. from + 1 \in 1 .. n /\ to \in 1 .. n /\ (from + 1) - 1 = from
      BY <1>1, <1>2, <1>6
    <3> QED BY <1>1, <1>2, <1>6, <3>1 DEF T!Solid
  <2>2. inner = from + 1 .. to
    <3>1. ASSUME NEW k \in inner PROVE k \in from + 1 .. to
      <4>1. k \in 1 .. n
        BY <1>1
      <4>2. PICK j \in 1 .. k : T!Solid(j)
        OBVIOUS
      <4>3. PICK i \in k .. n : T!Solid(i)
        BY <1>1
      <4> QED BY <1>4, <4>1, <4>2, <4>3
    <3>2. ASSUME NEW k \in from + 1 .. to PROVE k \in inner
      <4>1. k \in 1 .. n /\ from + 1 \in 1 .. k /\ to \in k .. n
        BY <1>1, <1>2
      <4> QED BY <1>1, <2>1, <4>1
    <3> QED BY <3>1, <3>2
  <2>3. Cardinality(inner) = to - from
    <3>1. from + 1 \in Int /\ to \in Int /\ ~(from + 1 > to)
      BY <1>2, <1>6
    <3>2. Cardinality(from + 1 .. to) = to - (from + 1) + 1
      BY <3>1, FS_Interval
    <3> HIDE DEF inner
    <3>3. Cardinality(inner) = Cardinality(from + 1 .. to)
      BY <2>2
    <3> QED BY <3>2, <3>3
  <2>4. first = from + 1
    <3>1. from + 1 \in inner /\ \A j \in inner : from + 1 <= j /\ j \in Int
      BY <1>2, <1>6, <2>2
    <3> HIDE DEF inner
    <3>2. \A k \in inner : (\A j \in inner : k <= j) => k = from + 1
      BY <3>1
    <3> QED BY <3>1, <3>2
  <2>5. inner # {}
    BY <1>2, <1>6, <2>2
  <2> HIDE DEF inner, first
  <2>6. T!Trimmed = SubSeq(Text, from + 1, to)
    <3>1. first + Cardinality(inner) - 1 = to
      BY <2>3, <2>4
    <3> QED BY <1>3, <2>4, <2>5, <3>1
  <2>7. from <= to /\ to <= Len(Text)
    BY <1>1, <1>2
  <2> QED BY <1>1, <2>6, <2>7, SubSeqParts
<1> QED BY <1>5, <1>6

(* strip_space leaves a string whose text is the trimmed one, and the NUL   *)
(* at len where it was.                                                     *)
LEMMA StripParts ==
  ASSUME StringInv
  PROVE  LET s == StripSpaces(buffer)
         IN  /\ s \in [0 .. cap -> Cells] /\ s[len] = NUL
             /\ \A k \in 0 .. len : s[k] # JUNK
             /\ StrLen(s) \in 0 .. len /\ EndsAt(s, StrLen(s))
             /\ TextOf(s) = T!Trimmed
             /\ T!Trimmed \in Seq(Char) /\ Len(T!Trimmed) = StrLen(s)
             /\ \A k \in 1 .. StrLen(s) : T!Trimmed[k] = s[k - 1]
<1> DEFINE s == StripSpaces(buffer)
<1>1. /\ cap \in Nat /\ len \in 0 .. cap /\ buffer \in [0 .. cap -> Cells]
      /\ buffer[len] = NUL /\ \A k \in 0 .. len : buffer[k] # JUNK
      /\ StrLen(buffer) \in 0 .. len
  BY InvFacts DEF StringInv
<1>2. PICK from \in Nat, to \in Nat :
        /\ Trims(buffer, from, to)
        /\ s \in [0 .. cap -> Cells]
        /\ StrLen(s) = to - from /\ EndsAt(s, to - from)
        /\ \A k \in 0 .. to - from - 1 : s[k] = buffer[from + k]
        /\ \A k \in 0 .. len : s[k] = NUL \/ \E j \in 0 .. len : s[k] = buffer[j]
        /\ s[len] = NUL
  BY <1>1, StripSpacesResult
<1> HIDE DEF s
<1>3. to - from \in 0 .. len /\ to - from \in Nat /\ to \in 0 .. StrLen(buffer)
  BY <1>1, <1>2 DEF Trims
<1>4. \A k \in 0 .. len : s[k] # JUNK
  BY <1>1, <1>2, StringAssumption
<1>5. /\ T!Trimmed \in Seq(Char) /\ Len(T!Trimmed) = to - from
      /\ \A k \in 1 .. to - from : T!Trimmed[k] = Text[from + k]
  BY <1>2, TrimmedIs
<1>6. ASSUME NEW k \in 1 .. to - from PROVE T!Trimmed[k] = s[k - 1] /\ s[k - 1] \in Char
  <2> DEFINE j == from + k
             i == k - 1
  <2>1. /\ i \in 0 .. to - from - 1 /\ j - 1 = from + i /\ j \in 1 .. StrLen(buffer)
    BY <1>1, <1>3
  <2>2. T!Trimmed[k] = Text[j] /\ T!Trimmed[k] \in Char
    BY <1>5, ElementOfSeq
  <2> HIDE DEF i, j
  <2>3. Text[j] = buffer[j - 1]
    BY <2>1, TextFacts
  <2>4. s[i] = buffer[from + i]
    BY <1>2, <2>1
  <2> QED BY <2>1, <2>2, <2>3, <2>4 DEF i
<1>7. /\ TextOf(s) \in Seq(Char) /\ Len(TextOf(s)) = to - from
      /\ \A k \in 1 .. to - from : TextOf(s)[k] = s[k - 1]
  <2>1. to - from \in 0 .. cap /\ DOMAIN s = 0 .. cap
    BY <1>1, <1>2, <1>3
  <2>2. ASSUME NEW k \in 0 .. to - from - 1 PROVE s[k] \in Char
    <3>1. k + 1 \in 1 .. to - from /\ (k + 1) - 1 = k
      BY <1>3
    <3> QED BY <1>6, <3>1
  <2> DEFINE m == to - from
  <2>3. cap \in Nat /\ DOMAIN s = 0 .. cap /\ m \in 0 .. cap /\ EndsAt(s, m)
    BY <1>1, <1>2, <2>1
  <2>4. \A k \in 0 .. m - 1 : s[k] \in Char
    BY <2>2
  <2>5. m = to - from
    OBVIOUS
  <2> HIDE DEF m
  <2>6. /\ TextOf(s) \in Seq(Char) /\ Len(TextOf(s)) = m
        /\ \A k \in 1 .. m : TextOf(s)[k] = s[k - 1]
    BY <2>3, <2>4, TextOfBuffer
  <2> QED BY <2>5, <2>6
<1>8. TextOf(s) = T!Trimmed
  BY <1>5, <1>6, <1>7, SeqEqual
<1> QED BY <1>2, <1>3, <1>4, <1>5, <1>6, <1>8 DEF s

LEMMA StripSpaceText ==
  ASSUME StringInv, StripSpace
  PROVE  StringInv' /\ Text' = T!Trimmed
<1>1. buffer' = StripSpaces(buffer) /\ len' = len /\ cap' = cap
  BY DEF StripSpace
<1>2. /\ cap \in Nat /\ len \in 0 .. cap /\ cap >= InitCap
  BY InvFacts DEF StringInv, BufferOK
<1>3. StringInv'
  <2>1. /\ buffer' \in [0 .. cap -> Cells] /\ buffer'[len] = NUL
        /\ \A k \in 0 .. len : buffer'[k] # JUNK
    BY <1>1, StripParts
  <2> QED BY <1>1, <1>2, <2>1 DEF StringInv, BufferOK, Cells
<1>4. TextOf(buffer') = T!Trimmed
  BY <1>1, StripParts
<1> QED BY <1>3, <1>4 DEF Text, TextOf

(* strip_char: the text of what is kept is that without the character.      *)
LEMMA StripCharText ==
  ASSUME StringInv, NEW ch \in Char, StripChar(ch)
  PROVE  StringInv' /\ Text' = T!Without(T!Trimmed, ch) /\ len' <= len
<1> DEFINE b == StripSpaces(buffer)
           n == StrLen(b)
           kept == Squeezed(T!Trimmed, ch)
<1>1. /\ b \in [0 .. cap -> Cells] /\ n \in 0 .. len
      /\ TextOf(b) = T!Trimmed /\ T!Trimmed \in Seq(Char) /\ Len(T!Trimmed) = n
  BY StripParts
<1>2. /\ kept \in Seq(Char) /\ Len(kept) <= n /\ kept = T!Without(T!Trimmed, ch)
      /\ Len(kept) \in Nat
  <2>1. /\ kept \in Seq(Char) /\ Len(kept) <= Len(T!Trimmed)
        /\ kept = T!Without(T!Trimmed, ch)
    BY <1>1, SqueezedResult
  <2> HIDE DEF kept
  <2> QED BY <1>1, <2>1, LenProperties
<1>3. [k \in 1 .. n |-> b[k - 1]] = T!Trimmed
  BY <1>1 DEF TextOf
<1>4. /\ buffer' = [k \in DOMAIN b |->
                      IF k < Len(kept) THEN kept[k + 1] ELSE IF k <= n THEN NUL ELSE b[k]]
      /\ len' = Len(kept) /\ cap' = cap
  BY <1>3 DEF StripChar
<1>5. /\ cap \in Nat /\ cap >= InitCap /\ len \in 0 .. cap
      /\ \A x \in Char : x # NUL /\ x # JUNK
  BY InvFacts, StringAssumption DEF StringInv, BufferOK
<1>6. NUL # JUNK
  BY StringAssumption
<1> HIDE DEF b, n, kept
<1>7. \A k \in 0 .. cap :
        buffer'[k] = IF k < Len(kept) THEN kept[k + 1] ELSE IF k <= n THEN NUL ELSE b[k]
  BY <1>1, <1>4
<1>8. ASSUME NEW k \in 0 .. Len(kept) - 1
      PROVE  buffer'[k] = kept[k + 1] /\ buffer'[k] \in Char
  <2>1. k \in 0 .. cap /\ k < Len(kept) /\ k + 1 \in 1 .. Len(kept)
    BY <1>1, <1>2, <1>5
  <2>2. kept[k + 1] \in Char
    BY <1>2, <2>1, ElementOfSeq
  <2> QED BY <1>7, <2>1, <2>2
<1>9. Len(kept) \in 0 .. cap /\ buffer'[Len(kept)] = NUL
  <2>1. Len(kept) \in 0 .. cap /\ ~(Len(kept) < Len(kept)) /\ Len(kept) <= n
    BY <1>1, <1>2, <1>5
  <2> QED BY <1>7, <2>1
<1>10. buffer' \in [0 .. cap -> Cells]
  <2>1. ASSUME NEW k \in 0 .. cap PROVE buffer'[k] \in Cells
    <3>1. CASE k < Len(kept)
      <4>1. k \in 0 .. Len(kept) - 1
        BY <1>2, <3>1
      <4> QED BY <1>8, <4>1 DEF Cells
    <3>2. CASE ~(k < Len(kept))
      <4>1. buffer'[k] = NUL \/ buffer'[k] = b[k]
        BY <1>7, <3>2
      <4> QED BY <1>1, <4>1 DEF Cells
    <3> QED BY <3>1, <3>2
  <2>2. DOMAIN b = 0 .. cap
    BY <1>1
  <2> QED BY <1>4, <2>1, <2>2
<1>11. EndsAt(buffer', Len(kept))
  BY <1>5, <1>8, <1>9 DEF EndsAt
<1>12. \A k \in 0 .. len' : buffer'[k] # JUNK
  <2> SUFFICES ASSUME NEW k \in 0 .. len' PROVE buffer'[k] # JUNK
    OBVIOUS
  <2>1. k = Len(kept) \/ k \in 0 .. Len(kept) - 1
    BY <1>2, <1>4
  <2> QED BY <1>5, <1>6, <1>8, <1>9, <2>1
<1>13. Holds(buffer', cap', len', kept)
  BY <1>4, <1>5, <1>8, <1>9, <1>10, <1>11, <1>12 DEF Holds
<1>14. len' <= len
  BY <1>1, <1>2, <1>4, <1>5
<1> QED BY <1>2, <1>13, <1>14, HoldsInv

(* strip_ends: the trimmed text without its first and its last character.   *)
LEMMA StripEndsText ==
  ASSUME StringInv, StripEnds, Len(T!Trimmed) # 0
  PROVE  /\ StringInv'
         /\ Len(T!Trimmed) > 0 /\ Text' = SubSeq(T!Trimmed, 2, Len(T!Trimmed) - 1)
<1> DEFINE b == StripSpaces(buffer)
           n == StrLen(b)
           cut == [k \in DOMAIN b |-> IF k = n - 1 THEN NUL ELSE b[k]]
           s == SubSeq(T!Trimmed, 2, n - 1)
           m == IF n = 1 THEN 0 ELSE n - 2
<1>1. /\ b \in [0 .. cap -> Cells] /\ n \in 0 .. len /\ b[len] = NUL
      /\ \A k \in 0 .. len : b[k] # JUNK
      /\ T!Trimmed \in Seq(Char) /\ Len(T!Trimmed) = n
      /\ \A k \in 1 .. n : T!Trimmed[k] = b[k - 1]
  BY StripParts
<1>2. /\ n > 0
      /\ buffer' = [k \in DOMAIN b |-> IF k < n - 1 THEN cut[k + 1] ELSE cut[k]]
      /\ len' = len /\ cap' = cap
  <2>1. n > 0
    BY <1>1
  <2> QED BY <2>1 DEF StripEnds
<1>3. /\ cap \in Nat /\ cap >= InitCap /\ len \in 0 .. cap
      /\ NUL # JUNK /\ \A x \in Char : x # NUL /\ x # JUNK
  BY InvFacts, StringAssumption DEF StringInv, BufferOK
<1> HIDE DEF b, n
<1>4. m \in 0 .. n - 1 /\ m \in Nat /\ m <= len
  BY <1>1, <1>2, <1>3
<1>5. s \in Seq(Char) /\ Len(s) = m /\ \A k \in 1 .. m : s[k] = T!Trimmed[1 + k]
  <2>1. CASE n = 1
    <3>1. s = << >>
      <4>1. n - 1 \in Int /\ n - 1 < 2
        BY <2>1
      <4> QED BY <4>1, SubSeqEmpty
    <3> QED BY <2>1, <3>1
  <2>2. CASE n # 1
    <3>1. 1 \in Nat /\ n - 1 \in Nat /\ 1 <= n - 1 /\ n - 1 <= Len(T!Trimmed)
      BY <1>1, <1>2, <1>3, <2>2
    <3>2. /\ SubSeq(T!Trimmed, 1 + 1, n - 1) \in Seq(Char)
          /\ Len(SubSeq(T!Trimmed, 1 + 1, n - 1)) = (n - 1) - 1
          /\ \A k \in 1 .. (n - 1) - 1 : SubSeq(T!Trimmed, 1 + 1, n - 1)[k] = T!Trimmed[1 + k]
      BY <1>1, <3>1, SubSeqParts
    <3>3. (n - 1) - 1 = m /\ 1 + 1 = 2
      BY <1>1, <1>3, <2>2
    <3> QED BY <3>2, <3>3
  <2> QED BY <2>1, <2>2
<1> HIDE DEF s
<1>6. /\ cut \in [0 .. cap -> Cells] /\ cut[n - 1] = NUL
      /\ \A k \in 0 .. cap : k # n - 1 => cut[k] = b[k]
  BY <1>1, <1>2, <1>3 DEF Cells
<1>7. DOMAIN b = 0 .. cap
  BY <1>1
<1> HIDE DEF cut
<1>8. \A k \in 0 .. cap : buffer'[k] = IF k < n - 1 THEN cut[k + 1] ELSE cut[k]
  BY <1>2, <1>7
<1>9. ASSUME NEW k \in 0 .. m - 1 PROVE buffer'[k] = s[k + 1] /\ buffer'[k] \in Char
  <2> DEFINE j == k + 1
             i == j + 1
  <2>1. /\ n # 1 /\ k \in 0 .. cap /\ k < n - 1 /\ j \in 0 .. cap /\ j # n - 1
        /\ j \in 1 .. m /\ 1 + j = i /\ i \in 1 .. n /\ i - 1 = j
    BY <1>1, <1>2, <1>3
  <2>2. buffer'[k] = cut[j]
    BY <1>8, <2>1
  <2> HIDE DEF i, j, m
  <2>3. cut[j] = b[j] /\ s[j] = T!Trimmed[i] /\ T!Trimmed[i] = b[i - 1] /\ T!Trimmed[i] \in Char
    BY <1>1, <1>5, <1>6, <2>1, ElementOfSeq
  <2> QED BY <2>1, <2>2, <2>3 DEF j
<1>10. buffer'[m] = NUL
  <2>1. CASE n = 1
    <3>1. m \in 0 .. cap /\ m = n - 1 /\ ~(m < n - 1)
      BY <1>3, <2>1
    <3> HIDE DEF m
    <3> QED BY <1>6, <1>8, <3>1
  <2>2. CASE n # 1
    <3>1. m \in 0 .. cap /\ m + 1 = n - 1 /\ m < n - 1
      BY <1>1, <1>2, <1>3, <2>2
    <3> HIDE DEF m
    <3> QED BY <1>6, <1>8, <3>1
  <2> QED BY <2>1, <2>2
<1> HIDE DEF m
<1>11. ASSUME NEW k \in 0 .. cap PROVE buffer'[k] \in Cells
  <2>1. k < n - 1 => k + 1 \in 0 .. cap
    BY <1>1, <1>3
  <2> QED BY <1>6, <1>8, <2>1
<1>12. ASSUME NEW k \in 0 .. len PROVE buffer'[k] # JUNK
  <2>1. ASSUME NEW j \in 0 .. len PROVE cut[j] # JUNK
    <3>1. j \in 0 .. cap
      BY <1>3
    <3> QED BY <1>1, <1>3, <1>6, <3>1
  <2>2. k < n - 1 => k + 1 \in 0 .. len
    BY <1>1, <1>3
  <2>3. k \in 0 .. cap
    BY <1>3
  <2> QED BY <1>8, <2>1, <2>2, <2>3
<1>13. buffer'[len] = NUL
  <2>1. len \in 0 .. cap /\ ~(len < n - 1)
    BY <1>1, <1>3
  <2> QED BY <1>1, <1>6, <1>8, <2>1
<1>14. EndsAt(buffer', m)
  BY <1>3, <1>9, <1>10 DEF EndsAt
<1>15. Holds(buffer', cap', len', s)
  <2>1. buffer' \in [0 .. cap -> Cells]
    BY <1>2, <1>7, <1>11
  <2>2. m \in 0 .. cap
    BY <1>3, <1>4
  <2> QED BY <1>2, <1>3, <1>5, <1>9, <1>12, <1>13, <1>14, <2>1, <2>2 DEF Holds
<1> QED BY <1>1, <1>2, <1>5, <1>15, HoldsInv DEF s

(* Of a blank text nothing is left, and the buffer is that of strip_space.  *)
LEMMA StripEndsBlank ==
  ASSUME StringInv, StripEnds, Len(T!Trimmed) = 0
  PROVE  StringInv' /\ Text' = T!Trimmed
<1> DEFINE b == StripSpaces(buffer)
<1>1. /\ b \in [0 .. cap -> Cells] /\ b[len] = NUL /\ StrLen(b) = 0
      /\ \A k \in 0 .. len : b[k] # JUNK
      /\ TextOf(b) = T!Trimmed
  BY StripParts
<1>2. cap \in Nat /\ len \in 0 .. cap /\ cap >= InitCap
  BY InvFacts DEF StringInv, BufferOK
<1>3. /\ buffer' = [k \in DOMAIN b |->
                      IF k < 0 - 1 THEN [i \in DOMAIN b |-> IF i = 0 - 1 THEN NUL ELSE b[i]][k + 1]
                      ELSE [i \in DOMAIN b |-> IF i = 0 - 1 THEN NUL ELSE b[i]][k]]
      /\ len' = len /\ cap' = cap
  BY <1>1 DEF StripEnds
<1> HIDE DEF b
<1>4. buffer' = b
  <2>1. DOMAIN b = 0 .. cap /\ b = [k \in 0 .. cap |-> b[k]]
    BY <1>1
  <2>2. \A k \in 0 .. cap : ~(k < 0 - 1) /\ k # 0 - 1
    BY <1>2
  <2>3. buffer' = [k \in 0 .. cap |-> b[k]]
    BY <1>3, <2>1, <2>2
  <2> QED BY <2>1, <2>3
<1>5. StringInv'
  BY <1>1, <1>2, <1>3, <1>4 DEF StringInv, BufferOK, Cells
<1>6. TextOf(buffer') = T!Trimmed
  BY <1>1, <1>4
<1> QED BY <1>5, <1>6 DEF Text, TextOf

(* copy_string copies up to the NUL. *)
LEMMA CopyText ==
  ASSUME StringInv, Copy
  PROVE  StringInv' /\ Text' = Text
<1> DEFINE n == StrLen(buffer)
<1>1. /\ cap \in Nat /\ buffer \in [0 .. cap -> Cells] /\ len \in 0 .. cap /\ n \in 0 .. len
      /\ \A k \in 0 .. n - 1 : buffer[k] \in Char
  BY InvFacts
<1>2. /\ Text \in Seq(Char) /\ Len(Text) = n
      /\ \A k \in 1 .. n : Text[k] = buffer[k - 1]
  BY TextFacts
<1>3. /\ InitCap \in Nat /\ NUL # JUNK /\ \A x \in Char : x # NUL /\ x # JUNK
  BY StringAssumption
<1>4. cap' \in Nat /\ cap' >= InitCap /\ cap' >= n + 1
  <2>1. cap' \in Room(InitCap, n + 1) /\ n + 1 \in Nat
    BY <1>1 DEF Copy
  <2> QED BY <1>3, <2>1, RoomFits
<1>5. /\ buffer' = [k \in 0 .. cap' |->
                      IF k < n THEN buffer[k]
                      ELSE IF k = n \/ cap' = InitCap THEN NUL ELSE JUNK]
      /\ len' = n
  BY DEF Copy
<1> HIDE DEF n
<1>6. len' \in 0 .. cap' /\ buffer'[n] = NUL
  BY <1>1, <1>4, <1>5
<1>7. \A k \in 0 .. n - 1 : buffer'[k] = buffer[k]
  BY <1>1, <1>4, <1>5
<1>8. buffer' \in [0 .. cap' -> Cells]
  <2>1. ASSUME NEW k \in 0 .. cap' PROVE buffer'[k] \in Cells
    <3>1. k < n => k \in 0 .. n - 1
      BY <1>1
    <3>2. \/ k < n /\ buffer'[k] = buffer[k]
          \/ buffer'[k] = NUL \/ buffer'[k] = JUNK
      BY <1>5
    <3> QED BY <1>1, <3>1, <3>2 DEF Cells
  <2> QED BY <1>5, <2>1
<1>9. ASSUME NEW k \in 0 .. n - 1 PROVE buffer'[k] = Text[k + 1] /\ buffer'[k] \in Char
  <2>1. k + 1 \in 1 .. n /\ (k + 1) - 1 = k
    BY <1>1
  <2> QED BY <1>1, <1>2, <1>7, <2>1
<1>10. EndsAt(buffer', n)
  BY <1>3, <1>6, <1>9 DEF EndsAt
<1>11. \A k \in 0 .. len' : buffer'[k] # JUNK
  <2> SUFFICES ASSUME NEW k \in 0 .. len' PROVE buffer'[k] # JUNK
    OBVIOUS
  <2>1. k = n \/ k \in 0 .. n - 1
    BY <1>1, <1>5
  <2> QED BY <1>3, <1>6, <1>9, <2>1
<1>12. Holds(buffer', cap', len', Text)
  BY <1>2, <1>4, <1>5, <1>6, <1>8, <1>9, <1>10, <1>11 DEF Holds
<1> QED BY <1>2, <1>12, HoldsInv

-------------------------------------------------------------------------------
(* Every call does to the text what its name says, or leaves it.            *)
LEMMA StringStep ==
  ASSUME StringInv, [StringNext]_stringVars
  PROVE  StringInv' /\ (T!Next \/ Text' = Text)
<1> USE DEF T!Next
<1>1. CASE \E t \in Pieces : AppendString(t)
  BY <1>1, AppendStringText DEF T!Join
<1>2. ASSUME NEW c \in Char \union {NUL}, AppendChar(c)
      PROVE  StringInv' /\ (T!Next \/ Text' = Text)
  BY <1>2, AppendCharText DEF T!Put
<1>3. CASE \E c \in Char : StripChar(c)
  BY <1>3, StripCharText DEF T!Remove
<1>4. CASE Clear
  BY <1>4, ClearText DEF T!Empty
<1>5. CASE StripSpace
  BY <1>5, StripSpaceText DEF T!Trim
<1>6. CASE StripEnds
  BY <1>6, StripEndsText, StripEndsBlank DEF T!Unquote, T!Trim
<1>7. CASE Upcase
  BY <1>7, UpcaseText DEF T!Upcase
<1>8. CASE Copy
  BY <1>8, CopyText
<1>9. CASE UNCHANGED stringVars
  <2>1. buffer' = buffer /\ len' = len /\ cap' = cap
    BY <1>9 DEF stringVars
  <2> QED BY <2>1 DEF StringInv, BufferOK, Text
<1> QED BY <1>1, <1>2, <1>3, <1>4, <1>5, <1>6, <1>7, <1>8, <1>9 DEF StringNext

(* Only behind a stray write len may be the place behind the bytes. *)
RoomInv ==
  /\ strays \subseteq {"front", "behind"}
  /\ "behind" \notin strays => len < cap

(* What a write that stays in front of the place c leaves of strays.        *)
LEMMA WritesIn ==
  ASSUME NEW P \in SUBSET Int, WritesAt(P), \A k \in P : k >= 0 /\ ~(k >= cap')
  PROVE  strays' = strays
<1>1. ~(\E k \in P : k >= cap')
  OBVIOUS
<1>2. ASSUME NEW k \in P, k < 0 PROVE FALSE
  <2>1. k >= 0 /\ k < 0 /\ k # 0
    BY <1>2
  <2> QED BY <2>1
<1>3. {side \in {"front"} : \E k \in P : k < 0} = {}
  BY <1>2
<1>4. {side \in {"behind"} : \E k \in P : k >= cap'} = {}
  BY <1>1
<1> QED BY <1>3, <1>4 DEF WritesAt

(* One that begins at 0 or behind, and may end at len.                      *)
LEMMA WritesUpTo ==
  ASSUME RoomInv, StringInv, NEW P, WritesAt(P), cap' = cap,
         \A k \in P : k \in 0 .. len
  PROVE  strays' = strays
<1>1. len \in Nat /\ cap \in Nat /\ len \in 0 .. cap
  BY InvFacts
<1>2. CASE "behind" \in strays
  <2>1. {side \in {"front"} : \E k \in P : k < 0} = {}
    BY <1>1
  <2> QED BY <1>2, <2>1 DEF WritesAt
<1>3. CASE "behind" \notin strays
  <2>1. len < cap
    BY <1>3 DEF RoomInv
  <2> QED BY <1>1, <2>1, WritesIn
<1> QED BY <1>2, <1>3

(* Which calls write outside of the bytes, and when.                        *)
Strayed ==
  \/ len + 1 = cap' /\ \E c \in Char \union {NUL} : AppendChar(c)
  \/ T!Trimmed = << >> /\ StripEnds

LEMMA RoomStep ==
  ASSUME StringInv, RoomInv, [StringNext]_stringVars
  PROVE  RoomInv' /\ (strays' # strays => Strayed)
<1> DEFINE n == StrLen(buffer)
<1>1. /\ cap \in Nat \ {0} /\ len \in Nat /\ len \in 0 .. cap /\ n \in 0 .. len
      /\ InitCap \in Nat
  BY InvFacts, StringAssumption
<1> HIDE DEF n
<1>2. ASSUME strays' = strays, cap' = cap, len' <= len, len' \in Nat
      PROVE  RoomInv' /\ (strays' # strays => Strayed)
  BY <1>1, <1>2 DEF RoomInv
<1>3. ASSUME NEW t \in Pieces, AppendString(t)
      PROVE  RoomInv' /\ (strays' # strays => Strayed)
  <2>1. Len(t) \in Nat
    BY StringAssumption, LenProperties
  <2>2. cap' \in Nat /\ cap' >= Len(t) + len + 1
    <3>1. cap' \in Room(cap, Len(t) + len + 1) /\ Len(t) + len + 1 \in Nat
      BY <1>1, <2>1, <1>3 DEF AppendString
    <3> QED BY <1>1, <3>1, RoomFits
  <2>3. len' = n + Len(t) /\ WritesAt(n .. n + Len(t))
    BY <1>3 DEF AppendString, n
  <2>4. strays' = strays
    <3> DEFINE P == n .. n + Len(t)
    <3>1. P \in SUBSET Int /\ \A k \in P : k >= 0 /\ ~(k >= cap')
      BY <1>1, <2>1, <2>2
    <3>2. WritesAt(P)
      BY <2>3
    <3> HIDE DEF P
    <3> QED BY <3>1, <3>2, WritesIn
  <2>5. len' < cap'
    BY <1>1, <2>1, <2>2, <2>3
  <2> QED BY <2>4, <2>5 DEF RoomInv
<1>4. ASSUME NEW c \in Char \union {NUL}, AppendChar(c)
      PROVE  RoomInv' /\ (strays' # strays => Strayed)
  <2>1. /\ cap' = (IF len + 1 > cap THEN 2 * cap ELSE cap) /\ len' = len + 1
        /\ WritesAt({len, len + 1})
    BY <1>4 DEF AppendChar
  <2>2. cap' \in Nat /\ cap' >= len + 1
    BY <1>1, <2>1
  <2>3. strays' \subseteq strays \union {"front", "behind"} /\ strays \subseteq strays'
    BY <2>1 DEF WritesAt
  <2>4. CASE len + 1 = cap'
    <3>1. Strayed
      BY <1>4, <2>4 DEF Strayed
    <3>2. "behind" \in strays'
      <4>1. \E k \in {len, len + 1} : k >= cap'
        BY <1>1, <2>2, <2>4
      <4> QED BY <2>1, <4>1 DEF WritesAt
    <3> QED BY <2>3, <3>1, <3>2 DEF RoomInv
  <2>5. CASE len + 1 # cap'
    <3>1. len' < cap' /\ \A k \in {len, len + 1} : k >= 0 /\ ~(k >= cap')
      BY <1>1, <2>1, <2>2, <2>5
    <3>2. strays' = strays
      BY <2>1, <3>1, WritesIn
    <3> QED BY <3>1, <3>2 DEF RoomInv
  <2> QED BY <2>4, <2>5
<1>5. ASSUME NEW c \in Char, StripChar(c)
      PROVE  RoomInv' /\ (strays' # strays => Strayed)
  <2>1. cap' = cap /\ WritesAt(0 .. n)
    BY <1>5 DEF StripChar, n
  <2>2. len' <= len /\ len' \in Nat
    BY <1>5, StripCharText DEF StringInv, BufferOK
  <2>3. strays' = strays
    <3>1. \A k \in 0 .. n : k \in 0 .. len
      BY <1>1
    <3> QED BY <2>1, <3>1, WritesUpTo
  <2> QED BY <1>2, <2>1, <2>2, <2>3
<1>6. CASE Clear
  <2>1. cap' = cap /\ WritesAt({0}) /\ len' = 0
    BY <1>6 DEF Clear
  <2>2. strays' = strays
    <3>1. \A k \in {0} : k >= 0 /\ ~(k >= cap')
      BY <1>1, <2>1
    <3> QED BY <2>1, <3>1, WritesIn
  <2>3. len' <= len /\ len' \in Nat
    BY <1>1, <2>1
  <2> QED BY <1>2, <2>1, <2>2, <2>3
<1>7. CASE StripSpace
  <2>1. cap' = cap /\ WritesAt(0 .. n) /\ len' = len
    BY <1>7 DEF StripSpace, n
  <2>2. strays' = strays
    <3>1. \A k \in 0 .. n : k \in 0 .. len
      BY <1>1
    <3> QED BY <2>1, <3>1, WritesUpTo
  <2>3. len' <= len /\ len' \in Nat
    BY <1>1, <2>1
  <2> QED BY <1>2, <2>1, <2>2, <2>3
<1>8. CASE Upcase
  <2>1. cap' = cap /\ WritesAt(0 .. n - 1) /\ len' = len
    BY <1>8 DEF Upcase, n
  <2>2. strays' = strays
    <3>1. \A k \in 0 .. n - 1 : k \in 0 .. len
      BY <1>1
    <3> QED BY <2>1, <3>1, WritesUpTo
  <2>3. len' <= len /\ len' \in Nat
    BY <1>1, <2>1
  <2> QED BY <1>2, <2>1, <2>2, <2>3
<1>9. CASE StripEnds
  <2> DEFINE m == StrLen(StripSpaces(buffer))
  <2>1. cap' = cap /\ WritesAt(0 .. n \union {m - 1}) /\ len' = len
    BY <1>9 DEF StripEnds, n
  <2>2. m \in 0 .. len /\ T!Trimmed \in Seq(Char) /\ Len(T!Trimmed) = m
    BY StripParts
  <2> HIDE DEF m
  <2>3. CASE m = 0
    <3>1. T!Trimmed = << >>
      BY <2>2, <2>3, EmptySeq
    <3>2. Strayed
      BY <1>9, <3>1 DEF Strayed
    <3>3. strays' \subseteq strays \union {"front", "behind"} /\ strays \subseteq strays'
      BY <2>1 DEF WritesAt
    <3> QED BY <2>1, <3>2, <3>3 DEF RoomInv
  <2>4. CASE m # 0
    <3>1. \A k \in 0 .. n \union {m - 1} : k \in 0 .. len
      BY <1>1, <2>2, <2>4
    <3>2. strays' = strays
      BY <2>1, <3>1, WritesUpTo
    <3> QED BY <1>1, <1>2, <2>1, <3>2
  <2> QED BY <2>3, <2>4
<1>10. CASE Copy
  <2>1. cap' \in Room(InitCap, n + 1) /\ n + 1 \in Nat /\ len' = n /\ WritesAt(0 .. n)
    BY <1>1, <1>10 DEF Copy, n
  <2>2. cap' \in Nat /\ cap' >= n + 1
    BY <1>1, <2>1, RoomFits
  <2>3. \A k \in 0 .. n : k >= 0 /\ ~(k >= cap')
    BY <1>1, <2>2
  <2>4. strays' = strays /\ len' < cap'
    BY <1>1, <2>1, <2>2, <2>3, WritesIn
  <2> QED BY <2>4 DEF RoomInv
<1>11. CASE UNCHANGED stringVars
  BY <1>1, <1>2, <1>11 DEF stringVars, RoomInv
<1> QED BY <1>3, <1>4, <1>5, <1>6, <1>7, <1>8, <1>9, <1>10, <1>11 DEF StringNext

LEMMA StringInvariant == StringSpec => [](StringInv /\ RoomInv)
<1>1. StringInit => StringInv /\ RoomInv
  <2>1. StringInit => RoomInv
    BY StringAssumption DEF StringInit, RoomInv
  <2> QED BY <2>1, InitHolds
<1>2. StringInv /\ RoomInv /\ [StringNext]_stringVars => (StringInv /\ RoomInv)'
  BY StringStep, RoomStep
<1> QED BY <1>1, <1>2, PTL DEF StringSpec

(* The capacity never shrinks below that of a new string, and the buffer is *)
(* as long as it says with the one byte behind it (create_string,           *)
(* append_string, append_string_char).                                      *)
THEOREM StringType == StringSpec => []StringTypeOK
<1>1. StringInv /\ RoomInv => StringTypeOK
  BY DEF StringInv, BufferOK, RoomInv, StringTypeOK
<1> QED BY <1>1, StringInvariant, PTL

(* There is always a NUL within len, and len within the cap bytes as long   *)
(* as no append_string_char has written behind them: no reader runs off the *)
(* end, whatever strip_space and strip_ends leave in len.                   *)
THEOREM StringTerminated == StringSpec => []Terminated
<1>1. StringInv /\ RoomInv => Terminated
  <2> SUFFICES ASSUME StringInv, RoomInv PROVE Terminated
    OBVIOUS
  <2>1. len \in 0 .. len /\ buffer[len] = NUL /\ len <= cap
    BY InvFacts DEF StringInv
  <2> QED BY <2>1 DEF Terminated, RoomInv
<1> QED BY <1>1, StringInvariant, PTL

(* A call writes outside of the cap bytes in two cases only: a character    *)
(* that fills them, and the ends of a blank text.                           *)
THEOREM StringStraysKnown == StringSpec => StraysKnown
<1> DEFINE Known == strays' # strays =>
              \/ len + 1 = cap' /\ \E c \in Char \union {NUL} : AppendChar(c)
              \/ T!Trimmed = << >> /\ StripEnds
<1>1. StringInv /\ RoomInv /\ [StringNext]_stringVars => [Known]_stringVars
  BY RoomStep DEF Strayed
<1>2. StringSpec => [][Known]_stringVars
  <2> HIDE DEF Known
  <2> QED BY <1>1, StringInvariant, PTL DEF StringSpec
<1> QED BY <1>2 DEF StraysKnown

(* append_string_char appends to the text when len is its length, and       *)
(* leaves the text as it is when strip_space or strip_ends have left len    *)
(* behind its end.                                                          *)
THEOREM StringCharAppended == StringSpec => CharAppended
<1> DEFINE Appended ==
             \A c \in Char :
               AppendChar(c) => Text' = IF len = Len(Text) THEN Append(Text, c) ELSE Text
<1>1. StringInv /\ RoomInv => [Appended]_stringVars
  BY AppendCharText
<1>2. StringSpec => [][Appended]_stringVars
  <2> HIDE DEF Appended
  <2> QED BY <1>1, StringInvariant, PTL
<1> QED BY <1>2 DEF CharAppended

(* A reader of the string never sees anything but what the calls make of    *)
(* the text: stale capacities, NULs in the middle and a len behind the end  *)
(* of the text do not show.                                                 *)
THEOREM StringImplementsText == StringSpec => ImplementsText
<1>1. StringInit => T!Init
  BY InitHolds DEF T!Init
<1>2. StringInv /\ RoomInv /\ [StringNext]_stringVars => [T!Next]_Text
  BY StringStep
<1> QED BY <1>1, <1>2, StringInvariant, PTL DEF StringSpec, ImplementsText, T!Spec
================================================================================
