------------------------------ MODULE Induction ------------------------------
(***************************************************************************)
(* What the proofs about sequences and folds rest on: induction over the    *)
(* natural numbers, stated for a set instead of a predicate, and what the   *)
(* recursive functions of the libraries compute.                            *)
(***************************************************************************)
EXTENDS Integers, FiniteSetTheorems, SequenceTheorems, SequencesExt, TLAPS

(* A set of natural numbers has a smallest element. *)
LEMMA SmallestElement ==
  ASSUME NEW S \in SUBSET Nat, S # {}
  PROVE  \E m \in S : \A n \in S : m <= n
<1> DEFINE R == OpToRel(<, Nat)
<1>1. IsWellFoundedOn(R, Nat)
  BY NatLessThanWellFounded
<1>3. \A m, n \in Nat : n < m => <<n, m>> \in R
  BY DEF OpToRel
<1> HIDE DEF R
<1>2. PICK m \in S : \A n \in S : ~(<<n, m>> \in R)
  <2>1. S \subseteq Nat
    OBVIOUS
  <2>2. QED
    BY <1>1, <2>1, WFMin
<1>4. \A n \in S : ~(n < m)
  BY <1>2, <1>3
<1>5. \A n \in S : m <= n
  BY <1>4
<1>6. QED
  BY <1>5

(* A set that holds 0, and n + 1 with each n, holds all natural numbers.    *)
LEMMA NatSetInduction ==
  ASSUME NEW S, 0 \in S, \A n \in Nat : n \in S => n + 1 \in S
  PROVE  Nat \subseteq S
<1> SUFFICES ASSUME NEW k \in Nat, k \notin S
             PROVE  FALSE
  OBVIOUS
<1> DEFINE T == {n \in Nat : n \notin S}
<1>1. PICK m \in T : \A n \in T : m <= n
  <2>1. T \in SUBSET Nat /\ T # {}
    OBVIOUS
  <2> HIDE DEF T
  <2>2. QED
    BY <2>1, SmallestElement
<1>2. m # 0 /\ m \in Nat
  BY <1>1
<1>3. m - 1 \in Nat /\ m - 1 \notin T
  BY <1>1, <1>2
<1>4. QED
  BY <1>1, <1>2, <1>3
-------------------------------------------------------------------------------
(* f makes one step of F after the other, from a on. *)
Iterates(f, n, a, F) == f[0] = a /\ \A i \in 1 .. n : f[i] = F[<<f[i - 1], i>>]

(* There is such a function. *)
LEMMA IterationExists ==
  ASSUME NEW S, NEW a \in S, NEW n \in Nat, NEW F \in [S \X (1 .. n) -> S]
  PROVE  \E f \in [0 .. n -> S] : Iterates(f, n, a, F)
<1> DEFINE Runs(f, m) == f[0] = a /\ \A i \in 1 .. m : f[i] = F[<<f[i - 1], i>>]
           Ex(m) == m <= n => \E f \in [0 .. m -> S] : Runs(f, m)
           N == {m \in Nat : Ex(m)}
<1>1. 0 \in N
  <2> DEFINE f == [i \in 0 .. 0 |-> a]
  <2>1. f \in [0 .. 0 -> S] /\ Runs(f, 0)
    OBVIOUS
  <2> QED BY <2>1
<1>2. ASSUME NEW m \in Nat, m \in N, m + 1 <= n
      PROVE  \E g \in [0 .. m + 1 -> S] : Runs(g, m + 1)
  <2>1. PICK f \in [0 .. m -> S] : Runs(f, m)
    BY <1>2
  <2> DEFINE x == F[<<f[m], m + 1>>]
             g == [i \in 0 .. m + 1 |-> IF i = m + 1 THEN x ELSE f[i]]
  <2>2. f[m] \in S /\ m + 1 \in 1 .. n
    BY <1>2
  <2>3. <<f[m], m + 1>> \in S \X (1 .. n)
    BY <2>2
  <2>4. x \in S
    BY <2>3
  <2>5. \A i \in 0 .. m + 1 : i = m + 1 \/ i \in 0 .. m
    BY <1>2
  <2> HIDE DEF x
  <2>6. g \in [0 .. m + 1 -> S]
    BY <2>4, <2>5
  <2>7. g[0] = a /\ 0 # m + 1
    BY <1>2, <2>1
  <2>8. ASSUME NEW i \in 1 .. m + 1 PROVE g[i] = F[<<g[i - 1], i>>]
    <3>1. CASE i = m + 1
      <4>1. i - 1 \in 0 .. m + 1 /\ i - 1 = m /\ m # m + 1 /\ m \in 0 .. m + 1
        BY <1>2, <3>1
      <4>2. g[i] = x /\ g[i - 1] = f[m]
        BY <3>1, <4>1
      <4> QED BY <3>1, <4>2 DEF x
    <3>2. CASE i # m + 1
      <4>1. i \in 1 .. m /\ i \in 0 .. m + 1 /\ i - 1 \in 0 .. m + 1 /\ i - 1 # m + 1
        BY <1>2, <3>2
      <4>2. g[i] = f[i] /\ g[i - 1] = f[i - 1]
        BY <3>2, <4>1
      <4> QED BY <2>1, <4>1, <4>2
    <3> QED BY <3>1, <3>2
  <2> HIDE DEF g
  <2>9. Runs(g, m + 1)
    BY <2>7, <2>8
  <2> QED BY <2>6, <2>9
<1>3. ASSUME NEW m \in Nat, m \in N PROVE m + 1 \in N
  BY <1>2, <1>3
<1>4. n \in N
  <2> HIDE DEF N
  <2> QED BY <1>1, <1>3, NatSetInduction
<1> QED BY <1>4 DEF Iterates

-------------------------------------------------------------------------------
(* The function that FlattenSeq of SequencesExt takes its answer from.      *)
Flattening(q) ==
  CHOOSE f : f = [i \in 1 .. Len(q) |-> IF i = 1 THEN q[i] ELSE f[i - 1] \o q[i]]

LEMMA FlattenDef ==
  ASSUME NEW q
  PROVE  /\ Len(q) = 0 => FlattenSeq(q) = q
         /\ Len(q) # 0 => FlattenSeq(q) = Flattening(q)[Len(q)]
  BY DEF FlattenSeq, Flattening

(* The recursion of FlattenSeq has a solution, for each length. *)
LEMMA FlatteningExists ==
  ASSUME NEW q, NEW n \in Nat
  PROVE  \E f : f = [i \in 1 .. n |-> IF i = 1 THEN q[i] ELSE f[i - 1] \o q[i]]
<1> DEFINE Ex(m) == \E f : f = [i \in 1 .. m |-> IF i = 1 THEN q[i] ELSE f[i - 1] \o q[i]]
<1> DEFINE S == {m \in Nat : Ex(m)}
<1>1. 0 \in S
  <2> DEFINE f == [i \in 1 .. 0 |-> q[i]]
  <2>1. f = [i \in 1 .. 0 |-> IF i = 1 THEN q[i] ELSE f[i - 1] \o q[i]]
    OBVIOUS
  <2> QED BY <2>1
<1>2. ASSUME NEW m \in Nat, m \in S PROVE m + 1 \in S
  <2>1. PICK f : f = [i \in 1 .. m |-> IF i = 1 THEN q[i] ELSE f[i - 1] \o q[i]]
    BY <1>2
  <2> DEFINE g == [i \in 1 .. m + 1 |-> IF i = m + 1
                    THEN (IF i = 1 THEN q[i] ELSE f[i - 1] \o q[i]) ELSE f[i]]
  <2> DEFINE h == [i \in 1 .. m + 1 |-> IF i = 1 THEN q[i] ELSE g[i - 1] \o q[i]]
  <2>2. ASSUME NEW i \in 1 .. m + 1 PROVE g[i] = h[i]
    <3>1. CASE i = m + 1 /\ i # 1
      <4>1. g[i - 1] = f[i - 1]
        BY <3>1
      <4> QED BY <3>1, <4>1
    <3>2. CASE i = 1
      BY <2>1, <3>2
    <3>3. CASE i # m + 1 /\ i # 1
      <4>0. i \in 1 .. m /\ i - 1 \in 1 .. m
        BY <3>3
      <4>1. f[i] = f[i - 1] \o q[i]
        BY <2>1, <3>3, <4>0
      <4>2. g[i] = f[i] /\ g[i - 1] = f[i - 1]
        BY <4>0
      <4> QED BY <3>3, <4>1, <4>2
    <3> QED BY <3>1, <3>2, <3>3
  <2>3. g = h
    <3> HIDE DEF g, h
    <3>1. g = [i \in 1 .. m + 1 |-> g[i]] /\ h = [i \in 1 .. m + 1 |-> h[i]]
      BY DEF g, h
    <3> QED BY <2>2, <3>1
  <2> HIDE DEF g
  <2>4. Ex(m + 1)
    BY <2>3
  <2> HIDE DEF Ex
  <2> QED BY <2>4
<1> HIDE DEF S
<1>3. n \in S
  BY <1>1, <1>2, NatSetInduction
<1> QED BY <1>3 DEF S

(* The equation of FlattenSeq. *)
LEMMA FlatteningStep ==
  ASSUME NEW q, Len(q) \in Nat
  PROVE  /\ Len(q) > 0 => Flattening(q)[1] = q[1]
         /\ \A i \in 1 .. Len(q) - 1 : Flattening(q)[i + 1] = Flattening(q)[i] \o q[i + 1]
<1> DEFINE Is(f) == f = [k \in 1 .. Len(q) |-> IF k = 1 THEN q[k] ELSE f[k - 1] \o q[k]]
<1>1. \E f : Is(f)
  BY FlatteningExists
<1>2. Is(Flattening(q))
  BY <1>1 DEF Flattening
<1> HIDE DEF Flattening
<1>3. \A k \in 1 .. Len(q) :
        Flattening(q)[k] = IF k = 1 THEN q[k] ELSE Flattening(q)[k - 1] \o q[k]
  BY <1>2
<1>4. ASSUME NEW i \in 1 .. Len(q) - 1
      PROVE  Flattening(q)[i + 1] = Flattening(q)[i] \o q[i + 1]
  <2> DEFINE k == i + 1
  <2>1. k \in 1 .. Len(q) /\ k # 1 /\ k - 1 = i
    OBVIOUS
  <2> HIDE DEF k
  <2>2. Flattening(q)[k] = Flattening(q)[i] \o q[k]
    BY <1>3, <2>1
  <2> QED BY <2>2 DEF k
<1>5. ASSUME Len(q) > 0 PROVE Flattening(q)[1] = q[1]
  <2>1. 1 \in 1 .. Len(q)
    BY <1>5
  <2> QED BY <1>3, <2>1
<1> QED BY <1>4, <1>5

(* FlattenSeq returns a sequence of the elements of the sequences. *)
LEMMA FlatteningType ==
  ASSUME NEW S, NEW q \in Seq(Seq(S))
  PROVE  \A i \in 1 .. Len(q) : Flattening(q)[i] \in Seq(S)
<1>0. Len(q) \in Nat /\ \A i \in 1 .. Len(q) : q[i] \in Seq(S)
  BY LenProperties, ElementOfSeq
<1> DEFINE N == {i \in Nat : i \in 1 .. Len(q) => Flattening(q)[i] \in Seq(S)}
<1>1. 0 \in N
  OBVIOUS
<1>2. ASSUME NEW i \in Nat, i \in N PROVE i + 1 \in N
  <2> SUFFICES ASSUME i + 1 \in 1 .. Len(q) PROVE Flattening(q)[i + 1] \in Seq(S)
    OBVIOUS
  <2>1. CASE i = 0
    <3>1. Len(q) > 0 /\ q[1] \in Seq(S)
      BY <1>0, <2>1
    <3>2. Flattening(q)[1] = q[1]
      BY <1>0, <3>1, FlatteningStep
    <3> QED BY <2>1, <3>1, <3>2
  <2>2. CASE i # 0
    <3>1. i \in 1 .. Len(q) - 1 /\ i \in 1 .. Len(q)
      BY <1>0, <2>2
    <3>2. Flattening(q)[i + 1] = Flattening(q)[i] \o q[i + 1]
      BY <1>0, <3>1, FlatteningStep
    <3>3. Flattening(q)[i] \in Seq(S) /\ q[i + 1] \in Seq(S)
      BY <1>0, <1>2, <3>1
    <3> QED BY <3>2, <3>3, ConcatProperties
  <2> QED BY <2>1, <2>2
<1>3. Nat \subseteq N
  <2> HIDE DEF N
  <2> QED BY <1>1, <1>2, NatSetInduction
<1> QED BY <1>0, <1>3

(* FlattenSeq of a sequence with another sequence in front.                 *)
LEMMA FlattenCons ==
  ASSUME NEW S, NEW x \in Seq(S), NEW q \in Seq(Seq(S))
  PROVE  /\ FlattenSeq(q) \in Seq(S)
         /\ FlattenSeq(<<x>> \o q) = x \o FlattenSeq(q)
<1> DEFINE p == <<x>> \o q
<1>1. /\ Len(q) \in Nat /\ Len(p) = Len(q) + 1 /\ p[1] = x
      /\ \A i \in 1 .. Len(q) : p[i + 1] = q[i] /\ q[i] \in Seq(S)
  OBVIOUS
<1> HIDE DEF p
<1>2. Flattening(p)[1] = x
  <2>1. Len(p) \in Nat /\ Len(p) > 0
    BY <1>1
  <2> QED BY <1>1, <2>1, FlatteningStep
<1>3. \A i \in 1 .. Len(q) : Flattening(q)[i] \in Seq(S)
  BY FlatteningType
<1> DEFINE Shifted(i) == Flattening(p)[i + 1] = x \o Flattening(q)[i]
<1> DEFINE N == {i \in Nat : i \in 1 .. Len(q) => Shifted(i)}
<1>4. 0 \in N
  OBVIOUS
<1>5. ASSUME NEW i \in Nat, i \in N PROVE i + 1 \in N
  <2> SUFFICES ASSUME i + 1 \in 1 .. Len(q) PROVE Shifted(i + 1)
    OBVIOUS
  <2> DEFINE j == i + 1
  <2>1. j \in 1 .. Len(p) - 1 /\ Len(p) \in Nat /\ p[j + 1] = q[j] /\ q[j] \in Seq(S)
    BY <1>1
  <2>2. Flattening(p)[j + 1] = Flattening(p)[j] \o q[j]
    BY <2>1, FlatteningStep
  <2>3. CASE i = 0
    <3>1. Len(q) \in Nat /\ Len(q) > 0 /\ j = 1
      BY <1>1, <2>3
    <3>2. Flattening(q)[1] = q[1]
      BY <3>1, FlatteningStep
    <3>3. Flattening(p)[1 + 1] = x \o q[1]
      BY <1>2, <2>2, <3>1
    <3> QED BY <3>1, <3>2, <3>3
  <2>4. CASE i # 0
    <3>1. i \in 1 .. Len(q) - 1 /\ i \in 1 .. Len(q)
      BY <1>1, <2>4
    <3>2. Flattening(q)[j] = Flattening(q)[i] \o q[j]
      BY <1>1, <3>1, FlatteningStep
    <3>3. Flattening(p)[j] = x \o Flattening(q)[i]
      BY <1>5, <3>1
    <3>4. Flattening(q)[i] \in Seq(S)
      BY <1>3, <3>1
    <3>5. q[j] \in Seq(S)
      BY <2>1
    <3> HIDE DEF j
    <3>6. (x \o Flattening(q)[i]) \o q[j] = x \o (Flattening(q)[i] \o q[j])
      <4>1. \A t, u \in Seq(S) : (x \o t) \o u = x \o (t \o u)
        BY ConcatAssociative
      <4> QED BY <3>4, <3>5, <4>1
    <3>7. Flattening(p)[j + 1] = x \o Flattening(q)[j]
      BY <2>2, <3>2, <3>3, <3>6
    <3> QED BY <3>7 DEF j
  <2> QED BY <2>3, <2>4
<1>6. Nat \subseteq N
  <2> HIDE DEF N
  <2> QED BY <1>4, <1>5, NatSetInduction
<1>7. CASE Len(q) = 0
  <2>1. q = << >>
    BY <1>7
  <2>2. FlattenSeq(q) = << >>
    BY <2>1, <1>7, FlattenDef
  <2>3. Len(p) = 1 /\ Len(p) # 0
    BY <1>1, <1>7
  <2>4. FlattenSeq(p) = x
    <3>1. FlattenSeq(p) = Flattening(p)[Len(p)]
      BY <2>3, FlattenDef
    <3> QED BY <1>2, <2>3, <3>1
  <2>5. x \o << >> = x /\ << >> \in Seq(S)
    BY ConcatEmptySeq
  <2> QED BY <2>2, <2>4, <2>5 DEF p
<1>8. CASE Len(q) # 0
  <2>1. Len(q) \in 1 .. Len(q) /\ Len(q) \in N /\ Len(p) # 0
    BY <1>1, <1>6, <1>8
  <2>2. FlattenSeq(q) = Flattening(q)[Len(q)] /\ FlattenSeq(p) = Flattening(p)[Len(q) + 1]
    BY <1>1, <1>8, <2>1, FlattenDef
  <2>3. Flattening(p)[Len(q) + 1] = x \o Flattening(q)[Len(q)]
    BY <2>1
  <2> QED BY <1>3, <2>1, <2>2, <2>3 DEF p
<1> QED BY <1>7, <1>8

LEMMA FlattenEmpty == FlattenSeq(<< >>) = << >>
  BY FlattenDef

-------------------------------------------------------------------------------
(* What a concatenation is made of, in a form whose facts the solvers find. *)
Concats(V) ==
  \A u, t \in Seq(V) :
    /\ u \o t \in Seq(V) /\ Len(u \o t) = Len(u) + Len(t)
    /\ \A k \in 1 .. Len(u) : (u \o t)[k] = u[k]
    /\ \A k \in 1 .. Len(t) : (u \o t)[Len(u) + k] = t[k]

LEMMA ConcatParts == ASSUME NEW V PROVE Concats(V)
  BY DEF Concats

(* What a part of a sequence is made of. *)
LEMMA SubSeqParts ==
  ASSUME NEW V, NEW s \in Seq(V), NEW m \in Nat, NEW n \in Nat, m <= n, n <= Len(s)
  PROVE  /\ SubSeq(s, m + 1, n) \in Seq(V) /\ Len(SubSeq(s, m + 1, n)) = n - m
         /\ \A k \in 1 .. n - m : SubSeq(s, m + 1, n)[k] = s[m + k]
<1>1. Len(s) \in Nat
  BY LenProperties
<1>2. \A k \in m + 1 .. n : s[k] \in V
  BY <1>1, ElementOfSeq
<1>3. /\ SubSeq(s, m + 1, n) \in Seq(V)
      /\ Len(SubSeq(s, m + 1, n)) = IF m + 1 <= n THEN n - (m + 1) + 1 ELSE 0
      /\ \A k \in 1 .. n - (m + 1) + 1 : SubSeq(s, m + 1, n)[k] = s[(m + 1) + k - 1]
  BY <1>2, SubSeqProperties
<1>4. n - (m + 1) + 1 = n - m /\ \A k \in 1 .. n - m : (m + 1) + k - 1 = m + k
  OBVIOUS
<1> QED BY <1>3, <1>4

(* u is made of the first k of s, of t, and of what is behind m in s.        *)
Spliced(u, V, s, t, k, m) ==
  /\ u \in Seq(V) /\ Len(u) = k + Len(t) + (Len(s) - m)
  /\ \A j \in 1 .. k : u[j] = s[j]
  /\ \A j \in 1 .. Len(t) : u[k + j] = t[j]
  /\ \A j \in 1 .. Len(s) - m : u[k + Len(t) + j] = s[m + j]

LEMMA SpliceParts ==
  ASSUME NEW V, NEW s \in Seq(V), NEW t \in Seq(V),
         NEW k \in Nat, NEW m \in Nat, k <= m, m <= Len(s)
  PROVE  Spliced(SubSeq(s, 1, k) \o t \o SubSeq(s, m + 1, Len(s)), V, s, t, k, m)
<1> DEFINE a == SubSeq(s, 1, k)
           b == SubSeq(s, m + 1, Len(s))
           at == a \o t
           u == at \o b
           n == Len(s)
<1>1. n \in Nat /\ Len(t) \in Nat /\ 0 + 1 = 1 /\ 0 <= k /\ k <= n /\ k - 0 = k
  BY LenProperties
<1>2. /\ a \in Seq(V) /\ Len(a) = k
      /\ \A j \in 1 .. k : a[j] = s[j]
  <2>1. /\ SubSeq(s, 0 + 1, k) \in Seq(V) /\ Len(SubSeq(s, 0 + 1, k)) = k - 0
        /\ \A j \in 1 .. k - 0 : SubSeq(s, 0 + 1, k)[j] = s[0 + j]
    BY <1>1, SubSeqParts
  <2>2. \A j \in 1 .. k : 0 + j = j
    OBVIOUS
  <2> QED BY <1>1, <2>1, <2>2
<1>3. /\ b \in Seq(V) /\ Len(b) = n - m
      /\ \A j \in 1 .. n - m : b[j] = s[m + j]
  BY <1>1, SubSeqParts
<1> HIDE DEF a, b, n
<1>4. /\ at \in Seq(V) /\ Len(at) = k + Len(t)
      /\ \A j \in 1 .. k : at[j] = a[j]
      /\ \A j \in 1 .. Len(t) : at[k + j] = t[j]
  <2>1. /\ a \o t \in Seq(V) /\ Len(a \o t) = Len(a) + Len(t)
        /\ \A j \in 1 .. Len(a) : (a \o t)[j] = a[j]
        /\ \A j \in 1 .. Len(t) : (a \o t)[Len(a) + j] = t[j]
    <3>1. Concats(V)
      BY ConcatParts
    <3> QED BY <1>2, <3>1 DEF Concats
  <2> QED BY <1>2, <2>1
<1> HIDE DEF at
<1>5. /\ u \in Seq(V) /\ Len(u) = k + Len(t) + (n - m)
      /\ \A j \in 1 .. k + Len(t) : u[j] = at[j]
      /\ \A j \in 1 .. n - m : u[k + Len(t) + j] = b[j]
  <2>1. /\ at \o b \in Seq(V) /\ Len(at \o b) = Len(at) + Len(b)
        /\ \A j \in 1 .. Len(at) : (at \o b)[j] = at[j]
        /\ \A j \in 1 .. Len(b) : (at \o b)[Len(at) + j] = b[j]
    <3>1. Concats(V)
      BY ConcatParts
    <3> QED BY <1>3, <1>4, <3>1 DEF Concats
  <2> QED BY <1>3, <1>4, <2>1
<1> HIDE DEF u
<1>6. ASSUME NEW j \in 1 .. k PROVE u[j] = s[j]
  <2>1. j \in 1 .. k + Len(t)
    BY <1>1
  <2> QED BY <1>2, <1>4, <1>5, <2>1
<1>7. ASSUME NEW j \in 1 .. Len(t) PROVE u[k + j] = t[j]
  <2>1. k + j \in 1 .. k + Len(t)
    BY <1>1
  <2> QED BY <1>4, <1>5, <2>1
<1>8. Spliced(u, V, s, t, k, m)
  BY <1>3, <1>5, <1>6, <1>7 DEF Spliced, n
<1> QED BY <1>8 DEF u, at, a, b, n

(* The empty sequence is a sequence of anything. *)
LEMMA EmptyParts ==
  ASSUME NEW V
  PROVE  << >> \in Seq(V) /\ Len(<< >>) = 0
  OBVIOUS

Associates(V) == \A s, t, u \in Seq(V) : (s \o t) \o u = s \o (t \o u)

LEMMA Associated == ASSUME NEW V PROVE Associates(V)
  BY ConcatAssociative DEF Associates

(* A sequence with one more element. *)
LEMMA SnocParts ==
  ASSUME NEW V, NEW q \in Seq(V), NEW x \in V
  PROVE  /\ q \o <<x>> \in Seq(V) /\ Len(q \o <<x>>) = Len(q) + 1
         /\ \A k \in 1 .. Len(q) : (q \o <<x>>)[k] = q[k]
         /\ (q \o <<x>>)[Len(q) + 1] = x
<1> DEFINE t == <<x>>
<1>1. t \in Seq(V) /\ Len(t) = 1 /\ t[1] = x /\ 1 \in 1 .. 1
  OBVIOUS
<1> HIDE DEF t
<1>2. /\ q \o t \in Seq(V) /\ Len(q \o t) = Len(q) + Len(t)
      /\ \A k \in 1 .. Len(q) : (q \o t)[k] = q[k]
      /\ \A k \in 1 .. Len(t) : (q \o t)[Len(q) + k] = t[k]
  <2>1. Concats(V)
    BY ConcatParts
  <2>2. q \in Seq(V) /\ t \in Seq(V)
    BY <1>1
  <2> QED BY <2>1, <2>2 DEF Concats
<1>3. (q \o t)[Len(q) + 1] = t[1]
  BY <1>1, <1>2
<1> QED BY <1>1, <1>2, <1>3 DEF t

(* What has the parts of it is the sequence with one more element.          *)
LEMMA SnocIs ==
  ASSUME NEW V, NEW q \in Seq(V), NEW x \in V, NEW u \in Seq(V),
         Len(u) = Len(q) + 1, \A k \in 1 .. Len(q) : u[k] = q[k], u[Len(q) + 1] = x
  PROVE  u = q \o <<x>>
<1> DEFINE s == q \o <<x>>
<1>1. /\ s \in Seq(V) /\ Len(s) = Len(q) + 1 /\ Len(q) \in Nat
      /\ \A k \in 1 .. Len(q) : s[k] = q[k]
      /\ s[Len(q) + 1] = x
  BY SnocParts, LenProperties
<1> HIDE DEF s
<1>2. \A k \in 1 .. Len(u) : u[k] = s[k]
  <2> TAKE k \in 1 .. Len(u)
  <2>1. CASE k = Len(q) + 1
    BY <1>1, <2>1
  <2>2. CASE k # Len(q) + 1
    <3>1. k \in 1 .. Len(q)
      BY <1>1, <2>2
    <3> QED BY <1>1, <3>1
  <2> QED BY <2>1, <2>2
<1>3. u = s
  BY <1>1, <1>2, SeqEqual
<1> QED BY <1>3 DEF s

(* FlattenSeq of a sequence with another sequence behind. *)
LEMMA FlattenSnoc ==
  ASSUME NEW S, NEW q \in Seq(Seq(S)), NEW x \in Seq(S)
  PROVE  /\ FlattenSeq(q) \in Seq(S)
         /\ FlattenSeq(q \o <<x>>) = FlattenSeq(q) \o x
<1> DEFINE p == q \o <<x>>
           n == Len(q)
<1>1. /\ n \in Nat /\ p \in Seq(Seq(S)) /\ Len(p) = n + 1 /\ p[n + 1] = x
      /\ \A i \in 1 .. n : p[i] = q[i] /\ q[i] \in Seq(S)
  BY SnocParts, LenProperties, ElementOfSeq
<1>2. FlattenSeq(q) \in Seq(S)
  BY FlattenCons
<1> HIDE DEF p
<1> DEFINE N == {i \in Nat : i \in 1 .. n => Flattening(p)[i] = Flattening(q)[i]}
<1>3. 0 \in N
  OBVIOUS
<1>4. ASSUME NEW i \in Nat, i \in N PROVE i + 1 \in N
  <2> SUFFICES ASSUME i + 1 \in 1 .. n PROVE Flattening(p)[i + 1] = Flattening(q)[i + 1]
    OBVIOUS
  <2>1. CASE i = 0
    <3>1. Len(q) > 0 /\ Len(p) > 0 /\ Len(q) \in Nat /\ Len(p) \in Nat /\ 1 \in 1 .. n
      BY <1>1, <2>1
    <3>2. Flattening(q)[1] = q[1] /\ Flattening(p)[1] = p[1]
      BY <3>1, FlatteningStep
    <3>3. Flattening(p)[1] = Flattening(q)[1]
      BY <1>1, <3>1, <3>2
    <3>4. i + 1 = 1
      BY <2>1
    <3> QED BY <3>3, <3>4
  <2>2. CASE i # 0
    <3> DEFINE j == i + 1
    <3>1. i \in 1 .. Len(q) - 1 /\ i \in 1 .. Len(p) - 1 /\ i \in 1 .. n /\ j \in 1 .. n
      BY <1>1, <2>2
    <3>2. Len(q) \in Nat /\ Len(p) \in Nat
      BY <1>1
    <3>3. /\ Flattening(q)[j] = Flattening(q)[i] \o q[j]
          /\ Flattening(p)[j] = Flattening(p)[i] \o p[j]
      BY <3>1, <3>2, FlatteningStep
    <3>4. Flattening(p)[i] = Flattening(q)[i] /\ p[j] = q[j]
      BY <1>1, <1>4, <3>1
    <3> QED BY <3>3, <3>4
  <2> QED BY <2>1, <2>2
<1>5. n \in 1 .. n => Flattening(p)[n] = Flattening(q)[n]
  <2>1. n \in N
    <3> HIDE DEF N
    <3> QED BY <1>1, <1>3, <1>4, NatSetInduction
  <2> QED BY <2>1
<1>6. FlattenSeq(p) = Flattening(p)[n + 1]
  BY <1>1, FlattenDef
<1>7. CASE n = 0
  <2>1. Len(p) \in Nat /\ Len(p) > 0 /\ n + 1 = 1
    BY <1>1, <1>7
  <2>2. Flattening(p)[1] = p[1]
    BY <2>1, FlatteningStep
  <2>3. FlattenSeq(p) = x
    BY <1>1, <1>6, <2>1, <2>2
  <2>4. FlattenSeq(q) = << >>
    BY <1>7, FlattenEmpty, EmptySeq
  <2>5. << >> \o x = x
    BY ConcatEmptySeq
  <2> QED BY <1>2, <2>3, <2>4, <2>5 DEF p
<1>8. CASE n # 0
  <2>1. n \in 1 .. n /\ n \in 1 .. Len(p) - 1 /\ Len(p) \in Nat
    BY <1>1, <1>8
  <2>2. Flattening(p)[n + 1] = Flattening(p)[n] \o p[n + 1]
    BY <2>1, FlatteningStep
  <2>3. FlattenSeq(q) = Flattening(q)[n]
    BY <1>8, FlattenDef
  <2>4. FlattenSeq(p) = FlattenSeq(q) \o x
    BY <1>1, <1>5, <1>6, <2>1, <2>2, <2>3
  <2> QED BY <1>2, <2>4 DEF p
<1> QED BY <1>7, <1>8
================================================================================
