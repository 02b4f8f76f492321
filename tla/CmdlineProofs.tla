------------------------------ MODULE CmdlineProofs ------------------------------
(* What the command line promises, for all options and arguments.           *)
EXTENDS Cmdline, Induction

(* Min answers the smallest element.                                        *)
LEMMA MinIs ==
  ASSUME NEW S \in SUBSET Nat, S # {}
  PROVE  Min(S) \in S /\ \A n \in S : Min(S) <= n
<1>1. \E m \in S : \A n \in S : m <= n
  BY SmallestElement
<1> QED BY <1>1 DEF Min

LEMMA MinOf ==
  ASSUME NEW S \in SUBSET Nat, NEW m \in S, \A n \in S : m <= n
  PROVE  Min(S) = m
<1>1. Min(S) \in S /\ \A n \in S : Min(S) <= n
  BY MinIs
<1>2. Min(S) <= m /\ m <= Min(S) /\ m \in Nat /\ Min(S) \in Nat
  BY <1>1
<1> QED BY <1>2

(* m is the first index that is in S, and 0 when there is none.             *)
First(m, S) ==
  /\ S = {} => m = 0
  /\ S # {} => m \in S /\ m # 0 /\ \A n \in S : m <= n

(* SelectInSeq answers the first index that passes the test.                *)
LEMMA FirstIs ==
  ASSUME NEW n \in Nat, NEW S \in SUBSET (1 .. n)
  PROVE  First(IF S # {} THEN Min(S) ELSE 0, S)
<1>1. S \in SUBSET Nat
  OBVIOUS
<1>2. S # {} => Min(S) \in S /\ \A k \in S : Min(S) <= k
  BY <1>1, MinIs
<1>3. 0 \notin S
  OBVIOUS
<1> QED BY <1>2, <1>3 DEF First

LEMMA FirstIsUnique ==
  ASSUME NEW n \in Nat, NEW S \in SUBSET (1 .. n), NEW m, First(m, S)
  PROVE  m = IF S # {} THEN Min(S) ELSE 0
<1>1. CASE S = {}
  BY <1>1 DEF First
<1>2. CASE S # {}
  <2>1. S \in SUBSET Nat /\ m \in S /\ \A k \in S : m <= k
    BY <1>2 DEF First
  <2> QED BY <1>2, <2>1, MinOf
<1> QED BY <1>1, <1>2

(* The place of the first "=" of a string. *)
CutOf(s) == SelectInSeq(s, LAMBDA c : c = "=")

LEMMA CutOfIs ==
  ASSUME NEW s \in String
  PROVE  CutOf(s) \in 0 .. Len(s) /\ (CutOf(s) # 0 => s[CutOf(s)] = "=")
<1> DEFINE S == {k \in 1 .. Len(s) : s[k] = "="}
<1>1. Len(s) \in Nat
  BY LenProperties DEF String
<1>2. CutOf(s) = IF S # {} THEN Min(S) ELSE 0
  BY DEF CutOf, SelectInSeq
<1>3. First(CutOf(s), S)
  <2>1. S \in SUBSET (1 .. Len(s))
    OBVIOUS
  <2> HIDE DEF S
  <2> QED BY <1>1, <1>2, <2>1, FirstIs
<1> QED BY <1>1, <1>3 DEF First
-------------------------------------------------------------------------------
(* A part of a string is a string. *)
LEMMA PartOfString ==
  ASSUME NEW s \in String, NEW m \in Nat, NEW n \in Nat, n <= Len(s)
  PROVE  /\ SubSeq(s, m + 1, n) \in String
         /\ m <= n => /\ Len(SubSeq(s, m + 1, n)) = n - m
                      /\ \A k \in 1 .. n - m : SubSeq(s, m + 1, n)[k] = s[m + k]
<1>1. Len(s) \in Nat
  BY LenProperties DEF String
<1>2. CASE m <= n
  BY <1>2, SubSeqParts DEF String
<1>3. CASE ~ m <= n
  <2>1. SubSeq(s, m + 1, n) = << >>
    BY <1>3, SubSeqEmpty
  <2>2. << >> \in Seq(Symbol)
    OBVIOUS
  <2> QED BY <1>3, <2>1, <2>2 DEF String
<1> QED BY <1>2, <1>3

LEMMA RestOfString ==
  ASSUME NEW s \in String, NEW m \in Nat
  PROVE  /\ Rest(s, m + 1) \in String
         /\ m <= Len(s) => /\ Len(Rest(s, m + 1)) = Len(s) - m
                           /\ \A k \in 1 .. Len(s) - m : Rest(s, m + 1)[k] = s[m + k]
<1>1. Len(s) \in Nat /\ Len(s) <= Len(s)
  BY LenProperties DEF String
<1> DEFINE n == Len(s)
<1>2. n \in Nat /\ n <= Len(s)
  BY <1>1
<1> HIDE DEF n
<1>3. /\ SubSeq(s, m + 1, n) \in String
      /\ m <= n => /\ Len(SubSeq(s, m + 1, n)) = n - m
                   /\ \A k \in 1 .. n - m : SubSeq(s, m + 1, n)[k] = s[m + k]
  BY <1>2, PartOfString
<1> QED BY <1>3 DEF n, Rest
-------------------------------------------------------------------------------
(* The recursion of Fields, and its solution. *)
IsFields(f, s, ch, n) ==
  f = [k \in 0 .. n |->
        IF k = 0 THEN << << >> >>
        ELSE IF s[k] = ch THEN Append(f[k - 1], << >>)
        ELSE Append(Front(f[k - 1]), Append(Last(f[k - 1]), s[k]))]

FieldsOf(s, ch) == CHOOSE f : IsFields(f, s, ch, Len(s))

LEMMA FieldsDef ==
  ASSUME NEW s, NEW ch
  PROVE  Fields(s, ch) = FieldsOf(s, ch)[Len(s)]
  BY DEF Fields, FieldsOf, IsFields

LEMMA FieldsExist ==
  ASSUME NEW s, NEW ch, NEW n \in Nat
  PROVE  \E f : IsFields(f, s, ch, n)
<1> DEFINE next(f, k) == IF s[k] = ch THEN Append(f[k - 1], << >>)
                         ELSE Append(Front(f[k - 1]), Append(Last(f[k - 1]), s[k]))
<1> DEFINE S == {m \in Nat : \E f : IsFields(f, s, ch, m)}
<1>1. 0 \in S
  <2> DEFINE f == [k \in 0 .. 0 |-> << << >> >>]
  <2>1. IsFields(f, s, ch, 0)
    BY DEF IsFields
  <2> QED BY <2>1
<1>2. ASSUME NEW m \in Nat, m \in S PROVE m + 1 \in S
  <2>1. PICK f : IsFields(f, s, ch, m)
    BY <1>2
  <2> DEFINE g == [k \in 0 .. m + 1 |-> IF k = m + 1 THEN next(f, m + 1) ELSE f[k]]
  <2>2. ASSUME NEW k \in 0 .. m + 1
        PROVE  g[k] = IF k = 0 THEN << << >> >> ELSE next(g, k)
    <3>1. CASE k = m + 1
      <4>1. k # 0 /\ k - 1 \in 0 .. m + 1 /\ k - 1 # m + 1
        BY <3>1
      <4>2. g[k - 1] = f[k - 1]
        BY <4>1
      <4> QED BY <3>1, <4>1, <4>2
    <3>2. CASE k # m + 1
      <4>1. k \in 0 .. m /\ g[k] = f[k]
        BY <3>2
      <4>2. f[k] = IF k = 0 THEN << << >> >> ELSE next(f, k)
        BY <2>1, <4>1 DEF IsFields
      <4>3. CASE k = 0
        BY <4>1, <4>2, <4>3
      <4>4. CASE k # 0
        <5>1. k - 1 \in 0 .. m + 1 /\ k - 1 # m + 1
          BY <3>2, <4>4
        <5>2. g[k - 1] = f[k - 1]
          BY <5>1
        <5> QED BY <4>1, <4>2, <4>4, <5>2
      <4> QED BY <4>3, <4>4
    <3> QED BY <3>1, <3>2
  <2>3. IsFields(g, s, ch, m + 1)
    <3>1. g = [k \in 0 .. m + 1 |-> g[k]]
      OBVIOUS
    <3> HIDE DEF g
    <3> QED BY <2>2, <3>1 DEF IsFields
  <2> QED BY <2>3
<1> HIDE DEF S
<1>3. n \in S
  BY <1>1, <1>2, NatSetInduction
<1> QED BY <1>3 DEF S

(* There is at least one field, and each field is a string. *)
LEMMA FieldsType ==
  ASSUME NEW s \in String, NEW ch
  PROVE  Fields(s, ch) \in Seq(String) /\ Len(Fields(s, ch)) >= 1
<1> DEFINE n == Len(s)
           f == FieldsOf(s, ch)
           Good(q) == q \in Seq(String) /\ Len(q) >= 1
<1>1. n \in Nat /\ \A k \in 1 .. n : s[k] \in Symbol
  BY LenProperties, ElementOfSeq DEF String
<1>2. IsFields(f, s, ch, n)
  BY <1>1, FieldsExist DEF FieldsOf
<1> HIDE DEF f
<1> DEFINE S == {k \in Nat : k <= n => Good(f[k])}
<1>3. 0 \in S
  <2>1. 0 \in 0 .. n
    BY <1>1
  <2>2. f[0] = << << >> >>
    BY <1>2, <2>1 DEF IsFields
  <2>3. << >> \in String
    BY DEF String
  <2>4. Good(<< << >> >>)
    BY <2>3
  <2> HIDE DEF Good
  <2> QED BY <2>2, <2>4
<1>4. ASSUME NEW k \in Nat, k \in S PROVE k + 1 \in S
  <2> SUFFICES ASSUME k + 1 <= n PROVE Good(f[k + 1])
    OBVIOUS
  <2> DEFINE j == k + 1
  <2>1. j \in 0 .. n /\ j # 0 /\ j - 1 = k /\ j \in 1 .. n
    BY <1>1
  <2>2. Good(f[k])
    BY <1>1, <1>4
  <2> HIDE DEF j
  <2>3. f[j] = IF s[j] = ch THEN Append(f[k], << >>)
               ELSE Append(Front(f[k]), Append(Last(f[k]), s[j]))
    BY <1>2, <2>1 DEF IsFields
  <2>4. Good(Append(f[k], << >>))
    <3>1. << >> \in String
      BY DEF String
    <3> QED BY <2>2, <3>1, AppendProperties
  <2>5. Good(Append(Front(f[k]), Append(Last(f[k]), s[j])))
    <3>1. Last(f[k]) \in String
      BY <2>2, LenProperties, ElementOfSeq DEF Last
    <3>2. Append(Last(f[k]), s[j]) \in String
      BY <1>1, <2>1, <3>1, AppendProperties DEF String
    <3>3. Front(f[k]) \in Seq(String) /\ Len(Front(f[k])) \in Nat
      <4>1. Len(f[k]) \in Nat /\ Len(f[k]) - 1 \in Nat /\ Len(f[k]) - 1 <= Len(f[k])
        BY <2>2, LenProperties
      <4>2. SubSeq(f[k], 0 + 1, Len(f[k]) - 1) \in Seq(String)
        BY <2>2, <4>1, SubSeqParts
      <4> QED BY <4>2, LenProperties DEF Front
    <3> QED BY <3>2, <3>3, AppendProperties
  <2>6. Good(f[j])
    BY <2>3, <2>4, <2>5
  <2> QED BY <2>6 DEF j
<1>5. n \in S
  <2> HIDE DEF S
  <2> QED BY <1>1, <1>3, <1>4, NatSetInduction
<1> QED BY <1>1, <1>5, FieldsDef DEF f

(* Splitting gives at least one string. *)
LEMMA SplitType ==
  ASSUME NEW s \in String, NEW ch
  PROVE  Split(s, ch) \in Seq(String) \ {<< >>}
<1> DEFINE q == Fields(s, ch)
<1>1. q \in Seq(String) /\ Len(q) >= 1 /\ Len(q) \in Nat
  BY FieldsType, LenProperties
<1> HIDE DEF q
<1>2. CASE Len(q) > 1
  <2> DEFINE n == Len(q) - 1
  <2>1. n \in Nat /\ 0 <= n /\ n <= Len(q) /\ n - 0 # 0 /\ 0 + 1 = 1 /\ 0 \in Nat
    BY <1>1, <1>2
  <2>2. Front(q) = SubSeq(q, 0 + 1, n)
    BY <2>1 DEF Front
  <2> HIDE DEF n
  <2>3. /\ SubSeq(q, 0 + 1, n) \in Seq(String)
        /\ Len(SubSeq(q, 0 + 1, n)) = n - 0
    BY <1>1, <2>1, SubSeqParts
  <2>4. Front(q) \in Seq(String) /\ Len(Front(q)) # 0
    BY <2>1, <2>2, <2>3
  <2>5. Front(q) # << >> /\ q # << >>
    BY <1>1, <2>4
  <2>6. Split(s, ch) = q \/ Split(s, ch) = Front(q)
    BY DEF Split, q
  <2> QED BY <1>1, <2>4, <2>5, <2>6
<1>3. CASE ~ Len(q) > 1
  <2>1. Split(s, ch) = q /\ q # << >>
    BY <1>1, <1>3 DEF Split, q
  <2> QED BY <1>1, <2>1
<1> QED BY <1>2, <1>3
-------------------------------------------------------------------------------
Values == Seq(String) \ {<< >>}

(* Two lists of strings, the second of them not empty. *)
LEMMA AddedStrings ==
  ASSUME NEW v \in Seq(String), NEW t \in Values
  PROVE  v \o t \in Values
<1>1. Len(t) # 0 /\ Len(t) \in Nat /\ Len(v) \in Nat /\ t \in Seq(String)
  <2>1. t \in Seq(String) /\ t # << >>
    BY DEF Values
  <2> QED BY <2>1, LenProperties, EmptySeq
<1>2. v \o t \in Seq(String) /\ Len(v \o t) = Len(v) + Len(t)
  BY <1>1, ConcatProperties
<1>3. Len(v \o t) # 0
  BY <1>1, <1>2
<1> QED BY <1>2, <1>3 DEF Values

(* What add_cmdline_arg leaves of an option, and what it stores. *)
LEMMA WithArgFields ==
  ASSUME NEW e \in Option, NEW text \in String
  PROVE  /\ WithArg(e, text) \in Option
         /\ WithArg(e, text).value # NULL
         /\ \A f \in {"short", "long", "name", "cb", "type"} : WithArg(e, text)[f] = e[f]
         /\ "LIST" \notin e.type =>
              ((e.value = NULL \/ Len(e.value) = 1) => WithArg(e, text).value = <<text>>)
         /\ "LIST" \in e.type => WithArg(e, text).value =
              (IF e.value = NULL THEN << >> ELSE e.value) \o Split(text, ":")
<1> DEFINE added == (IF e.value = NULL THEN << >> ELSE e.value) \o Split(text, ":")
           last == IF e.value = NULL THEN <<text>> ELSE ReplaceAt(e.value, 1, text)
           v == IF "LIST" \in e.type THEN added ELSE last
<1>1. WithArg(e, text) = [e EXCEPT !.value = v]
  BY DEF WithArg, Option
<1>2. e.value = NULL \/ e.value \in Values
  BY DEF Option, Values
<1>3. added \in Values
  <2>1. Split(text, ":") \in Values
    BY SplitType DEF Values
  <2>2. (IF e.value = NULL THEN << >> ELSE e.value) \in Seq(String)
    BY <1>2, EmptyParts DEF Values
  <2> QED BY <2>1, <2>2, AddedStrings
<1>4. last \in Values /\ (e.value = NULL \/ Len(e.value) = 1 => last = <<text>>)
  <2>1. <<text>> \in Values
    BY DEF Values
  <2>2. CASE e.value # NULL
    <3> DEFINE w == e.value
    <3>1. w \in Seq(String) /\ Len(w) \in Nat /\ Len(w) # 0
      BY <1>2, <2>2, LenProperties, EmptySeq DEF Values
    <3> HIDE DEF w
    <3>2. /\ [w EXCEPT ![1] = text] \in Seq(String)
          /\ Len([w EXCEPT ![1] = text]) = Len(w)
          /\ [w EXCEPT ![1] = text][1] = text
      <4>1. 1 \in 1 .. Len(w)
        BY <3>1
      <4> QED BY <3>1, <4>1, ExceptSeq
    <3>3. [w EXCEPT ![1] = text] \in Values
      BY <3>1, <3>2 DEF Values
    <3>4. Len(w) = 1 => [w EXCEPT ![1] = text] = <<text>>
      BY <3>2
    <3> QED BY <2>2, <3>3, <3>4 DEF ReplaceAt, w
  <2> QED BY <2>1, <2>2
<1> HIDE DEF added, last
<1>5. v \in Values /\ v # NULL
  BY <1>3, <1>4, SymbolAssumption DEF Values
<1>6. /\ "LIST" \in e.type => v = added
      /\ "LIST" \notin e.type => v = last
  OBVIOUS
<1> HIDE DEF v
<1>7. /\ [e EXCEPT !.value = v] \in Option
      /\ [e EXCEPT !.value = v].value = v
      /\ \A f \in {"short", "long", "name", "cb", "type"} : [e EXCEPT !.value = v][f] = e[f]
  BY <1>5 DEF Option, Values
<1> QED BY <1>1, <1>4, <1>5, <1>6, <1>7 DEF added

LEMMA SeenFields ==
  ASSUME NEW e \in Option
  PROVE  /\ Seen(e) \in Option
         /\ Seen(e).type = e.type \union {"SEEN"}
         /\ \A f \in {"short", "long", "name", "cb", "value"} : Seen(e)[f] = e[f]
  BY DEF Seen, Option, Flag
-------------------------------------------------------------------------------
(* How an element of args stands for the option it was made of. *)
Stands(e, opt) ==
  /\ e.short = opt.short /\ e.long = opt.long /\ e.name = opt.name /\ e.cb = opt.cb
  /\ e.type \ {"SEEN"} = AddCmdline(opt).type
  /\ opt.value # NULL => e.value # NULL
  /\ "LIST" \notin opt.type => e.value = NULL \/ Len(e.value) = 1

(* An element that was made of the environment takes no part in parsing.    *)
FromEnvironment(e) ==
  e.short = NUL /\ e.long = NULL /\ ~ e.cb /\ e.type \subseteq {"SEEN"}

StandFor(a, opts) ==
  /\ a \in Seq(Option)
  /\ Len(opts) <= Len(a)
  /\ \A o \in 1 .. Len(opts) : Stands(a[o], opts[o])
  /\ \A o \in Len(opts) + 1 .. Len(a) : FromEnvironment(a[o])

OptionsOK(opts) ==
  /\ opts \in Seq(Option)
  /\ \A o \in 1 .. Len(opts) :
       /\ "SEEN" \notin opts[o].type
       /\ opts[o].value # NULL => Len(opts[o].value) = 1
       /\ opts[o].cb => opts[o].short # NUL

LEMMA GivenStands ==
  ASSUME NEW e \in Option, NEW text \in String, NEW opt \in Option
  PROVE  /\ Stands(e, opt) => Stands(Seen(WithArg(e, text)), opt)
         /\ FromEnvironment(e) => FromEnvironment(Seen(WithArg(e, text)))
<1> DEFINE w == WithArg(e, text)
           s == Seen(w)
<1>1. w \in Option /\ w.value # NULL
  BY WithArgFields
<1>2. /\ w.short = e.short /\ w.long = e.long /\ w.name = e.name /\ w.cb = e.cb
      /\ w.type = e.type
  BY WithArgFields
<1>3. "LIST" \notin e.type /\ (e.value = NULL \/ Len(e.value) = 1) => Len(w.value) = 1
  <2>1. Len(<<text>>) = 1
    OBVIOUS
  <2> QED BY <2>1, WithArgFields
<1> HIDE DEF w
<1>4. /\ s.short = w.short /\ s.long = w.long /\ s.name = w.name /\ s.cb = w.cb
      /\ s.value = w.value /\ s.type = w.type \union {"SEEN"}
  BY <1>1, SeenFields
<1> HIDE DEF s
<1>5. e.type \ {"SEEN"} = AddCmdline(opt).type /\ "LIST" \notin opt.type => "LIST" \notin e.type
  BY DEF AddCmdline, Option
<1>6. ASSUME Stands(e, opt) PROVE Stands(s, opt)
  <2>1. s.type \ {"SEEN"} = e.type \ {"SEEN"}
    BY <1>2, <1>4
  <2> QED BY <1>1, <1>2, <1>3, <1>4, <1>5, <1>6, <2>1 DEF Stands
<1>7. ASSUME FromEnvironment(e) PROVE FromEnvironment(s)
  BY <1>2, <1>4, <1>7 DEF FromEnvironment
<1> QED BY <1>6, <1>7 DEF s, w

LEMMA SeenStands ==
  ASSUME NEW e \in Option, NEW opt \in Option
  PROVE  /\ Stands(e, opt) => Stands(Seen(e), opt)
         /\ FromEnvironment(e) => FromEnvironment(Seen(e))
<1> DEFINE s == Seen(e)
<1>1. /\ s.short = e.short /\ s.long = e.long /\ s.name = e.name /\ s.cb = e.cb
      /\ s.value = e.value /\ s.type = e.type \union {"SEEN"}
  BY SeenFields
<1> HIDE DEF s
<1>2. s.type \ {"SEEN"} = e.type \ {"SEEN"}
  BY <1>1
<1> QED BY <1>1, <1>2 DEF s, Stands, FromEnvironment

(* One element of args is replaced by one that stands for the same option. *)
LEMMA ReplacedStandFor ==
  ASSUME NEW opts \in Seq(Option), NEW a, StandFor(a, opts), NEW o \in 1 .. Len(a),
         NEW e \in Option,
         o <= Len(opts) => (Stands(a[o], opts[o]) => Stands(e, opts[o])),
         FromEnvironment(a[o]) => FromEnvironment(e)
  PROVE  StandFor([a EXCEPT ![o] = e], opts)
<1> DEFINE b == [a EXCEPT ![o] = e]
<1>1. Len(a) \in Nat /\ Len(opts) \in Nat /\ a \in Seq(Option)
  BY LenProperties DEF StandFor
<1>2. b \in Seq(Option) /\ Len(b) = Len(a) /\ \A p \in 1 .. Len(a) : b[p] = IF p = o THEN e ELSE a[p]
  BY <1>1, ExceptSeq
<1> HIDE DEF b
<1>3. ASSUME NEW p \in 1 .. Len(opts) PROVE Stands(b[p], opts[p])
  <2>1. p \in 1 .. Len(a) /\ Stands(a[p], opts[p])
    BY <1>1 DEF StandFor
  <2> QED BY <1>1, <1>2, <2>1
<1>4. ASSUME NEW p \in Len(opts) + 1 .. Len(b) PROVE FromEnvironment(b[p])
  <2>1. p \in 1 .. Len(a) /\ FromEnvironment(a[p])
    BY <1>1, <1>2 DEF StandFor
  <2> QED BY <1>2, <2>1
<1>5. StandFor(b, opts)
  BY <1>1, <1>2, <1>3, <1>4 DEF StandFor
<1> QED BY <1>5 DEF b

(* An option is given a string, or counts as seen. *)
LEMMA GiveStandFor ==
  ASSUME NEW opts \in Seq(Option), NEW a, StandFor(a, opts), NEW o \in 1 .. Len(a),
         NEW text \in String
  PROVE  /\ a[o] \in Option
         /\ StandFor([a EXCEPT ![o] = Seen(WithArg(a[o], text))], opts)
         /\ StandFor([a EXCEPT ![o] = Seen(a[o])], opts)
<1>1. a[o] \in Option /\ Len(a) \in Nat /\ Len(opts) \in Nat
  BY LenProperties, ElementOfSeq DEF StandFor
<1>2. o <= Len(opts) => opts[o] \in Option
  BY <1>1, ElementOfSeq
<1>3. Seen(WithArg(a[o], text)) \in Option /\ Seen(a[o]) \in Option
  <2>1. WithArg(a[o], text) \in Option
    BY <1>1, WithArgFields
  <2> QED BY <1>1, <2>1, SeenFields
<1>4. FromEnvironment(a[o]) => FromEnvironment(Seen(WithArg(a[o], text))) /\ FromEnvironment(Seen(a[o]))
  <2>1. PICK opt \in Option : opt = a[o]
    BY <1>1
  <2> QED BY <1>1, <2>1, GivenStands, SeenStands
<1>5. o <= Len(opts) =>
        /\ Stands(a[o], opts[o]) => Stands(Seen(WithArg(a[o], text)), opts[o])
        /\ Stands(a[o], opts[o]) => Stands(Seen(a[o]), opts[o])
  BY <1>1, <1>2, GivenStands, SeenStands
<1>6. StandFor([a EXCEPT ![o] = Seen(WithArg(a[o], text))], opts)
  BY <1>3, <1>4, <1>5, ReplacedStandFor
<1>7. StandFor([a EXCEPT ![o] = Seen(a[o])], opts)
  BY <1>3, <1>4, <1>5, ReplacedStandFor
<1> QED BY <1>1, <1>6, <1>7
-------------------------------------------------------------------------------
(* What the lookups answer: the first element that fits. *)
LEMMA GetIs ==
  ASSUME args \in Seq(Option)
  PROVE  /\ \A c : First(GetShortOpt(c), {o \in 1 .. Len(args) : args[o].short = c})
         /\ \A t : First(GetLongOpt(t), {o \in 1 .. Len(args) : args[o].long = t})
         /\ \A t : First(GetOptByName(t), {o \in 1 .. Len(args) : args[o].name = t})
         /\ First(GetAnon, {o \in 1 .. Len(args) : "ANON" \in args[o].type})
<1> DEFINE n == Len(args)
<1>0. n \in Nat
  BY LenProperties
<1>1. ASSUME NEW c PROVE First(GetShortOpt(c), {o \in 1 .. n : args[o].short = c})
  <2> DEFINE S == {o \in 1 .. n : args[o].short = c}
  <2>1. GetShortOpt(c) = IF S # {} THEN Min(S) ELSE 0
    BY DEF GetShortOpt, SelectInSeq
  <2>2. S \in SUBSET (1 .. n)
    OBVIOUS
  <2> HIDE DEF S, n
  <2>3. First(GetShortOpt(c), S)
    BY <1>0, <2>1, <2>2, FirstIs
  <2> QED BY <2>3 DEF S
<1>2. ASSUME NEW t PROVE First(GetLongOpt(t), {o \in 1 .. n : args[o].long = t})
  <2> DEFINE S == {o \in 1 .. n : args[o].long = t}
  <2>1. GetLongOpt(t) = IF S # {} THEN Min(S) ELSE 0
    BY DEF GetLongOpt, SelectInSeq
  <2>2. S \in SUBSET (1 .. n)
    OBVIOUS
  <2> HIDE DEF S, n
  <2>3. First(GetLongOpt(t), S)
    BY <1>0, <2>1, <2>2, FirstIs
  <2> QED BY <2>3 DEF S
<1>3. ASSUME NEW t PROVE First(GetOptByName(t), {o \in 1 .. n : args[o].name = t})
  <2> DEFINE S == {o \in 1 .. n : args[o].name = t}
  <2>1. GetOptByName(t) = IF S # {} THEN Min(S) ELSE 0
    BY DEF GetOptByName, SelectInSeq
  <2>2. S \in SUBSET (1 .. n)
    OBVIOUS
  <2> HIDE DEF S, n
  <2>3. First(GetOptByName(t), S)
    BY <1>0, <2>1, <2>2, FirstIs
  <2> QED BY <2>3 DEF S
<1>4. First(GetAnon, {o \in 1 .. n : "ANON" \in args[o].type})
  <2> DEFINE S == {o \in 1 .. n : "ANON" \in args[o].type}
  <2>1. GetAnon = IF S # {} THEN Min(S) ELSE 0
    BY DEF GetAnon, SelectInSeq
  <2>2. S \in SUBSET (1 .. n)
    OBVIOUS
  <2> HIDE DEF S, n
  <2>3. First(GetAnon, S)
    BY <1>0, <2>1, <2>2, FirstIs
  <2> QED BY <2>3 DEF S
<1> QED BY <1>1, <1>2, <1>3, <1>4 DEF n
-------------------------------------------------------------------------------
EnvOptions == {e \in Option : FromEnvironment(e)}

LEMMA EnvEntryType ==
  ASSUME NEW e \in String
  PROVE  EnvEntry(e) \in Seq(EnvOptions)
<1> DEFINE cut == CutOf(e)
           head == Rest(e, cut + 1)
           name == SubSeq(e, 1, cut - 1)
           value == IF head # << >> /\ head[1] = ":" THEN <<head>> ELSE Split(head, ":")
           entry == [short |-> NUL, long |-> NULL, name |-> name, value |-> value,
                     cb |-> FALSE, type |-> {}]
<1>1. EnvEntry(e) = IF cut = 0 THEN << >> ELSE <<entry>>
  BY DEF EnvEntry, CutOf
<1>2. cut \in 0 .. Len(e) /\ Len(e) \in Nat
  BY CutOfIs, LenProperties DEF String
<1>3. head \in String
  <2>1. cut \in Nat
    BY <1>2
  <2> HIDE DEF cut
  <2> QED BY <2>1, RestOfString
<1>4. value \in Values
  <2>1. Split(head, ":") \in Values /\ <<head>> \in Values
    BY <1>3, SplitType DEF Values
  <2> HIDE DEF head
  <2> QED BY <2>1
<1>5. CASE cut = 0
  BY <1>1, <1>5, EmptyParts
<1>6. CASE cut # 0
  <2>1. cut - 1 \in Nat /\ cut - 1 <= Len(e) /\ 0 \in Nat /\ 0 + 1 = 1
    BY <1>2, <1>6
  <2>2. name \in String
    <3> DEFINE n == cut - 1
    <3> HIDE DEF n
    <3>1. SubSeq(e, 0 + 1, n) \in String
      BY <2>1, PartOfString DEF n
    <3> QED BY <2>1, <3>1 DEF n
  <2> HIDE DEF name, value, cut
  <2>3. entry \in EnvOptions
    BY <2>2, <1>4 DEF EnvOptions, Option, FromEnvironment, Values
  <2> HIDE DEF entry
  <2>4. EnvEntry(e) = <<entry>>
    BY <1>1, <1>6
  <2> QED BY <2>3, <2>4
<1> QED BY <1>5, <1>6

LEMMA InBufferType ==
  ASSUME NEW e \in String, NEW behind \in Behind
  PROVE  InBuffer(e, behind) \in String
<1>1. Len(e) \in Nat /\ EnvMax \in Nat /\ 0 \in Nat /\ 0 + 1 = 1 /\ behind \in Seq(Symbol)
  BY EnvAssumption, LenProperties DEF String
<1>2. CASE Len(e) < EnvMax
  BY <1>2 DEF InBuffer
<1>3. CASE ~ Len(e) < EnvMax
  <2>1. EnvMax <= Len(e)
    BY <1>1, <1>3
  <2>2. SubSeq(e, 0 + 1, EnvMax) \in String
    BY <1>1, <2>1, PartOfString
  <2>3. SubSeq(e, 1, EnvMax) \in Seq(Symbol)
    BY <1>1, <2>2 DEF String
  <2>4. SubSeq(e, 1, EnvMax) \o behind \in Seq(Symbol)
    BY <1>1, <2>3, ConcatProperties
  <2> QED BY <1>3, <2>4 DEF InBuffer, String
<1> QED BY <1>2, <1>3

LEMMA EnvironmentType ==
  ASSUME env \in Seq(String), NEW behind \in [DOMAIN env -> Behind]
  PROVE  Environment(behind) \in Seq(EnvOptions)
<1> DEFINE entry(k) == EnvEntry(InBuffer(env[k], behind[k]))
           q == [k \in DOMAIN env |-> entry(k)]
<1>1. Len(env) \in Nat /\ DOMAIN env = 1 .. Len(env) /\ \A k \in 1 .. Len(env) : env[k] \in String
  BY LenProperties, ElementOfSeq
<1>2. q \in Seq(Seq(EnvOptions)) /\ Len(q) = Len(env)
  <2>1. ASSUME NEW k \in 1 .. Len(env) PROVE entry(k) \in Seq(EnvOptions)
    <3>1. env[k] \in String /\ behind[k] \in Behind
      BY <1>1
    <3>2. InBuffer(env[k], behind[k]) \in String
      BY <3>1, InBufferType
    <3> QED BY <3>2, EnvEntryType
  <2> HIDE DEF entry
  <2>2. q = [k \in 1 .. Len(env) |-> entry(k)]
    BY <1>1
  <2>3. q \in [1 .. Len(env) -> Seq(EnvOptions)]
    BY <2>1, <2>2
  <2> HIDE DEF q
  <2> QED BY <1>1, <2>3, IsASeq, LenProperties
<1>3. Environment(behind) = FlattenSeq(q)
  BY DEF Environment
<1> HIDE DEF q, entry
<1>4. CASE Len(q) = 0
  <2>1. FlattenSeq(q) = q /\ q = << >>
    BY <1>2, <1>4, FlattenDef, EmptySeq
  <2> QED BY <1>3, <2>1, EmptyParts
<1>5. CASE Len(q) # 0
  <2>1. Len(q) \in 1 .. Len(q)
    BY <1>1, <1>2, <1>5
  <2>2. Flattening(q)[Len(q)] \in Seq(EnvOptions)
    BY <1>2, <2>1, FlatteningType
  <2> QED BY <1>3, <1>5, <2>2, FlattenDef
<1> QED BY <1>4, <1>5

(* What init_cmd appends stands for no option. *)
LEMMA EnvironmentStandsFor ==
  ASSUME NEW opts \in Seq(Option), NEW a, StandFor(a, opts), NEW b \in Seq(EnvOptions)
  PROVE  StandFor(a \o b, opts) /\ \A o \in 1 .. Len(opts) : (a \o b)[o] = a[o]
<1> DEFINE c == a \o b
           n == Len(a)
<1>1. Len(opts) \in Nat /\ Len(b) \in Nat /\ a \in Seq(Option) /\ n \in Nat /\ Len(opts) <= n
  BY LenProperties DEF StandFor
<1>2. b \in Seq(Option) /\ \A k \in 1 .. Len(b) : FromEnvironment(b[k])
  <2>1. EnvOptions \subseteq Option
    BY DEF EnvOptions
  <2>2. \A k \in 1 .. Len(b) : b[k] \in EnvOptions
    BY <1>1, ElementOfSeq
  <2> QED BY <2>1, <2>2, SeqMonotonic DEF EnvOptions
<1>3. /\ c \in Seq(Option) /\ Len(c) = n + Len(b)
      /\ \A k \in 1 .. n : c[k] = a[k]
      /\ \A k \in 1 .. Len(b) : c[n + k] = b[k]
  <2>1. Concats(Option)
    BY ConcatParts
  <2>2. a \in Seq(Option) /\ b \in Seq(Option)
    BY <1>1, <1>2
  <2> QED BY <2>1, <2>2 DEF Concats
<1>4. /\ \A k \in 1 .. Len(opts) : Stands(a[k], opts[k])
      /\ \A k \in Len(opts) + 1 .. n : FromEnvironment(a[k])
  BY DEF StandFor
<1> HIDE DEF c, n
<1>5. ASSUME NEW k \in Len(opts) + 1 .. Len(c) PROVE FromEnvironment(c[k])
  <2>1. CASE k \in 1 .. n
    BY <1>1, <1>3, <1>4, <2>1
  <2>2. CASE k \notin 1 .. n
    <3> DEFINE j == k - n
    <3>1. j \in 1 .. Len(b) /\ n + j = k
      BY <1>1, <1>3, <2>2
    <3> HIDE DEF j
    <3>2. c[n + j] = b[j]
      BY <1>3, <3>1
    <3> QED BY <1>2, <3>1, <3>2
  <2> QED BY <2>1, <2>2
<1>6. Len(opts) <= Len(c) /\ \A k \in 1 .. Len(opts) : k \in 1 .. n
  BY <1>1, <1>3
<1>7. StandFor(c, opts)
  BY <1>1, <1>3, <1>4, <1>5, <1>6 DEF StandFor
<1> QED BY <1>3, <1>6, <1>7 DEF c
-------------------------------------------------------------------------------
(* The options, the arguments and the environment of one call. *)
Called ==
  \E call \in Calls : options = call.options /\ cmds = call.cmds /\ env = call.env

(* Inside of parse_short_option the cursor stays at the argument that str   *)
(* was taken from.                                                          *)
InShort ==
  idx # 0 =>
    /\ status = "parsing"
    /\ More /\ IsOption(Arg) /\ ~ IsLong(Arg)
    /\ str = Tail(Arg)

TypeInv ==
  /\ TypeOK
  /\ Called
  /\ StandFor(args, options)
  /\ InShort

LEMMA CalledFacts ==
  ASSUME Called
  PROVE  /\ OptionsOK(options)
         /\ options \in Seq(Option) /\ cmds \in Seq(String) /\ env \in Seq(String)
         /\ Len(options) \in Nat /\ Len(cmds) \in Nat /\ Len(env) \in Nat
         /\ DOMAIN options = 1 .. Len(options)
<1>1. PICK call \in Calls : options = call.options /\ cmds = call.cmds /\ env = call.env
  BY DEF Called
<1>2. OptionsAssumption(call) /\ call.cmds \in Seq(String) /\ call.env \in Seq(String)
  BY CallsAssumption
<1>3. options \in Seq(Option) /\ cmds \in Seq(String) /\ env \in Seq(String)
  BY <1>1, <1>2 DEF OptionsAssumption
<1>4. /\ Len(options) \in Nat /\ Len(cmds) \in Nat /\ Len(env) \in Nat
      /\ DOMAIN options = 1 .. Len(options)
  BY <1>3, LenProperties
<1>5. OptionsOK(options)
  BY <1>1, <1>2, <1>3, <1>4 DEF OptionsAssumption, OptionsOK
<1> QED BY <1>3, <1>4, <1>5

(* consume_cmd stops behind the last argument.                              *)
LEMMA ConsumeIs ==
  ASSUME Len(cmds) \in Nat, cmds_idx \in 1 .. Len(cmds) + 1, NEW n \in {1, 2}, Consume(n)
  PROVE  /\ cmds_idx' \in 1 .. Len(cmds) + 1
         /\ cmds_idx + n <= Len(cmds) + 1 => cmds_idx' = cmds_idx + n
<1> DEFINE S == {cmds_idx + n, Len(cmds) + 1}
<1>1. S \in SUBSET Nat /\ S # {} /\ cmds_idx' = Min(S)
  BY DEF Consume
<1>2. Min(S) \in S /\ \A m \in S : Min(S) <= m
  BY <1>1, MinIs
<1> QED BY <1>1, <1>2

(* The argument at the cursor. *)
LEMMA ArgIs ==
  ASSUME TypeInv, More
  PROVE  /\ cmds_idx \in 1 .. Len(cmds) /\ Arg \in String /\ Len(Arg) \in Nat
         /\ cmds_idx < Len(cmds) => cmds[cmds_idx + 1] \in String
         /\ cmds_idx + 1 <= Len(cmds) + 1
         /\ cmds_idx < Len(cmds) => cmds_idx + 2 <= Len(cmds) + 1
<1>1. cmds \in Seq(String) /\ Len(cmds) \in Nat /\ cmds_idx \in 1 .. Len(cmds)
  BY CalledFacts DEF TypeInv, TypeOK, More
<1>2. Arg \in String
  BY <1>1, ElementOfSeq DEF Arg
<1>3. ASSUME cmds_idx < Len(cmds) PROVE cmds[cmds_idx + 1] \in String
  <2>1. cmds_idx + 1 \in 1 .. Len(cmds)
    BY <1>1, <1>3
  <2> QED BY <1>1, <2>1, ElementOfSeq
<1> QED BY <1>1, <1>2, <1>3, LenProperties DEF String

(* An option is given a string, or counts as seen. *)
LEMMA GiveOK ==
  ASSUME TypeInv, NEW o \in 1 .. Len(args)
  PROVE  /\ \A text \in String : Give(o, text) => StandFor(args', options)
         /\ SetSeen(o) => StandFor(args', options)
<1>1. options \in Seq(Option) /\ StandFor(args, options)
  BY CalledFacts DEF TypeInv
<1>2. ASSUME NEW text \in String, Give(o, text) PROVE StandFor(args', options)
  <2>1. StandFor([args EXCEPT ![o] = Seen(WithArg(args[o], text))], options)
    BY <1>1, GiveStandFor
  <2> QED BY <1>2, <2>1 DEF Give
<1>3. ASSUME SetSeen(o) PROVE StandFor(args', options)
  <2>1. << >> \in String
    BY DEF String
  <2>2. StandFor([args EXCEPT ![o] = Seen(args[o])], options)
    BY <1>1, <2>1, GiveStandFor
  <2> QED BY <1>3, <2>2 DEF SetSeen
<1> QED BY <1>2, <1>3

(* The options that the actions find are elements of args. *)
LEMMA FoundInArgs ==
  ASSUME TypeInv
  PROVE  /\ Len(args) \in Nat /\ args \in Seq(Option)
         /\ GetAnon # 0 => GetAnon \in 1 .. Len(args)
         /\ LongItem # 0 => LongItem \in 1 .. Len(args)
         /\ ShortItem # 0 => ShortItem \in 1 .. Len(args)
<1>1. args \in Seq(Option) /\ Len(args) \in Nat
  BY LenProperties DEF TypeInv, TypeOK
<1>2. /\ First(GetAnon, {o \in 1 .. Len(args) : "ANON" \in args[o].type})
      /\ \A c : First(GetShortOpt(c), {o \in 1 .. Len(args) : args[o].short = c})
      /\ \A t : First(GetLongOpt(t), {o \in 1 .. Len(args) : args[o].long = t})
  BY <1>1, GetIs
<1>3. /\ \A c : GetShortOpt(c) # 0 => GetShortOpt(c) \in 1 .. Len(args)
      /\ \A t : GetLongOpt(t) # 0 => GetLongOpt(t) \in 1 .. Len(args)
      /\ GetAnon # 0 => GetAnon \in 1 .. Len(args)
  BY <1>2 DEF First
<1> QED BY <1>1, <1>3 DEF LongItem, ShortItem

(* The strings that the actions give to options. *)
LEMMA GivenStrings ==
  ASSUME TypeInv
  PROVE  /\ Rest(str, idx + 1) \in String /\ Rest(str, idx + 2) \in String
         /\ More /\ Text \in String => Rest(Text, Cut + 1) \in String
         /\ More => Text \in String /\ Cut \in 0 .. Len(Text) /\ Len(Text) \in Nat
<1>1. str \in String /\ idx \in Nat /\ idx + 1 \in Nat /\ (idx + 1) + 1 = idx + 2
  <2>1. str \in String /\ idx \in 0 .. Len(str) + 1
    BY DEF TypeInv, TypeOK
  <2> QED BY <2>1
<1>2. Rest(str, idx + 1) \in String
  BY <1>1, RestOfString
<1>3. Rest(str, idx + 2) \in String
  <2>1. Rest(str, (idx + 1) + 1) \in String
    BY <1>1, RestOfString
  <2> QED BY <1>1, <2>1
<1>4. ASSUME More PROVE Text \in String /\ Cut \in 0 .. Len(Text) /\ Len(Text) \in Nat
  <2>1. Rest(Arg, 2 + 1) \in String /\ 2 + 1 = 3
    BY <1>4, ArgIs, RestOfString
  <2>2. Text \in String
    BY <2>1 DEF Text
  <2>3. Cut = CutOf(Text)
    BY DEF Cut, CutOf
  <2> QED BY <2>2, <2>3, CutOfIs, LenProperties DEF String
<1>5. ASSUME More, Text \in String PROVE Rest(Text, Cut + 1) \in String
  <2>1. Cut \in Nat
    BY <1>4, <1>5
  <2> QED BY <1>5, <2>1, RestOfString
<1> QED BY <1>2, <1>3, <1>4, <1>5

(* What a step at an argument, or at a letter, has to establish. *)
LEMMA TypeInvKept ==
  ASSUME TypeInv, UNCHANGED <<options, cmds, env>>,
         StandFor(args', options), cmds_idx' \in 1 .. Len(cmds) + 1,
         \/ UNCHANGED <<str, idx>> /\ idx = 0
         \/ EndShort,
         status' \in {"defined", "parsing", "parsed", "failed", "exited", "crashed", "undefined"}
  PROVE  TypeInv'
<1>1. options' \in Seq(Option) /\ cmds' \in Seq(String) /\ env' \in Seq(String)
  BY DEF TypeInv, TypeOK
<1>2. args' \in Seq(Option)
  BY DEF StandFor
<1>3. str' \in String /\ idx' = 0 /\ idx' \in 0 .. Len(str') + 1
  <2>1. str' \in String /\ idx' = 0
    <3>1. << >> \in String
      BY DEF String
    <3> QED BY <3>1 DEF TypeInv, TypeOK, EndShort
  <2>2. Len(str') \in Nat
    BY <2>1, LenProperties DEF String
  <2> QED BY <2>1, <2>2
<1>4. TypeOK'
  BY <1>1, <1>2, <1>3 DEF TypeOK
<1>5. Called'
  BY DEF TypeInv, Called
<1>6. StandFor(args', options')
  OBVIOUS
<1>7. InShort'
  BY <1>3 DEF InShort
<1> QED BY <1>4, <1>5, <1>6, <1>7 DEF TypeInv

LEMMA TypeInvInit == Init => TypeInv
<1> SUFFICES ASSUME Init PROVE TypeInv
  OBVIOUS
<1>1. Called
  BY DEF Init, Called
<1>2. /\ OptionsOK(options) /\ options \in Seq(Option)
      /\ cmds \in Seq(String) /\ env \in Seq(String)
      /\ Len(options) \in Nat /\ Len(cmds) \in Nat /\ DOMAIN options = 1 .. Len(options)
  BY <1>1, CalledFacts
<1>3. /\ args = [o \in 1 .. Len(options) |-> AddCmdline(options[o])]
      /\ cmds_idx = 1 /\ str = << >> /\ idx = 0 /\ status = "defined"
  BY <1>2 DEF Init
<1>4. \A o \in 1 .. Len(options) : options[o] \in Option
  BY <1>2, ElementOfSeq
<1>5. ASSUME NEW e \in Option, "SEEN" \notin e.type, e.value # NULL => Len(e.value) = 1
      PROVE  AddCmdline(e) \in Option /\ Stands(AddCmdline(e), e)
  <2>1. /\ AddCmdline(e).type = IF "LIST" \in e.type THEN e.type \union {"ARGS"} ELSE e.type
        /\ \A f \in {"short", "long", "name", "cb", "value"} : AddCmdline(e)[f] = e[f]
        /\ AddCmdline(e) \in Option
    BY DEF AddCmdline, Option, Flag
  <2>2. AddCmdline(e).type \ {"SEEN"} = AddCmdline(e).type
    BY <1>5, <2>1
  <2> QED BY <1>5, <2>1, <2>2 DEF Stands
<1>6. args \in Seq(Option) /\ Len(args) = Len(options)
  <2>1. args \in [1 .. Len(options) -> Option]
    BY <1>2, <1>3, <1>4, <1>5 DEF OptionsOK
  <2> QED BY <1>2, <2>1, IsASeq, LenProperties
<1>7. StandFor(args, options)
  <2>1. \A o \in 1 .. Len(options) : Stands(args[o], options[o])
    BY <1>2, <1>3, <1>4, <1>5 DEF OptionsOK
  <2>2. Len(options) + 1 .. Len(args) = {}
    BY <1>2, <1>6
  <2> QED BY <1>2, <1>6, <2>1, <2>2 DEF StandFor
<1>8. TypeOK
  <2>1. str \in String /\ Len(str) = 0
    BY <1>3 DEF String
  <2>2. 0 \in 0 .. Len(str) + 1 /\ 1 \in 1 .. Len(cmds) + 1
    BY <1>2, <2>1
  <2> QED BY <1>2, <1>3, <1>6, <2>1, <2>2 DEF TypeOK
<1> QED BY <1>1, <1>3, <1>7, <1>8 DEF TypeInv, InShort

LEMMA TypeInvStep == TypeInv /\ [Next]_vars => TypeInv'
<1> SUFFICES ASSUME TypeInv, [Next]_vars PROVE TypeInv'
  OBVIOUS
<1>0. /\ options \in Seq(Option) /\ StandFor(args, options) /\ Len(cmds) \in Nat
      /\ cmds_idx \in 1 .. Len(cmds) + 1 /\ args \in Seq(Option) /\ Len(args) \in Nat
      /\ status \in {"defined", "parsing", "parsed", "failed", "exited", "crashed", "undefined"}
  BY CalledFacts, FoundInArgs DEF TypeInv, TypeOK
<1>1. CASE StoreEnvironment
  <2>1. status # "parsing"
    BY <1>1 DEF StoreEnvironment
  <2>2. idx = 0
    BY <2>1 DEF TypeInv, InShort
  <2>3. StandFor(args', options)
    <3>1. PICK behind \in [DOMAIN env -> Behind] : args' = args \o Environment(behind)
      BY <1>1 DEF StoreEnvironment
    <3>2. Environment(behind) \in Seq(EnvOptions)
      BY CalledFacts, EnvironmentType DEF TypeInv
    <3>3. options' = options
      BY <1>1 DEF StoreEnvironment
    <3> QED BY <1>0, <3>1, <3>2, <3>3, EnvironmentStandsFor
  <2> QED BY <1>0, <1>1, <2>2, <2>3, TypeInvKept DEF StoreEnvironment
<1>2. CASE ListItem
  <2>1. More /\ GetAnon \in 1 .. Len(args) /\ Arg \in String
    BY <1>2, FoundInArgs, ArgIs DEF ListItem, AtArgument
  <2>2. StandFor(args', options)
    BY <1>2, <2>1, GiveOK DEF ListItem
  <2>3. cmds_idx' \in 1 .. Len(cmds) + 1
    BY <1>0, <1>2, ConsumeIs DEF ListItem
  <2> QED BY <1>0, <1>2, <2>2, <2>3, TypeInvKept DEF ListItem, AtArgument, Parsing
<1>3. CASE ListItemUnknown
  BY <1>0, <1>3, TypeInvKept DEF ListItemUnknown, AtArgument, Parsing
<1>4. CASE LongUnknown
  BY <1>0, <1>4, TypeInvKept DEF LongUnknown, AtLong, AtArgument, Parsing
<1>5. CASE LongCallback
  BY <1>0, <1>5, TypeInvKept DEF LongCallback, AtLong, AtArgument, Parsing
<1>6. CASE LongNextArg
  <2>1. LongItem \in 1 .. Len(args) /\ cmds[cmds_idx + 1] \in String
    BY <1>6, FoundInArgs, ArgIs DEF LongNextArg, LongTakesArg, LongOption, AtLong, AtArgument
  <2>2. StandFor(args', options)
    BY <1>6, <2>1, GiveOK DEF LongNextArg
  <2>3. cmds_idx' \in 1 .. Len(cmds) + 1
    BY <1>0, <1>6, ConsumeIs DEF LongNextArg
  <2> QED BY <1>0, <1>6, <2>2, <2>3, TypeInvKept
          DEF LongNextArg, LongTakesArg, LongOption, AtLong, AtArgument, Parsing
<1>7. CASE LongMissingArg
  <2>1. LongItem \in 1 .. Len(args)
    BY <1>7, FoundInArgs DEF LongMissingArg, LongTakesArg, LongOption
  <2>2. StandFor(args', options)
    BY <1>7, <2>1, GiveOK DEF LongMissingArg
  <2>3. cmds_idx' \in 1 .. Len(cmds) + 1
    BY <1>0, <1>7, ConsumeIs DEF LongMissingArg
  <2> QED BY <1>0, <1>7, <2>2, <2>3, TypeInvKept
          DEF LongMissingArg, LongTakesArg, LongOption, AtLong, AtArgument, Parsing
<1>8. CASE LongValue
  <2>1. LongItem \in 1 .. Len(args) /\ Rest(Text, Cut + 1) \in String
    BY <1>8, FoundInArgs, GivenStrings
       DEF LongValue, LongTakesArg, LongOption, AtLong, AtArgument
  <2>2. StandFor(args', options)
    BY <1>8, <2>1, GiveOK DEF LongValue
  <2>3. cmds_idx' \in 1 .. Len(cmds) + 1
    BY <1>0, <1>8, ConsumeIs DEF LongValue
  <2> QED BY <1>0, <1>8, <2>2, <2>3, TypeInvKept
          DEF LongValue, LongTakesArg, LongOption, AtLong, AtArgument, Parsing
<1>9. CASE LongEmptyValue
  <2>1. LongItem \in 1 .. Len(args)
    BY <1>9, FoundInArgs DEF LongEmptyValue, LongTakesArg, LongOption
  <2>2. StandFor(args', options)
    BY <1>9, <2>1, GiveOK DEF LongEmptyValue
  <2> QED BY <1>0, <1>9, <2>2, TypeInvKept
          DEF LongEmptyValue, LongTakesArg, LongOption, AtLong, AtArgument, Parsing
<1>10. CASE LongSwitch
  <2>1. LongItem \in 1 .. Len(args)
    BY <1>10, FoundInArgs DEF LongSwitch, LongOption
  <2>2. StandFor(args', options)
    BY <1>10, <2>1, GiveOK DEF LongSwitch
  <2>3. cmds_idx' \in 1 .. Len(cmds) + 1
    BY <1>0, <1>10, ConsumeIs DEF LongSwitch
  <2> QED BY <1>0, <1>10, <2>2, <2>3, TypeInvKept
          DEF LongSwitch, LongOption, AtLong, AtArgument, Parsing
<1>11. CASE BeginShort
  <2>1. Arg \in String /\ Arg # << >>
    BY <1>11, ArgIs DEF BeginShort, IsOption
  <2>2. str' \in String /\ Len(str') \in Nat
    BY <1>11, <2>1, HeadTailProperties, LenProperties DEF BeginShort, String
  <2>3. idx' = 1 /\ 1 \in 0 .. Len(str') + 1
    BY <1>11, <2>2 DEF BeginShort
  <2>4. TypeOK'
    BY <1>0, <1>11, <2>2, <2>3 DEF BeginShort, Parsing, TypeInv, TypeOK
  <2>5. Called'
    BY <1>11 DEF BeginShort, Parsing, TypeInv, Called
  <2>6. InShort'
    BY <1>11 DEF BeginShort, Parsing, InShort, More, Arg
  <2> QED BY <1>11, <2>4, <2>5, <2>6 DEF BeginShort, Parsing, TypeInv
<1>12. CASE ShortUnknown
  BY <1>0, <1>12, TypeInvKept DEF ShortUnknown, AtLetter, Parsing
<1>13. CASE ShortCallback
  BY <1>0, <1>13, TypeInvKept DEF ShortCallback, AtLetter, Parsing
<1>14. CASE ShortPastEnd
  <2>1. ShortItem \in 1 .. Len(args)
    BY <1>14, FoundInArgs DEF ShortPastEnd, ShortOption
  <2>2. StandFor(args', options)
    BY <1>14, <2>1, GiveOK DEF ShortPastEnd
  <2> QED BY <1>0, <1>14, <2>2, TypeInvKept DEF ShortPastEnd, ShortOption, AtLetter, Parsing
<1>15. CASE ShortValue
  <2> DEFINE text == IF Char(idx + 1) = "=" /\ Char(idx + 2) # NUL
                     THEN Rest(str, idx + 2) ELSE Rest(str, idx + 1)
  <2>1. ShortItem \in 1 .. Len(args) /\ text \in String
    BY <1>15, FoundInArgs, GivenStrings DEF ShortValue, ShortTakesArg, ShortOption
  <2>2. Give(ShortItem, text)
    BY <1>15 DEF ShortValue
  <2> HIDE DEF text
  <2>3. StandFor(args', options)
    BY <2>1, <2>2, GiveOK
  <2>4. cmds_idx' \in 1 .. Len(cmds) + 1
    BY <1>0, <1>15, ConsumeIs DEF ShortValue
  <2> QED BY <1>0, <1>15, <2>3, <2>4, TypeInvKept
          DEF ShortValue, ShortTakesArg, ShortOption, AtLetter, Parsing
<1>16. CASE ShortNextArg
  <2>1. More
    BY <1>16 DEF ShortNextArg, ShortTakesArg, ShortOption, AtLetter, TypeInv, InShort
  <2>2. ShortItem \in 1 .. Len(args) /\ cmds[cmds_idx + 1] \in String
    BY <1>16, <2>1, FoundInArgs, ArgIs DEF ShortNextArg, ShortTakesArg, ShortOption
  <2>3. StandFor(args', options)
    BY <1>16, <2>2, GiveOK DEF ShortNextArg
  <2>4. cmds_idx' \in 1 .. Len(cmds) + 1
    BY <1>0, <1>16, ConsumeIs DEF ShortNextArg
  <2> QED BY <1>0, <1>16, <2>3, <2>4, TypeInvKept
          DEF ShortNextArg, ShortTakesArg, ShortOption, AtLetter, Parsing
<1>17. CASE ShortMissingArg
  <2>1. ShortItem \in 1 .. Len(args)
    BY <1>17, FoundInArgs DEF ShortMissingArg, ShortTakesArg, ShortOption
  <2>2. StandFor(args', options)
    BY <1>17, <2>1, GiveOK DEF ShortMissingArg
  <2>3. cmds_idx' \in 1 .. Len(cmds) + 1
    BY <1>0, <1>17, ConsumeIs DEF ShortMissingArg
  <2> QED BY <1>0, <1>17, <2>2, <2>3, TypeInvKept
          DEF ShortMissingArg, ShortTakesArg, ShortOption, AtLetter, Parsing
<1>18. CASE ShortSwitch
  <2>1. ShortItem \in 1 .. Len(args)
    BY <1>18, FoundInArgs DEF ShortSwitch, ShortIsSwitch, ShortOption
  <2>2. StandFor(args', options) /\ args' \in Seq(Option)
    BY <1>18, <2>1, GiveOK DEF ShortSwitch, StandFor
  <2>3. str \in String /\ Len(str) \in Nat /\ idx \in 0 .. Len(str) + 1
    BY LenProperties DEF TypeInv, TypeOK, String
  <2>4. idx' = idx + 1 /\ idx + 1 \in 0 .. Len(str) + 1
    BY <1>18, <2>3 DEF ShortSwitch, Char
  <2>5. TypeOK'
    BY <1>0, <1>18, <2>2, <2>4
       DEF ShortSwitch, ShortIsSwitch, ShortOption, AtLetter, Parsing, TypeInv, TypeOK
  <2>6. Called' /\ InShort'
    BY <1>18 DEF ShortSwitch, ShortIsSwitch, ShortOption, AtLetter, Parsing,
                 TypeInv, Called, InShort, More, Arg
  <2> QED BY <1>18, <2>2, <2>5, <2>6
          DEF ShortSwitch, ShortIsSwitch, ShortOption, AtLetter, Parsing, TypeInv
<1>19. CASE ShortLastSwitch
  <2>1. ShortItem \in 1 .. Len(args)
    BY <1>19, FoundInArgs DEF ShortLastSwitch, ShortIsSwitch, ShortOption
  <2>2. StandFor(args', options)
    BY <1>19, <2>1, GiveOK DEF ShortLastSwitch
  <2>3. cmds_idx' \in 1 .. Len(cmds) + 1
    BY <1>0, <1>19, ConsumeIs DEF ShortLastSwitch
  <2> QED BY <1>0, <1>19, <2>2, <2>3, TypeInvKept
          DEF ShortLastSwitch, ShortIsSwitch, ShortOption, AtLetter, Parsing
<1>20. CASE CheckRequired
  BY <1>0, <1>20, TypeInvKept DEF CheckRequired, Parsing
<1>21. CASE UNCHANGED vars
  <2>1. TypeOK'
    BY <1>21 DEF vars, TypeInv, TypeOK
  <2>2. Called' /\ InShort'
    BY <1>21 DEF vars, TypeInv, Called, InShort, More, Arg
  <2> QED BY <1>21, <2>1, <2>2 DEF vars, TypeInv
<1> QED BY <1>1, <1>2, <1>3, <1>4, <1>5, <1>6, <1>7, <1>8, <1>9, <1>10, <1>11, <1>12,
           <1>13, <1>14, <1>15, <1>16, <1>17, <1>18, <1>19, <1>20, <1>21 DEF Next

(* The parser keeps its types: what it splits and cuts are strings, what it  *)
(* finds is an option, and the cursor stays within the arguments             *)
(* (parse_cmdline, add_cmdline_arg, init_cmd).                               *)
THEOREM CmdlineTypeCorrect == Spec => []TypeOK
<1>1. TypeInv => TypeOK
  BY DEF TypeInv
<1> QED BY <1>1, TypeInvInit, TypeInvStep, PTL DEF Spec
-------------------------------------------------------------------------------
(* An option that is given a string whenever it is seen. *)
Stores(opt) ==
  \/ {"ARGS", "LIST"} \intersect opt.type # {}
  \/ "ANON" \in opt.type /\ opt.short = NUL /\ opt.long = NULL

SeenStored(a, opts) ==
  \A o \in 1 .. Len(opts) : "SEEN" \in a[o].type /\ Stores(opts[o]) => a[o].value # NULL

RequiredSeen(a) ==
  \A o \in 1 .. Len(a) : "REQD" \in a[o].type => "SEEN" \in a[o].type

ReadInv ==
  /\ status \in {"defined", "parsing", "parsed"} => SeenStored(args, options)
  /\ status = "parsed" => RequiredSeen(args)

(* The flags of an element of args are those of its option. *)
LEMMA StandsFlags ==
  ASSUME NEW e \in Option, NEW opt \in Option, Stands(e, opt)
  PROVE  /\ "ARGS" \in e.type <=> {"ARGS", "LIST"} \intersect opt.type # {}
         /\ \A f \in Flag \ {"SEEN", "ARGS"} : f \in e.type <=> f \in opt.type
<1>1. AddCmdline(opt).type = IF "LIST" \in opt.type THEN opt.type \union {"ARGS"} ELSE opt.type
  BY DEF AddCmdline, Option
<1>2. e.type \ {"SEEN"} = IF "LIST" \in opt.type THEN opt.type \union {"ARGS"} ELSE opt.type
  BY <1>1 DEF Stands
<1> QED BY <1>2

LEMMA GiveStores ==
  ASSUME NEW opts \in Seq(Option), NEW a, StandFor(a, opts), SeenStored(a, opts),
         NEW o \in 1 .. Len(a)
  PROVE  /\ \A text \in String : SeenStored([a EXCEPT ![o] = Seen(WithArg(a[o], text))], opts)
         /\ (o <= Len(opts) => ~ Stores(opts[o])) => SeenStored([a EXCEPT ![o] = Seen(a[o])], opts)
<1>1. /\ a \in Seq(Option) /\ Len(a) \in Nat /\ Len(opts) \in Nat /\ Len(opts) <= Len(a)
      /\ a[o] \in Option
  BY LenProperties, ElementOfSeq DEF StandFor
<1>2. ASSUME NEW text \in String
      PROVE  SeenStored([a EXCEPT ![o] = Seen(WithArg(a[o], text))], opts)
  <2> DEFINE e == Seen(WithArg(a[o], text))
             b == [a EXCEPT ![o] = e]
  <2>1. e \in Option /\ e.value # NULL
    BY <1>1, WithArgFields, SeenFields
  <2> HIDE DEF e
  <2>2. \A p \in 1 .. Len(a) : b[p] = IF p = o THEN e ELSE a[p]
    BY <1>1, <2>1, ExceptSeq
  <2> HIDE DEF b
  <2>3. SeenStored(b, opts)
    BY <1>1, <2>1, <2>2 DEF SeenStored
  <2> QED BY <2>3 DEF b, e
<1>3. ASSUME o <= Len(opts) => ~ Stores(opts[o])
      PROVE  SeenStored([a EXCEPT ![o] = Seen(a[o])], opts)
  <2> DEFINE e == Seen(a[o])
             b == [a EXCEPT ![o] = e]
  <2>1. e \in Option
    BY <1>1, SeenFields
  <2> HIDE DEF e
  <2>2. \A p \in 1 .. Len(a) : b[p] = IF p = o THEN e ELSE a[p]
    BY <1>1, <2>1, ExceptSeq
  <2> HIDE DEF b
  <2>3. SeenStored(b, opts)
    BY <1>1, <1>3, <2>2 DEF SeenStored
  <2> QED BY <2>3 DEF b, e
<1> QED BY <1>2, <1>3

(* A step that gives a string leaves every option that was seen with one.   *)
LEMMA GiveKeepsStored ==
  ASSUME TypeInv, SeenStored(args, options), NEW o \in 1 .. Len(args),
         NEW text \in String, Give(o, text)
  PROVE  SeenStored(args', options)
<1>1. options \in Seq(Option) /\ StandFor(args, options)
  BY CalledFacts DEF TypeInv
<1>2. SeenStored([args EXCEPT ![o] = Seen(WithArg(args[o], text))], options)
  BY <1>1, GiveStores
<1> QED BY <1>2 DEF Give

(* A switch has a name of its own and takes no argument. *)
LEMMA SwitchKeepsStored ==
  ASSUME TypeInv, SeenStored(args, options), NEW o \in 1 .. Len(args), SetSeen(o),
         "ARGS" \notin args[o].type, args[o].short # NUL \/ args[o].long # NULL
  PROVE  SeenStored(args', options)
<1>1. /\ options \in Seq(Option) /\ StandFor(args, options) /\ args \in Seq(Option)
      /\ Len(options) \in Nat /\ Len(args) \in Nat
  BY CalledFacts, LenProperties DEF TypeInv, StandFor
<1>2. ASSUME o <= Len(options) PROVE ~ Stores(options[o])
  <2>1. o \in 1 .. Len(options) /\ args[o] \in Option /\ options[o] \in Option
    BY <1>1, <1>2, ElementOfSeq
  <2>2. Stands(args[o], options[o])
    BY <1>1, <2>1 DEF StandFor
  <2>3. {"ARGS", "LIST"} \intersect options[o].type = {}
    BY <2>1, <2>2, StandsFlags
  <2> QED BY <2>2, <2>3 DEF Stores, Stands
<1>3. SeenStored([args EXCEPT ![o] = Seen(args[o])], options)
  BY <1>1, <1>2, GiveStores
<1> QED BY <1>3 DEF SetSeen

LEMMA ReadInvInit == Init => ReadInv
<1> SUFFICES ASSUME Init PROVE ReadInv
  OBVIOUS
<1>1. OptionsOK(options) /\ options \in Seq(Option) /\ DOMAIN options = 1 .. Len(options)
  BY CalledFacts DEF Init, Called
<1>2. args = [o \in 1 .. Len(options) |-> AddCmdline(options[o])] /\ status = "defined"
  BY <1>1 DEF Init
<1>3. ASSUME NEW o \in 1 .. Len(options) PROVE "SEEN" \notin args[o].type
  <2>1. options[o] \in Option /\ "SEEN" \notin options[o].type
    BY <1>1, ElementOfSeq DEF OptionsOK
  <2>2. "SEEN" \notin AddCmdline(options[o]).type
    BY <2>1 DEF AddCmdline, Option
  <2> QED BY <1>2, <2>2
<1> QED BY <1>2, <1>3 DEF ReadInv, SeenStored

(* The name that parse_long_option looks up, and the letter. *)
LongName == IF Cut = 0 THEN Text ELSE SubSeq(Text, 1, Cut - 1)

LEMMA NamesFound ==
  ASSUME TypeInv
  PROVE  /\ More => LongName \in String
         /\ LongItem = GetLongOpt(LongName)
         /\ More /\ LongItem # 0 => args[LongItem].long # NULL
         /\ idx \in 1 .. Len(str) => Char(idx) = str[idx] /\ Char(idx) \in Symbol
         /\ idx \in 1 .. Len(str) /\ ShortItem # 0 => args[ShortItem].short # NUL
<1>1. args \in Seq(Option)
  BY FoundInArgs
<1>2. ASSUME More PROVE LongName \in String
  <2>1. Text \in String /\ Cut \in 0 .. Len(Text) /\ Len(Text) \in Nat
    BY <1>2, GivenStrings
  <2>2. CASE Cut # 0
    <3> DEFINE n == Cut - 1
    <3>1. n \in Nat /\ n <= Len(Text) /\ 0 + 1 = 1
      BY <2>1, <2>2
    <3> HIDE DEF n
    <3>2. SubSeq(Text, 0 + 1, n) \in String
      BY <2>1, <3>1, PartOfString
    <3> QED BY <2>2, <3>1, <3>2 DEF n, LongName
  <2> QED BY <2>1, <2>2 DEF LongName
<1>3. LongItem = GetLongOpt(LongName)
  BY DEF LongItem, LongName
<1>4. ASSUME More, LongItem # 0 PROVE args[LongItem].long # NULL
  <2>1. First(LongItem, {o \in 1 .. Len(args) : args[o].long = LongName})
    BY <1>1, <1>3, GetIs
  <2>2. args[LongItem].long = LongName
    BY <1>4, <2>1 DEF First
  <2> QED BY <1>2, <1>4, <2>2, SymbolAssumption
<1>5. ASSUME idx \in 1 .. Len(str) PROVE Char(idx) = str[idx] /\ Char(idx) \in Symbol
  <2>1. str \in Seq(Symbol)
    BY DEF TypeInv, TypeOK, String
  <2>2. Len(str) \in Nat /\ str[idx] \in Symbol
    BY <1>5, <2>1, LenProperties, ElementOfSeq
  <2> QED BY <1>5, <2>2 DEF Char
<1>6. ASSUME idx \in 1 .. Len(str), ShortItem # 0 PROVE args[ShortItem].short # NUL
  <2>1. First(ShortItem, {o \in 1 .. Len(args) : args[o].short = Char(idx)})
    BY <1>1, GetIs DEF ShortItem
  <2>2. args[ShortItem].short = Char(idx)
    BY <1>6, <2>1 DEF First
  <2> QED BY <1>5, <1>6, <2>2, SymbolAssumption
<1> QED BY <1>2, <1>3, <1>4, <1>5, <1>6

LEMMA ReadInvStep == TypeInv /\ ReadInv /\ [Next]_vars => ReadInv'
<1> SUFFICES ASSUME TypeInv, ReadInv, [Next]_vars PROVE ReadInv'
  OBVIOUS
<1>1. CASE StoreEnvironment
  <2>0. PICK behind \in [DOMAIN env -> Behind] : args' = args \o Environment(behind)
    BY <1>1 DEF StoreEnvironment
  <2> DEFINE b == Environment(behind)
  <2>1. options \in Seq(Option) /\ StandFor(args, options) /\ b \in Seq(EnvOptions)
    BY CalledFacts, EnvironmentType DEF TypeInv
  <2>2. args' = args \o b
    BY <2>0
  <2> HIDE DEF b
  <2>3. \A o \in 1 .. Len(options) : args'[o] = args[o]
    BY <2>1, <2>2, EnvironmentStandsFor
  <2>4. SeenStored(args, options) /\ options' = options /\ status' = "parsing"
    BY <1>1 DEF StoreEnvironment, ReadInv
  <2>5. SeenStored(args', options')
    BY <2>3, <2>4 DEF SeenStored
  <2> QED BY <2>4, <2>5 DEF ReadInv
<1>2. CASE ListItem
  <2>1. GetAnon \in 1 .. Len(args) /\ Arg \in String /\ SeenStored(args, options)
    BY <1>2, FoundInArgs, ArgIs DEF ListItem, AtArgument, Parsing, ReadInv
  <2>2. SeenStored(args', options)
    BY <1>2, <2>1, GiveKeepsStored DEF ListItem
  <2> QED BY <1>2, <2>2 DEF ListItem, AtArgument, Parsing, ReadInv
<1>3. CASE LongNextArg
  <2>1. /\ LongItem \in 1 .. Len(args) /\ cmds[cmds_idx + 1] \in String
        /\ SeenStored(args, options)
    BY <1>3, FoundInArgs, ArgIs
       DEF LongNextArg, LongTakesArg, LongOption, AtLong, AtArgument, Parsing, ReadInv
  <2>2. SeenStored(args', options)
    BY <1>3, <2>1, GiveKeepsStored DEF LongNextArg
  <2> QED BY <1>3, <2>2 DEF LongNextArg, LongTakesArg, LongOption, AtLong, AtArgument,
                            Parsing, ReadInv
<1>4. CASE LongValue
  <2>1. /\ LongItem \in 1 .. Len(args) /\ Rest(Text, Cut + 1) \in String
        /\ SeenStored(args, options)
    BY <1>4, FoundInArgs, GivenStrings
       DEF LongValue, LongTakesArg, LongOption, AtLong, AtArgument, Parsing, ReadInv
  <2>2. SeenStored(args', options)
    BY <1>4, <2>1, GiveKeepsStored DEF LongValue
  <2> QED BY <1>4, <2>2 DEF LongValue, LongTakesArg, LongOption, AtLong, AtArgument,
                            Parsing, ReadInv
<1>5. CASE LongSwitch
  <2>1. LongItem \in 1 .. Len(args) /\ args[LongItem].long # NULL /\ SeenStored(args, options)
    BY <1>5, FoundInArgs, NamesFound
       DEF LongSwitch, LongOption, AtLong, AtArgument, Parsing, ReadInv
  <2>2. SeenStored(args', options)
    BY <1>5, <2>1, SwitchKeepsStored DEF LongSwitch
  <2> QED BY <1>5, <2>2 DEF LongSwitch, LongOption, AtLong, AtArgument, Parsing, ReadInv
<1>6. CASE ShortValue
  <2> DEFINE text == IF Char(idx + 1) = "=" /\ Char(idx + 2) # NUL
                     THEN Rest(str, idx + 2) ELSE Rest(str, idx + 1)
  <2>1. ShortItem \in 1 .. Len(args) /\ text \in String /\ SeenStored(args, options)
    BY <1>6, FoundInArgs, GivenStrings
       DEF ShortValue, ShortTakesArg, ShortOption, AtLetter, Parsing, ReadInv
  <2>2. Give(ShortItem, text)
    BY <1>6 DEF ShortValue
  <2> HIDE DEF text
  <2>3. SeenStored(args', options)
    BY <2>1, <2>2, GiveKeepsStored
  <2> QED BY <1>6, <2>3 DEF ShortValue, ShortTakesArg, ShortOption, AtLetter, Parsing, ReadInv
<1>7. CASE ShortNextArg
  <2>1. More
    BY <1>7 DEF ShortNextArg, ShortTakesArg, ShortOption, AtLetter, TypeInv, InShort
  <2>2. /\ ShortItem \in 1 .. Len(args) /\ cmds[cmds_idx + 1] \in String
        /\ SeenStored(args, options)
    BY <1>7, <2>1, FoundInArgs, ArgIs
       DEF ShortNextArg, ShortTakesArg, ShortOption, AtLetter, Parsing, ReadInv
  <2>3. SeenStored(args', options)
    BY <1>7, <2>2, GiveKeepsStored DEF ShortNextArg
  <2> QED BY <1>7, <2>3 DEF ShortNextArg, ShortTakesArg, ShortOption, AtLetter, Parsing, ReadInv
<1>8. CASE ShortSwitch \/ ShortLastSwitch
  <2>1. ShortIsSwitch /\ SetSeen(ShortItem) /\ status' = status
    BY <1>8 DEF ShortSwitch, ShortLastSwitch
  <2>2. idx \in 1 .. Len(str)
    <3>1. idx \in 0 .. Len(str) + 1 /\ str \in String
      BY DEF TypeInv, TypeOK
    <3> QED BY <2>1, <3>1, LenProperties DEF String, ShortIsSwitch, ShortOption, AtLetter
  <2>3. ShortItem \in 1 .. Len(args) /\ args[ShortItem].short # NUL /\ SeenStored(args, options)
    BY <2>1, <2>2, FoundInArgs, NamesFound
       DEF ShortIsSwitch, ShortOption, AtLetter, Parsing, ReadInv
  <2>4. SeenStored(args', options)
    BY <2>1, <2>3, SwitchKeepsStored DEF ShortIsSwitch
  <2> QED BY <2>1, <2>4 DEF ShortIsSwitch, ShortOption, AtLetter, Parsing, ReadInv
<1>9. CASE BeginShort
  BY <1>9 DEF BeginShort, Parsing, ReadInv
<1>10. CASE CheckRequired
  <2>1. args' = args /\ options' = options /\ status = "parsing"
    BY <1>10 DEF CheckRequired, Parsing
  <2>2. status' = "parsed" => RequiredSeen(args)
    <3>1. DOMAIN args = 1 .. Len(args)
      BY FoundInArgs, LenProperties
    <3> QED BY <1>10, <3>1 DEF CheckRequired, RequiredSeen
  <2> QED BY <2>1, <2>2 DEF ReadInv
<1>11. CASE \/ ListItemUnknown \/ LongUnknown \/ LongCallback \/ LongMissingArg
            \/ LongEmptyValue \/ ShortUnknown \/ ShortCallback \/ ShortPastEnd
            \/ ShortMissingArg
  <2>1. status' \in {"failed", "exited", "crashed", "undefined"}
    BY <1>11 DEF ListItemUnknown, LongUnknown, LongCallback, LongMissingArg,
         LongEmptyValue, ShortUnknown, ShortCallback, ShortPastEnd, ShortMissingArg
  <2> QED BY <2>1 DEF ReadInv
<1>12. CASE UNCHANGED vars
  BY <1>12 DEF vars, ReadInv
<1> QED BY <1>1, <1>2, <1>3, <1>4, <1>5, <1>6, <1>7, <1>8, <1>9, <1>10, <1>11, <1>12 DEF Next

(* An option of the program comes before the environment.                   *)
LEMMA OptionsRead ==
  ASSUME TypeInv, ReadInv, status = "parsed", NEW name \in ReadNames
  PROVE  GetCmdOpt(name) # NULL /\ GetOptByName(name) \in DOMAIN options
<1>1. PICK call \in Calls : options = call.options
  BY DEF TypeInv, Called
<1>2. PICK o \in DOMAIN options :
        /\ options[o].name = name
        /\ \A p \in 1 .. o - 1 : options[p].name # name
        /\ \/ "SWITCH" \in options[o].type
           \/ options[o].value # NULL
           \/ "REQD" \in options[o].type /\ Stores(options[o])
  <2>1. ReadAssumption(call)
    BY CallsAssumption
  <2>2. \E o \in DOMAIN options :
          /\ options[o].name = name
          /\ \A p \in 1 .. o - 1 : options[p].name # name
          /\ \/ "SWITCH" \in options[o].type
             \/ options[o].value # NULL
             \/ /\ "REQD" \in options[o].type
                /\ \/ {"ARGS", "LIST"} \intersect options[o].type # {}
                   \/ "ANON" \in options[o].type /\ options[o].short = NUL
                        /\ options[o].long = NULL
    BY <1>1, <2>1 DEF ReadAssumption
  <2> QED BY <2>2 DEF Stores
<1>3. /\ options \in Seq(Option) /\ Len(options) \in Nat /\ DOMAIN options = 1 .. Len(options)
      /\ StandFor(args, options) /\ args \in Seq(Option) /\ Len(args) \in Nat
      /\ Len(options) <= Len(args)
  BY CalledFacts, FoundInArgs DEF TypeInv, StandFor
<1>4. /\ o \in 1 .. Len(options) /\ o \in 1 .. Len(args) /\ Stands(args[o], options[o])
      /\ args[o] \in Option /\ options[o] \in Option
  BY <1>2, <1>3, ElementOfSeq DEF StandFor
<1>5. GetOptByName(name) = o
  <2> DEFINE S == {p \in 1 .. Len(args) : args[p].name = name}
  <2>1. o \in S
    BY <1>2, <1>4 DEF Stands
  <2>2. ASSUME NEW p \in S PROVE o <= p
    <3> SUFFICES ASSUME p < o PROVE FALSE
      BY <1>3, <1>4
    <3>1. p \in 1 .. o - 1 /\ p \in 1 .. Len(options)
      BY <1>3, <1>4
    <3>2. args[p].name = options[p].name
      BY <1>3, <3>1 DEF StandFor, Stands
    <3> QED BY <1>2, <3>1, <3>2
  <2>3. S \in SUBSET (1 .. Len(args))
    OBVIOUS
  <2>4. First(GetOptByName(name), S)
    BY <1>3, GetIs
  <2> HIDE DEF S
  <2>5. GetOptByName(name) \in S /\ GetOptByName(name) <= o /\ o <= GetOptByName(name)
    BY <2>1, <2>2, <2>4 DEF First
  <2>6. GetOptByName(name) \in Nat /\ o \in Nat
    <3>1. GetOptByName(name) \in 1 .. Len(args)
      BY <2>3, <2>5
    <3> QED BY <1>3, <1>4, <3>1
  <2> QED BY <2>5, <2>6
<1>6. GetCmdOpt(name) =
        IF "SWITCH" \in args[o].type
        THEN IF "SEEN" \in args[o].type THEN <<"1">> ELSE <<"0">>
        ELSE IF args[o].value = NULL THEN NULL ELSE args[o].value[1]
  BY <1>4, <1>5 DEF GetCmdOpt
<1>7. \A f \in Flag \ {"SEEN", "ARGS"} : f \in args[o].type <=> f \in options[o].type
  BY <1>4, StandsFlags
<1>8. CASE "SWITCH" \in options[o].type
  <2>1. "SWITCH" \in args[o].type
    BY <1>7, <1>8 DEF Flag
  <2>2. <<"1">> \in String /\ <<"0">> \in String
    BY SymbolAssumption DEF String
  <2>3. <<"1">> # NULL /\ <<"0">> # NULL
    BY <2>2, SymbolAssumption
  <2> QED BY <1>2, <1>5, <1>6, <2>1, <2>3
<1>9. CASE "SWITCH" \notin options[o].type
  <2>1. "SWITCH" \notin args[o].type
    BY <1>7, <1>9 DEF Flag
  <2>2. args[o].value # NULL
    <3>1. CASE options[o].value # NULL
      BY <1>4, <3>1 DEF Stands
    <3>2. CASE "REQD" \in options[o].type /\ Stores(options[o])
      <4>1. "REQD" \in args[o].type
        BY <1>7, <3>2 DEF Flag
      <4>2. "SEEN" \in args[o].type
        BY <1>4, <4>1 DEF ReadInv, RequiredSeen
      <4> QED BY <1>4, <3>2, <4>2 DEF ReadInv, SeenStored
    <3> QED BY <1>2, <1>9, <3>1, <3>2
  <2>3. args[o].value \in Values
    BY <1>4, <2>2 DEF Option, Values
  <2>4. args[o].value[1] \in String
    <3> DEFINE v == args[o].value
    <3> HIDE DEF v
    <3>1. v \in Seq(String) /\ v # << >>
      BY <2>3 DEF v, Values
    <3>2. 1 \in 1 .. Len(v)
      BY <3>1, LenProperties, EmptySeq
    <3>3. v[1] \in String
      BY <3>1, <3>2, ElementOfSeq
    <3> QED BY <3>3 DEF v
  <2>5. args[o].value[1] # NULL
    BY <2>4, SymbolAssumption
  <2> QED BY <1>2, <1>5, <1>6, <2>1, <2>2, <2>5
<1> QED BY <1>8, <1>9

(* What the program reads without asking is there when parsing has ended,   *)
(* and it is the option's and not the environment's: parse_list_item,       *)
(* parse_long_option and parse_short_option store a string whenever they    *)
(* mark an option as seen that takes one (get_cmd_opt).                     *)
THEOREM StringsFound == Spec => []ReadersFindStrings
<1>1. TypeInv /\ ReadInv => ReadersFindStrings
  BY OptionsRead DEF ReadersFindStrings
<1> QED BY <1>1, TypeInvInit, TypeInvStep, ReadInvInit, ReadInvStep, PTL DEF Spec
-------------------------------------------------------------------------------
(* The settings of a command line. *)
Setting == [kind : {"set", "switch", "failed", "exited"}, opt : Nat, text : String]

LEMMA SettingKinds ==
  /\ \A o \in Nat, t \in String : Set(o, t) \in Setting
  /\ \A o \in Nat : Switch(o) \in Setting
  /\ Fail \in Setting /\ Exit \in Setting
<1>1. << >> \in String
  BY DEF String
<1> QED BY <1>1 DEF Setting, Set, Switch, Fail, Exit

(* The options that the grammar finds are options of the program. *)
LEMMA FirstOptionIs ==
  ASSUME NEW opts \in Seq(Option)
  PROVE  /\ \A c : WithLetter(opts, c) # {} =>
              Lettered(opts, c) \in WithLetter(opts, c) /\ Lettered(opts, c) \in 1 .. Len(opts)
         /\ \A t : WithName(opts, t) # {} =>
              Min(WithName(opts, t)) \in WithName(opts, t) /\ Min(WithName(opts, t)) \in 1 .. Len(opts)
<1>1. DOMAIN opts = 1 .. Len(opts) /\ Len(opts) \in Nat
  BY LenProperties
<1>2. ASSUME NEW c, WithLetter(opts, c) # {}
      PROVE  Lettered(opts, c) \in WithLetter(opts, c) /\ Lettered(opts, c) \in 1 .. Len(opts)
  <2> DEFINE S == WithLetter(opts, c)
  <2>1. S \subseteq 1 .. Len(opts)
    BY <1>1 DEF WithLetter
  <2> HIDE DEF S
  <2>2. S \in SUBSET Nat /\ S # {}
    BY <1>1, <1>2, <2>1 DEF S
  <2>3. Min(S) \in S
    BY <2>2, MinIs
  <2> QED BY <2>1, <2>3 DEF S, Lettered
<1>3. ASSUME NEW t, WithName(opts, t) # {}
      PROVE  Min(WithName(opts, t)) \in WithName(opts, t) /\ Min(WithName(opts, t)) \in 1 .. Len(opts)
  <2> DEFINE S == WithName(opts, t)
  <2>1. S \subseteq 1 .. Len(opts)
    BY <1>1 DEF WithName
  <2> HIDE DEF S
  <2>2. S \in SUBSET Nat /\ S # {}
    BY <1>1, <1>3, <2>1 DEF S
  <2>3. Min(S) \in S
    BY <2>2, MinIs
  <2> QED BY <2>1, <2>3 DEF S
<1> QED BY <1>2, <1>3

(* The part of g from m on to n, and its first element. *)
Run(g, m, n) == [i \in 1 .. n - m |-> g[m + i - 1]]

RunIn(V, g, m, n) == \A i \in m .. n - 1 : g[i] \in V

LEMMA RunCons ==
  ASSUME NEW V, NEW m \in Nat, NEW n \in Nat, m < n, NEW g, RunIn(V, g, m, n)
  PROVE  /\ Run(g, m + 1, n) \in Seq(V)
         /\ Run(g, m, n) = <<g[m]>> \o Run(g, m + 1, n)
<1> DEFINE r == n - m
           t == Run(g, m + 1, n)
           s == Run(g, m, n)
           h == <<g[m]>>
           c == h \o t
<1>0. \A i \in m .. n - 1 : g[i] \in V
  BY DEF RunIn
<1>1. r \in Nat /\ r - 1 \in Nat /\ r # 0 /\ n - (m + 1) = r - 1
  OBVIOUS
<1>2. t \in Seq(V) /\ Len(t) = r - 1 /\ \A i \in 1 .. r - 1 : t[i] = g[m + i]
  <2>1. t = [i \in 1 .. r - 1 |-> g[(m + 1) + i - 1]]
    BY <1>1 DEF Run
  <2>2. \A i \in 1 .. r - 1 : (m + 1) + i - 1 = m + i /\ m + i \in m .. n - 1
    OBVIOUS
  <2>3. t \in [1 .. r - 1 -> V] /\ \A i \in 1 .. r - 1 : t[i] = g[m + i]
    BY <1>0, <2>1, <2>2
  <2> HIDE DEF t, r
  <2> QED BY <1>1, <2>3, IsASeq, LenProperties
<1>3. s \in Seq(V) /\ Len(s) = r /\ \A i \in 1 .. r : s[i] = g[m + i - 1]
  <2>1. s = [i \in 1 .. r |-> g[m + i - 1]]
    BY DEF Run
  <2>2. \A i \in 1 .. r : m + i - 1 \in m .. n - 1
    OBVIOUS
  <2>3. s \in [1 .. r -> V] /\ \A i \in 1 .. r : s[i] = g[m + i - 1]
    BY <1>0, <2>1, <2>2
  <2> HIDE DEF s, r
  <2> QED BY <1>1, <2>3, IsASeq, LenProperties
<1>4. h \in Seq(V) /\ Len(h) = 1 /\ h[1] = g[m]
  <2>1. m \in m .. n - 1
    OBVIOUS
  <2> QED BY <1>0, <2>1
<1> HIDE DEF h, t, s
<1>5. /\ c \in Seq(V) /\ Len(c) = 1 + (r - 1)
      /\ c[1] = g[m]
      /\ \A k \in 1 .. r - 1 : c[1 + k] = t[k]
  <2>1. Concats(V)
    BY ConcatParts
  <2>2. h \in Seq(V) /\ t \in Seq(V)
    BY <1>2, <1>4
  <2>3. /\ h \o t \in Seq(V) /\ Len(h \o t) = Len(h) + Len(t)
        /\ \A k \in 1 .. Len(h) : (h \o t)[k] = h[k]
        /\ \A k \in 1 .. Len(t) : (h \o t)[Len(h) + k] = t[k]
    BY <2>1, <2>2 DEF Concats
  <2> QED BY <1>2, <1>4, <2>3
<1> HIDE DEF c
<1>6. \A i \in 1 .. r : c[i] = s[i]
  <2> TAKE i \in 1 .. r
  <2>1. CASE i = 1
    <3>1. m + i - 1 = m
      BY <2>1
    <3>2. s[i] = g[m + i - 1]
      BY <1>3
    <3> QED BY <1>5, <2>1, <3>1, <3>2
  <2>2. CASE i # 1
    <3> DEFINE k == i - 1
    <3>1. k \in 1 .. r - 1 /\ 1 + k = i /\ m + i - 1 = m + k
      BY <1>1, <2>2
    <3> HIDE DEF k
    <3>2. c[1 + k] = t[k] /\ t[k] = g[m + k] /\ s[i] = g[m + i - 1]
      BY <1>2, <1>3, <1>5, <3>1
    <3> QED BY <3>1, <3>2
  <2> QED BY <2>1, <2>2
<1>7. c = s
  <2>1. Len(c) = r
    BY <1>1, <1>5
  <2> QED BY <1>3, <1>5, <1>6, <2>1, SeqEqual
<1> QED BY <1>2, <1>7 DEF c, h, t, s
-------------------------------------------------------------------------------
(* The letter at which a run of plain switches stops, and what it gives.    *)
StopAt(opts, a, from) ==
  Min({j \in from .. Len(a) : ~ IsPlain(opts, a[j])} \union {Len(a) + 1})

Ending(opts, line, k, stop) ==
  IF stop > Len(line[k]) THEN << >> ELSE <<LastLetter(opts, line, k, stop)>>

Switches(opts, a) == [j \in 1 .. Len(a) |-> Switch(Lettered(opts, a[j]))]

LEMMA StopIs ==
  ASSUME NEW opts, NEW a \in String, NEW from \in Nat \ {0}, from <= Len(a) + 1
  PROVE  /\ StopAt(opts, a, from) \in from .. Len(a) + 1
         /\ \A j \in from .. StopAt(opts, a, from) - 1 : IsPlain(opts, a[j])
         /\ StopAt(opts, a, from) <= Len(a) => ~ IsPlain(opts, a[StopAt(opts, a, from)])
         /\ from <= Len(a) /\ IsPlain(opts, a[from]) =>
              StopAt(opts, a, from) = StopAt(opts, a, from + 1)
         /\ from <= Len(a) /\ ~ IsPlain(opts, a[from]) => StopAt(opts, a, from) = from
<1> DEFINE N == Len(a)
           S == {j \in from .. N : ~ IsPlain(opts, a[j])} \union {N + 1}
           m == StopAt(opts, a, from)
<1>1. N \in Nat /\ from <= N + 1 /\ m = Min(S)
  BY LenProperties DEF String, StopAt
<1> HIDE DEF N, m
<1>2. S \in SUBSET Nat /\ S # {}
  BY <1>1
<1>3. m \in S /\ \A j \in S : m <= j
  <2> HIDE DEF S
  <2> QED BY <1>1, <1>2, MinIs
<1>4. m \in from .. N + 1 /\ (m <= N => ~ IsPlain(opts, a[m]))
  BY <1>1, <1>3
<1>5. ASSUME NEW j \in from .. m - 1, ~ IsPlain(opts, a[j]) PROVE FALSE
  <2>1. j \in from .. N /\ ~ m <= j
    BY <1>1, <1>4
  <2> QED BY <1>3, <1>5, <2>1
<1>6. ASSUME from <= N, IsPlain(opts, a[from]) PROVE m = StopAt(opts, a, from + 1)
  <2> DEFINE R == {j \in from + 1 .. N : ~ IsPlain(opts, a[j])} \union {N + 1}
  <2>1. ASSUME NEW j \in from .. N, ~ IsPlain(opts, a[j]) PROVE j \in from + 1 .. N
    <3>1. j # from
      BY <1>6, <2>1
    <3> QED BY <3>1
  <2>2. S = R
    BY <1>1, <2>1
  <2>3. StopAt(opts, a, from + 1) = Min(R)
    BY DEF StopAt, N
  <2> QED BY <1>1, <2>2, <2>3
<1>7. ASSUME from <= N, ~ IsPlain(opts, a[from]) PROVE m = from
  <2>1. from \in S
    BY <1>1, <1>7
  <2>2. m <= from
    BY <1>3, <2>1
  <2> QED BY <1>1, <1>4, <2>2
<1> QED BY <1>4, <1>5, <1>6, <1>7 DEF N, m

LEMMA LettersDef ==
  ASSUME NEW opts, NEW line, NEW k, line[k] \in String, NEW from \in Nat \ {0},
         from <= Len(line[k]) + 1
  PROVE  LET stop == StopAt(opts, line[k], from)
         IN  Letters(opts, line, k, from) =
               Run(Switches(opts, line[k]), from, stop) \o Ending(opts, line, k, stop)
<1> DEFINE a == line[k]
           stop == StopAt(opts, a, from)
           g == Switches(opts, a)
           run == [n \in 1 .. stop - from |-> Switch(Lettered(opts, a[from + n - 1]))]
<1>1. stop \in from .. Len(a) + 1 /\ Len(a) \in Nat
  BY StopIs, LenProperties DEF String
<1>2. Letters(opts, line, k, from) = run \o Ending(opts, line, k, stop)
  BY Zenon DEF Letters, StopAt, Ending
<1>3. run = Run(g, from, stop)
  <2> HIDE DEF stop, a
  <2>1. \A n \in 1 .. stop - from : from + n - 1 \in 1 .. Len(a)
    BY <1>1
  <2>2. \A n \in 1 .. stop - from :
          g[from + n - 1] = Switch(Lettered(opts, a[from + n - 1]))
    BY <2>1 DEF Switches
  <2> QED BY <2>2 DEF Run
<1> QED BY <1>2, <1>3

(* What the options that take an argument of their own give. *)
LEMMA FollowingType ==
  ASSUME NEW line \in Seq(String), NEW k \in 1 .. Len(line), NEW o \in Nat
  PROVE  Following(line, k, o) \in Setting
<1>1. CASE k < Len(line)
  <2> DEFINE j == k + 1
  <2>1. j \in 1 .. Len(line)
    BY <1>1, LenProperties
  <2> HIDE DEF j
  <2>2. line[j] \in String
    BY <2>1, ElementOfSeq
  <2>3. Following(line, k, o) = Set(o, line[j])
    BY <1>1 DEF Following, j
  <2> QED BY <2>2, <2>3, SettingKinds
<1>2. CASE ~ k < Len(line)
  BY <1>2, SettingKinds DEF Following
<1> QED BY <1>1, <1>2

LEMMA LastLetterType ==
  ASSUME NEW opts \in Seq(Option), NEW line \in Seq(String), NEW k \in 1 .. Len(line),
         NEW j \in 1 .. Len(line[k])
  PROVE  LastLetter(opts, line, k, j) \in Setting
<1> DEFINE a == line[k]
           o == Lettered(opts, a[j])
           text == Rest(a, j + 1)
<1>1. a \in String /\ Len(a) \in Nat
  BY ElementOfSeq, LenProperties DEF String
<1>2. j \in Nat
  BY <1>1
<1>3. text \in String
  BY <1>1, <1>2, RestOfString
<1>4. WithLetter(opts, a[j]) # {} => o \in Nat
  BY FirstOptionIs, LenProperties
<1> HIDE DEF text, o, a
<1>5. text # << >> => Tail(text) \in String
  BY <1>3, HeadTailProperties DEF String
<1>6. WithLetter(opts, a[j]) # {} => Following(line, k, o) \in Setting
  BY <1>4, FollowingType
<1>7. LastLetter(opts, line, k, j) =
        IF WithLetter(opts, a[j]) = {} THEN Fail
        ELSE IF opts[o].cb THEN Exit
        ELSE IF text = << >> THEN Following(line, k, o)
        ELSE Set(o, IF Len(text) > 1 /\ text[1] = "=" THEN Tail(text) ELSE text)
  BY Zenon DEF LastLetter, a, o, text
<1> QED BY <1>3, <1>4, <1>5, <1>6, <1>7, SettingKinds

(* One letter of a short argument. *)
LEMMA LettersStep ==
  ASSUME NEW opts \in Seq(Option), NEW line \in Seq(String), NEW k \in 1 .. Len(line),
         NEW from \in Nat \ {0}, from <= Len(line[k]) + 1
  PROVE  /\ Letters(opts, line, k, from) \in Seq(Setting)
         /\ from = Len(line[k]) + 1 => Letters(opts, line, k, from) = << >>
         /\ from <= Len(line[k]) /\ ~ IsPlain(opts, line[k][from]) =>
              Letters(opts, line, k, from) = <<LastLetter(opts, line, k, from)>>
         /\ from <= Len(line[k]) /\ IsPlain(opts, line[k][from]) =>
              Letters(opts, line, k, from) =
                <<Switch(Lettered(opts, line[k][from]))>> \o Letters(opts, line, k, from + 1)
<1> DEFINE a == line[k]
           N == Len(a)
           stop == StopAt(opts, a, from)
           g == Switches(opts, a)
           end == Ending(opts, line, k, stop)
<1>1. a \in String /\ N \in Nat
  BY ElementOfSeq, LenProperties DEF String
<1>2. /\ stop \in from .. N + 1 /\ \A j \in from .. stop - 1 : IsPlain(opts, a[j])
      /\ from <= N /\ IsPlain(opts, a[from]) => stop = StopAt(opts, a, from + 1)
      /\ from <= N /\ ~ IsPlain(opts, a[from]) => stop = from
  BY <1>1, StopIs
<1>3. Letters(opts, line, k, from) = Run(g, from, stop) \o end
  BY <1>1, LettersDef
<1>4. end \in Seq(Setting)
  <2>1. stop <= N => stop \in 1 .. N
    BY <1>2
  <2> HIDE DEF stop
  <2>2. stop <= N => LastLetter(opts, line, k, stop) \in Setting
    BY <2>1, LastLetterType
  <2> QED BY <1>1, <1>2, <2>2 DEF Ending
<1>5. \A j \in from .. stop - 1 : g[j] \in Setting
  <2> TAKE j \in from .. stop - 1
  <2>1. j \in 1 .. N /\ WithLetter(opts, a[j]) # {}
    BY <1>1, <1>2 DEF IsPlain
  <2>2. Lettered(opts, a[j]) \in Nat
    BY <2>1, FirstOptionIs, LenProperties
  <2> QED BY <2>1, <2>2, SettingKinds DEF Switches
<1> HIDE DEF stop, a, g, end, N
<1>6. CASE stop = from
  <2>1. Run(g, from, stop) = << >>
    <3>1. 1 .. stop - from = {}
      BY <1>2, <1>6
    <3> QED BY <3>1 DEF Run
  <2>2. Letters(opts, line, k, from) = end
    BY <1>3, <1>4, <2>1, ConcatEmptySeq
  <2>3. from = N + 1 => end = << >>
    BY <1>1, <1>6 DEF end, Ending, N, a
  <2>4. from <= N => ~ IsPlain(opts, a[from])
    <3> SUFFICES ASSUME from <= N, IsPlain(opts, a[from]) PROVE FALSE
      OBVIOUS
    <3> DEFINE next == from + 1
    <3>1. next \in Nat \ {0} /\ next <= N + 1 /\ next > from
      BY <1>1
    <3> HIDE DEF next
    <3>2. StopAt(opts, a, next) \in next .. N + 1
      BY <1>1, <3>1, StopIs DEF N
    <3>3. stop = StopAt(opts, a, next)
      BY <1>2 DEF next
    <3> QED BY <1>1, <1>6, <3>1, <3>2, <3>3
  <2>5. from <= N => end = <<LastLetter(opts, line, k, from)>>
    BY <1>1, <1>6 DEF end, Ending, N, a
  <2> QED BY <1>1, <1>4, <2>2, <2>3, <2>4, <2>5 DEF N, a
<1>7. CASE stop # from
  <2>1. from < stop /\ from <= N /\ stop \in Nat
    BY <1>1, <1>2, <1>7
  <2>2. IsPlain(opts, a[from])
    BY <1>2, <2>1
  <2>3. /\ Run(g, from + 1, stop) \in Seq(Setting)
        /\ Run(g, from, stop) = <<g[from]>> \o Run(g, from + 1, stop)
    <3>1. from \in Nat /\ RunIn(Setting, g, from, stop)
      BY <1>5 DEF RunIn
    <3> QED BY <2>1, <3>1, RunCons
  <2>4. g[from] = Switch(Lettered(opts, a[from])) /\ g[from] \in Setting
    <3>1. from \in 1 .. N /\ from \in from .. stop - 1
      BY <1>1, <2>1
    <3> QED BY <1>5, <3>1 DEF g, Switches, N
  <2>5. Letters(opts, line, k, from + 1) = Run(g, from + 1, stop) \o end
    <3> DEFINE next == from + 1
    <3>1. next \in Nat \ {0} /\ next <= Len(line[k]) + 1
      BY <1>1, <2>1 DEF N, a
    <3>2. stop = StopAt(opts, line[k], next)
      BY <1>2, <2>1, <2>2 DEF a
    <3> HIDE DEF next
    <3>3. Letters(opts, line, k, next) =
            Run(Switches(opts, line[k]), next, StopAt(opts, line[k], next))
              \o Ending(opts, line, k, StopAt(opts, line[k], next))
      BY <1>1, <3>1, LettersDef DEF a
    <3>4. Letters(opts, line, k, next) = Run(g, next, stop) \o end
      BY <3>2, <3>3 DEF end, g, a
    <3> QED BY <3>4 DEF next
  <2>6. /\ <<g[from]>> \o (Run(g, from + 1, stop) \o end)
             = (<<g[from]>> \o Run(g, from + 1, stop)) \o end
        /\ (<<g[from]>> \o Run(g, from + 1, stop)) \o end \in Seq(Setting)
    <3> DEFINE h == <<g[from]>>
               t == Run(g, from + 1, stop)
    <3>1. h \in Seq(Setting) /\ t \in Seq(Setting) /\ end \in Seq(Setting)
      BY <1>4, <2>3, <2>4
    <3> HIDE DEF h, t
    <3>2. h \o t \in Seq(Setting)
      BY <3>1, ConcatProperties
    <3>3. h \o (t \o end) = (h \o t) \o end
      <4>1. Associates(Setting)
        BY Associated
      <4> QED BY <3>1, <4>1 DEF Associates
    <3>4. (h \o t) \o end \in Seq(Setting)
      BY <3>1, <3>2, ConcatProperties
    <3> QED BY <3>3, <3>4 DEF h, t
  <2>7. from # N + 1
    BY <1>1, <2>1
  <2> QED BY <1>3, <2>2, <2>3, <2>4, <2>5, <2>6, <2>7 DEF N, a
<1> QED BY <1>6, <1>7
-------------------------------------------------------------------------------
(* The name in a long argument, its dashes taken off. *)
NameIn(a) == IF CutOf(a) = 0 THEN a ELSE SubSeq(a, 1, CutOf(a) - 1)

LEMMA NameInType ==
  ASSUME NEW a \in String
  PROVE  NameIn(a) \in String
<1>1. CutOf(a) \in 0 .. Len(a) /\ Len(a) \in Nat
  BY CutOfIs, LenProperties DEF String
<1>2. CASE CutOf(a) # 0
  <2> DEFINE n == CutOf(a) - 1
  <2>1. n \in Nat /\ n <= Len(a) /\ 0 + 1 = 1 /\ 0 \in Nat
    BY <1>1, <1>2
  <2> HIDE DEF n
  <2>2. SubSeq(a, 0 + 1, n) \in String
    BY <2>1, PartOfString
  <2> QED BY <1>2, <2>1, <2>2 DEF NameIn, n
<1> QED BY <1>2 DEF NameIn

(* The grammar of a long argument, in terms of the option it names. *)
LongGives(opts, line, k, a, o) ==
  IF WithName(opts, NameIn(a)) = {} THEN Fail
  ELSE IF CutOf(a) # 0 /\ ~ TakesArgument(opts, o) THEN Fail
  ELSE IF opts[o].cb THEN Exit
  ELSE IF ~ TakesArgument(opts, o) THEN Switch(o)
  ELSE IF CutOf(a) = 0 THEN Following(line, k, o)
  ELSE IF CutOf(a) = Len(a) THEN Fail
  ELSE Set(o, Rest(a, CutOf(a) + 1))

LEMMA LongSettingIs ==
  ASSUME NEW opts, NEW line, NEW k, NEW a, a = Rest(line[k], 3)
  PROVE  LongSetting(opts, line, k) = LongGives(opts, line, k, a, Min(WithName(opts, NameIn(a))))
<1> DEFINE found == WithName(opts, NameIn(a))
<1>1. found = WithName(opts, IF CutOf(a) = 0 THEN a ELSE SubSeq(a, 1, CutOf(a) - 1))
  BY DEF NameIn
<1> QED BY <1>1 DEF LongSetting, CutOf, LongGives

LEMMA LongSettingType ==
  ASSUME NEW opts \in Seq(Option), NEW line \in Seq(String), NEW k \in 1 .. Len(line)
  PROVE  LongSetting(opts, line, k) \in Setting
<1> DEFINE a == Rest(line[k], 3)
           found == WithName(opts, NameIn(a))
<1>1. a \in String
  <2>1. line[k] \in String /\ 2 \in Nat /\ 2 + 1 = 3
    BY ElementOfSeq
  <2>2. Rest(line[k], 2 + 1) \in String
    BY <2>1, RestOfString
  <2> QED BY <2>1, <2>2
<1>2. found # {} => Min(found) \in Nat
  BY FirstOptionIs, LenProperties
<1>3. Rest(a, CutOf(a) + 1) \in String
  <2> HIDE DEF a
  <2>1. CutOf(a) \in Nat
    BY <1>1, CutOfIs, LenProperties DEF String
  <2> QED BY <1>1, <2>1, RestOfString
<1>4. LongSetting(opts, line, k) =
        IF found = {} THEN Fail
        ELSE IF CutOf(a) # 0 /\ ~ TakesArgument(opts, Min(found)) THEN Fail
        ELSE IF opts[Min(found)].cb THEN Exit
        ELSE IF ~ TakesArgument(opts, Min(found)) THEN Switch(Min(found))
        ELSE IF CutOf(a) = 0 THEN Following(line, k, Min(found))
        ELSE IF CutOf(a) = Len(a) THEN Fail
        ELSE Set(Min(found), Rest(a, CutOf(a) + 1))
  BY LongSettingIs DEF LongGives
<1> HIDE DEF a, found
<1>5. found # {} => Following(line, k, Min(found)) \in Setting
  BY <1>2, FollowingType
<1> QED BY <1>2, <1>3, <1>4, <1>5, SettingKinds

LEMMA SettingsAtType ==
  ASSUME NEW opts \in Seq(Option), NEW line \in Seq(String), NEW k \in 1 .. Len(line)
  PROVE  SettingsAt(opts, line, k) \in Seq(Setting)
<1>1. line[k] \in String /\ Len(line[k]) \in Nat
  BY ElementOfSeq, LenProperties DEF String
<1>2. <<LongSetting(opts, line, k)>> \in Seq(Setting)
  BY LongSettingType
<1>3. IsOption(line[k]) => ShortSettings(opts, line, k) \in Seq(Setting)
  <2>1. <<Fail>> \in Seq(Setting)
    BY SettingKinds
  <2>2. IsOption(line[k]) => 2 \in Nat \ {0} /\ 2 <= Len(line[k]) + 1
    <3>1. IsOption(line[k]) => Len(line[k]) # 0
      BY <1>1, EmptySeq DEF IsOption, String
    <3> QED BY <1>1, <3>1
  <2>3. IsOption(line[k]) => Letters(opts, line, k, 2) \in Seq(Setting)
    BY <2>2, LettersStep
  <2> QED BY <2>1, <2>3 DEF ShortSettings
<1>4. <<ItemSetting(opts, line[k])>> \in Seq(Setting)
  <2> DEFINE anon == {o \in DOMAIN opts : "ANON" \in opts[o].type}
  <2>1. anon # {} => Min(anon) \in Nat
    <3>1. anon \in SUBSET Nat
      BY LenProperties
    <3> HIDE DEF anon
    <3> QED BY <3>1, MinIs
  <2>2. ItemSetting(opts, line[k]) = IF anon = {} THEN Fail ELSE Set(Min(anon), line[k])
    BY DEF ItemSetting
  <2> HIDE DEF anon
  <2>3. ItemSetting(opts, line[k]) \in Setting
    BY <1>1, <2>1, <2>2, SettingKinds
  <2> QED BY <2>3
<1> QED BY <1>2, <1>3, <1>4 DEF SettingsAt
-------------------------------------------------------------------------------
(* The settings from an argument on: the recursion of Settings, and its     *)
(* solution.                                                                *)
NextArg(opts, line, k) == IF TakesFollowing(opts, line, k) THEN k + 2 ELSE k + 1

IsFrom(f, opts, line, n) ==
  f = [k \in {i \in Nat : n <= i} |->
        IF k > Len(line) THEN << >>
        ELSE SettingsAt(opts, line, k) \o f[NextArg(opts, line, k)]]

FromOf(opts, line) == CHOOSE f : IsFrom(f, opts, line, 0)
From(opts, line, k) == FromOf(opts, line)[k]

LEMMA SettingsDef ==
  ASSUME NEW opts, NEW line
  PROVE  Settings(opts, line) = From(opts, line, 1)
<1>1. {i \in Nat : 0 <= i} = Nat
  OBVIOUS
<1> QED BY <1>1 DEF Settings, From, FromOf, IsFrom, NextArg

LEMMA FromExists ==
  ASSUME NEW opts, NEW line, Len(line) \in Nat
  PROVE  \E f : IsFrom(f, opts, line, 0)
<1> DEFINE N == Len(line)
           S == {m \in Nat : m <= N + 1 => \E f : IsFrom(f, opts, line, N + 1 - m)}
<1>1. 0 \in S
  <2> DEFINE D == {i \in Nat : N + 1 <= i}
             f == [k \in D |-> << >>]
  <2>1. f = [k \in D |-> IF k > N THEN << >>
                         ELSE SettingsAt(opts, line, k) \o f[NextArg(opts, line, k)]]
    <3>1. \A k \in D : k > N
      OBVIOUS
    <3> HIDE DEF D
    <3> QED BY <3>1
  <2> HIDE DEF f
  <2>2. IsFrom(f, opts, line, N + 1)
    BY <2>1 DEF IsFrom
  <2>3. N + 1 - 0 = N + 1
    OBVIOUS
  <2> QED BY <2>2, <2>3
<1>2. ASSUME NEW m \in Nat, m \in S PROVE m + 1 \in S
  <2> SUFFICES ASSUME m + 1 <= N + 1 PROVE \E f : IsFrom(f, opts, line, N + 1 - (m + 1))
    OBVIOUS
  <2> DEFINE n == N - m
             D == {i \in Nat : n + 1 <= i}
             E == {i \in Nat : n <= i}
  <2>1. n \in Nat /\ n <= N /\ N + 1 - m = n + 1 /\ N + 1 - (m + 1) = n
    OBVIOUS
  <2>2. PICK f : IsFrom(f, opts, line, n + 1)
    <3>1. \E f : IsFrom(f, opts, line, N + 1 - m)
      BY <1>2
    <3> QED BY <2>1, <3>1
  <2> DEFINE value(h, k) == IF k > N THEN << >>
                            ELSE SettingsAt(opts, line, k) \o h[NextArg(opts, line, k)]
             g == [k \in E |-> IF k = n THEN value(f, n) ELSE f[k]]
  <2>3. ASSUME NEW k \in E PROVE g[k] = value(g, k)
    <3> DEFINE next == NextArg(opts, line, k)
    <3>1. next \in D /\ next \in E /\ next # n
      <4>1. k \in Nat /\ n <= k
        OBVIOUS
      <4> HIDE DEF n
      <4> QED BY <2>1, <4>1 DEF NextArg
    <3>2. g[next] = f[next]
      BY <3>1
    <3>3. value(g, k) = value(f, k)
      <4> HIDE DEF g, n
      <4> QED BY <3>2
    <3>4. CASE k = n
      BY <3>3, <3>4
    <3>5. CASE k # n
      <4>1. k \in D
        BY <2>1, <3>5
      <4>2. f[k] = value(f, k)
        BY <2>2, <4>1 DEF IsFrom
      <4> QED BY <3>3, <3>5, <4>2
    <3> QED BY <3>4, <3>5
  <2>4. IsFrom(g, opts, line, n)
    <3>1. g = [k \in E |-> g[k]]
      OBVIOUS
    <3> HIDE DEF g, n
    <3>2. g = [k \in E |-> value(g, k)]
      BY <2>3, <3>1
    <3> QED BY <3>2 DEF IsFrom
  <2> HIDE DEF g, n
  <2> QED BY <2>1, <2>4
<1>3. N + 1 \in S
  <2>1. N + 1 \in Nat
    OBVIOUS
  <2> HIDE DEF S, N
  <2> QED BY <1>1, <1>2, <2>1, NatSetInduction
<1>4. N + 1 - (N + 1) = 0 /\ N + 1 <= N + 1
  OBVIOUS
<1> HIDE DEF N
<1> QED BY <1>3, <1>4

LEMMA FromIs ==
  ASSUME NEW opts, NEW line, Len(line) \in Nat, NEW k \in Nat
  PROVE  From(opts, line, k) =
           IF k > Len(line) THEN << >>
           ELSE SettingsAt(opts, line, k) \o From(opts, line, NextArg(opts, line, k))
<1> DEFINE f == FromOf(opts, line)
<1>1. IsFrom(f, opts, line, 0)
  BY FromExists DEF FromOf
<1> HIDE DEF f
<1>2. k \in {i \in Nat : 0 <= i}
  OBVIOUS
<1>3. f[k] = IF k > Len(line) THEN << >>
             ELSE SettingsAt(opts, line, k) \o f[NextArg(opts, line, k)]
  BY <1>1, <1>2 DEF IsFrom
<1> QED BY <1>3 DEF From, f

LEMMA FromType ==
  ASSUME NEW opts \in Seq(Option), NEW line \in Seq(String), NEW k \in Nat \ {0}
  PROVE  From(opts, line, k) \in Seq(Setting)
<1> DEFINE N == Len(line)
           Good(m) == From(opts, line, m) \in Seq(Setting)
           S == {m \in Nat : \A i \in Nat \ {0} : i + m > N => Good(i)}
<1>1. N \in Nat
  BY LenProperties
<1>2. 0 \in S
  <2> SUFFICES ASSUME NEW i \in Nat \ {0}, i > N PROVE Good(i)
    BY <1>1
  <2>1. From(opts, line, i) = << >>
    BY <1>1, FromIs
  <2> QED BY <2>1
<1>3. ASSUME NEW m \in Nat, m \in S PROVE m + 1 \in S
  <2> SUFFICES ASSUME NEW i \in Nat \ {0}, i + (m + 1) > N PROVE Good(i)
    BY <1>1
  <2>1. CASE i > N
    <3>1. From(opts, line, i) = << >>
      BY <1>1, <2>1, FromIs
    <3> QED BY <3>1
  <2>2. CASE ~ i > N
    <3> DEFINE next == NextArg(opts, line, i)
    <3>1. next \in Nat \ {0} /\ next + m > N /\ i \in 1 .. N
      BY <1>1, <2>2 DEF NextArg
    <3>2. Good(next)
      <4> HIDE DEF next, Good
      <4> QED BY <1>3, <3>1
    <3>3. SettingsAt(opts, line, i) \in Seq(Setting)
      BY <3>1, SettingsAtType
    <3>4. From(opts, line, i) = SettingsAt(opts, line, i) \o From(opts, line, next)
      BY <1>1, <2>2, FromIs
    <3> HIDE DEF next
    <3> QED BY <3>2, <3>3, <3>4, ConcatProperties
  <2> QED BY <2>1, <2>2
<1>4. N \in S
  <2> HIDE DEF S, N
  <2> QED BY <1>1, <1>2, <1>3, NatSetInduction
<1>5. k + N > N
  BY <1>1
<1> HIDE DEF Good, N
<1> QED BY <1>4, <1>5 DEF Good
-------------------------------------------------------------------------------
(* The elements of d, each of them mapped by h. *)
Mapped(h, d) == [n \in DOMAIN d |-> h[d[n]]]

AddLast(q, x) == q \o <<x>>
IsMap(h, V, W) == h \in [V -> W]

LEMMA MappedSnoc ==
  ASSUME NEW V, NEW W, NEW h, IsMap(h, V, W), NEW d \in Seq(V), NEW x \in V
  PROVE  /\ Mapped(h, d) \in Seq(W) /\ Len(Mapped(h, d)) = Len(d)
         /\ Mapped(h, AddLast(d, x)) = AddLast(Mapped(h, d), h[x])
<1> DEFINE c == d \o <<x>>
           s == Mapped(h, d)
           t == Mapped(h, c)
<1>1. /\ c \in Seq(V) /\ Len(c) = Len(d) + 1 /\ Len(d) \in Nat
      /\ \A k \in 1 .. Len(d) : c[k] = d[k]
      /\ c[Len(d) + 1] = x
  BY SnocParts, LenProperties
<1> HIDE DEF c
<1>2. /\ s \in Seq(W) /\ Len(s) = Len(d)
      /\ \A k \in 1 .. Len(d) : s[k] = h[d[k]]
  <2>1. s = [k \in 1 .. Len(d) |-> h[d[k]]]
    BY LenProperties DEF Mapped
  <2>2. \A k \in 1 .. Len(d) : d[k] \in V
    BY ElementOfSeq
  <2>3. s \in [1 .. Len(d) -> W] /\ \A k \in 1 .. Len(d) : s[k] = h[d[k]]
    BY <2>1, <2>2 DEF IsMap
  <2> HIDE DEF s
  <2> QED BY <1>1, <2>3, IsASeq, LenProperties
<1>3. /\ t \in Seq(W) /\ Len(t) = Len(c)
      /\ \A k \in 1 .. Len(c) : t[k] = h[c[k]]
  <2>1. t = [k \in 1 .. Len(c) |-> h[c[k]]]
    BY <1>1, LenProperties DEF Mapped
  <2>2. \A k \in 1 .. Len(c) : c[k] \in V
    BY <1>1, ElementOfSeq
  <2>3. t \in [1 .. Len(c) -> W] /\ \A k \in 1 .. Len(c) : t[k] = h[c[k]]
    BY <2>1, <2>2 DEF IsMap
  <2> HIDE DEF t
  <2>4. Len(c) \in Nat
    BY <1>1
  <2> QED BY <2>3, <2>4, IsASeq, LenProperties
<1> HIDE DEF s, t
<1>4. \A k \in 1 .. Len(s) : t[k] = s[k]
  BY <1>1, <1>2, <1>3
<1>5. t[Len(s) + 1] = h[x]
  <2> DEFINE m == Len(d) + 1
  <2>1. m \in 1 .. Len(c)
    BY <1>1
  <2> HIDE DEF m
  <2>2. t[m] = h[c[m]]
    BY <1>3, <2>1
  <2> QED BY <1>1, <1>2, <2>2 DEF m
<1>6. h[x] \in W /\ Len(t) = Len(s) + 1
  BY <1>1, <1>2, <1>3 DEF IsMap
<1>7. t = s \o <<h[x]>>
  BY <1>2, <1>3, <1>4, <1>5, <1>6, SnocIs
<1> QED BY <1>2, <1>7 DEF s, t, c, AddLast

(* What a setting, and what settings give to the option o. *)
TextFor(x, o) == IF x.kind = "set" /\ x.opt = o THEN <<x.text>> ELSE << >>

Mine(d, o) ==
  FlattenSeq([n \in DOMAIN d |->
                IF d[n].kind = "set" /\ d[n].opt = o THEN <<d[n].text>> ELSE << >>])

LEMMA MineSnoc ==
  ASSUME NEW d \in Seq(Setting), NEW x \in Setting, NEW o
  PROVE  /\ Mine(d, o) \in Seq(String)
         /\ Mine(d \o <<x>>, o) = Mine(d, o) \o TextFor(x, o)
<1> DEFINE h == [y \in Setting |-> TextFor(y, o)]
           c == d \o <<x>>
<1>1. IsMap(h, Setting, Seq(String)) /\ h[x] = TextFor(x, o)
  <2>1. \A y \in Setting : TextFor(y, o) \in Seq(String)
    BY DEF TextFor, Setting
  <2> QED BY <2>1 DEF IsMap
<1>2. ASSUME NEW e \in Seq(Setting) PROVE Mine(e, o) = FlattenSeq(Mapped(h, e))
  <2>1. \A n \in DOMAIN e : h[e[n]] = TextFor(e[n], o)
    <3>1. \A n \in DOMAIN e : e[n] \in Setting
      BY ElementOfSeq, LenProperties
    <3> QED BY <3>1
  <2> QED BY <2>1 DEF Mine, Mapped, TextFor
<1>3. c \in Seq(Setting)
  BY SnocParts
<1> HIDE DEF h
<1>4. /\ Mapped(h, d) \in Seq(Seq(String))
      /\ Mapped(h, c) = Mapped(h, d) \o <<h[x]>>
  <2>1. /\ Mapped(h, d) \in Seq(Seq(String))
        /\ Mapped(h, AddLast(d, x)) = AddLast(Mapped(h, d), h[x])
    BY <1>1, MappedSnoc
  <2> QED BY <2>1 DEF AddLast
<1>5. h[x] \in Seq(String)
  BY <1>1 DEF IsMap
<1>6. /\ FlattenSeq(Mapped(h, d)) \in Seq(String)
      /\ FlattenSeq(Mapped(h, d) \o <<h[x]>>) = FlattenSeq(Mapped(h, d)) \o h[x]
  BY <1>4, <1>5, FlattenSnoc
<1> QED BY <1>1, <1>2, <1>3, <1>4, <1>6

(* The fields of the strings. *)
Parts(m) == FlattenSeq([n \in DOMAIN m |-> Split(m[n], ":")])

LEMMA PartsSnoc ==
  ASSUME NEW m \in Seq(String), NEW t \in String
  PROVE  /\ Parts(m) \in Seq(String)
         /\ Parts(m \o <<t>>) = Parts(m) \o Split(t, ":")
<1> DEFINE h == [y \in String |-> Split(y, ":")]
           c == m \o <<t>>
<1>1. IsMap(h, String, Seq(String)) /\ h[t] = Split(t, ":")
  BY SplitType DEF IsMap
<1>2. ASSUME NEW e \in Seq(String) PROVE Parts(e) = FlattenSeq(Mapped(h, e))
  <2>1. \A n \in DOMAIN e : h[e[n]] = Split(e[n], ":")
    <3>1. \A n \in DOMAIN e : e[n] \in String
      BY ElementOfSeq, LenProperties
    <3> QED BY <3>1
  <2> QED BY <2>1 DEF Parts, Mapped
<1>3. c \in Seq(String)
  BY SnocParts
<1> HIDE DEF h
<1>4. /\ Mapped(h, m) \in Seq(Seq(String))
      /\ Mapped(h, c) = Mapped(h, m) \o <<h[t]>>
  <2>1. /\ Mapped(h, m) \in Seq(Seq(String))
        /\ Mapped(h, AddLast(m, t)) = AddLast(Mapped(h, m), h[t])
    BY <1>1, MappedSnoc
  <2> QED BY <2>1 DEF AddLast
<1>5. h[t] \in Seq(String)
  BY <1>1 DEF IsMap
<1>6. /\ FlattenSeq(Mapped(h, m)) \in Seq(String)
      /\ FlattenSeq(Mapped(h, m) \o <<h[t]>>) = FlattenSeq(Mapped(h, m)) \o h[t]
  BY <1>4, <1>5, FlattenSnoc
<1> QED BY <1>1, <1>2, <1>3, <1>4, <1>6

LEMMA StringsIs ==
  ASSUME NEW opts, NEW d, NEW o
  PROVE  Strings(opts, d, o) =
           IF Mine(d, o) = << >> THEN opts[o].value
           ELSE IF "LIST" \in opts[o].type
           THEN (IF opts[o].value = NULL THEN << >> ELSE opts[o].value) \o Parts(Mine(d, o))
           ELSE <<Last(Mine(d, o))>>
  BY Zenon DEF Strings, Mine, Parts

(* What one more setting does to the strings of an option. *)
LEMMA StringsSnoc ==
  ASSUME NEW opts \in Seq(Option), NEW d \in Seq(Setting), NEW x \in Setting,
         NEW o \in 1 .. Len(opts)
  PROVE  LET was == Strings(opts, d, o)
             is == Strings(opts, d \o <<x>>, o)
         IN  /\ x.kind # "set" \/ x.opt # o => is = was
             /\ x.kind = "set" /\ x.opt = o =>
                  is = IF "LIST" \in opts[o].type
                       THEN (IF was = NULL THEN << >> ELSE was) \o Split(x.text, ":")
                       ELSE <<x.text>>
<1> DEFINE m == Mine(d, o)
           c == Mine(d \o <<x>>, o)
           default == IF opts[o].value = NULL THEN << >> ELSE opts[o].value
           was == Strings(opts, d, o)
           is == Strings(opts, d \o <<x>>, o)
<1>1. m \in Seq(String) /\ c = m \o TextFor(x, o) /\ x.text \in String
  BY MineSnoc DEF Setting
<1>2. default \in Seq(String)
  <2>1. opts[o] \in Option
    BY ElementOfSeq
  <2> QED BY <2>1 DEF Option
<1>3. /\ was = IF m = << >> THEN opts[o].value
               ELSE IF "LIST" \in opts[o].type THEN default \o Parts(m) ELSE <<Last(m)>>
      /\ is = IF c = << >> THEN opts[o].value
              ELSE IF "LIST" \in opts[o].type THEN default \o Parts(c) ELSE <<Last(c)>>
  BY StringsIs
<1> HIDE DEF m, c, was, is
<1>4. ASSUME x.kind # "set" \/ x.opt # o PROVE is = was
  <2>1. c = m
    BY <1>1, <1>4, ConcatEmptySeq DEF TextFor
  <2> QED BY <1>3, <2>1
<1>5. ASSUME x.kind = "set" /\ x.opt = o
      PROVE  is = IF "LIST" \in opts[o].type
                  THEN (IF was = NULL THEN << >> ELSE was) \o Split(x.text, ":")
                  ELSE <<x.text>>
  <2>1. c = m \o <<x.text>>
    BY <1>1, <1>5 DEF TextFor
  <2>2. c \in Seq(String) /\ Len(c) = Len(m) + 1 /\ c[Len(m) + 1] = x.text /\ Len(m) \in Nat
    BY <1>1, <2>1, SnocParts, LenProperties
  <2>3. c # << >> /\ Last(c) = x.text
    <3>1. Len(c) # 0
      BY <2>2
    <3> QED BY <2>2, <3>1 DEF Last
  <2>4. CASE "LIST" \notin opts[o].type
    BY <1>3, <2>3, <2>4
  <2>5. CASE "LIST" \in opts[o].type
    <3> DEFINE s == Split(x.text, ":")
    <3>1. s \in Seq(String)
      BY <1>1, SplitType
    <3>2. Parts(m) \in Seq(String) /\ Parts(c) = Parts(m) \o s
      BY <1>1, <2>1, PartsSnoc
    <3>3. is = default \o (Parts(m) \o s)
      BY <1>3, <2>3, <2>5, <3>2
    <3> HIDE DEF s, default
    <3>4. CASE m = << >>
      <4>1. Parts(m) = << >>
        BY <3>4, FlattenEmpty DEF Parts
      <4>2. Parts(m) \o s = s
        BY <3>1, <4>1, ConcatEmptySeq
      <4>3. default = IF was = NULL THEN << >> ELSE was
        BY <1>3, <3>4 DEF default
      <4> QED BY <2>5, <3>3, <4>2, <4>3 DEF s
    <3>5. CASE m # << >>
      <4>1. was = default \o Parts(m)
        BY <1>3, <2>5, <3>5
      <4>2. was \in Seq(String)
        BY <1>2, <3>2, <4>1, ConcatProperties
      <4>3. was # NULL
        BY <4>2, SymbolAssumption
      <4>4. default \o (Parts(m) \o s) = (default \o Parts(m)) \o s
        <5>1. Associates(String)
          BY Associated
        <5> QED BY <1>2, <3>1, <3>2, <5>1 DEF Associates
      <4> QED BY <2>5, <3>3, <4>1, <4>3, <4>4 DEF s
    <3> QED BY <3>4, <3>5
  <2> QED BY <2>4, <2>5
<1> QED BY <1>4, <1>5 DEF was, is
-------------------------------------------------------------------------------
(* The elements of a are what the settings d make of the options.           *)
Fits(a, opts, d) ==
  \A o \in 1 .. Len(opts) :
    /\ a[o].value = Strings(opts, d, o)
    /\ "SEEN" \in a[o].type <=> \E n \in 1 .. Len(d) : d[n].opt = o

LEMMA FitsSnoc ==
  ASSUME NEW opts \in Seq(Option), NEW a, NEW d \in Seq(Setting), Fits(a, opts, d),
         NEW x \in Setting, NEW b,
         \A p \in 1 .. Len(opts) :
           IF p = x.opt
           THEN b[p].value = Strings(opts, d \o <<x>>, p) /\ "SEEN" \in b[p].type
           ELSE b[p] = a[p]
  PROVE  Fits(b, opts, d \o <<x>>)
<1> DEFINE c == d \o <<x>>
<1>1. /\ Len(c) = Len(d) + 1 /\ Len(d) \in Nat
      /\ \A k \in 1 .. Len(d) : c[k] = d[k]
      /\ c[Len(d) + 1] = x
  BY SnocParts, LenProperties
<1> SUFFICES ASSUME NEW p \in 1 .. Len(opts)
             PROVE  /\ b[p].value = Strings(opts, c, p)
                    /\ "SEEN" \in b[p].type <=> \E n \in 1 .. Len(c) : c[n].opt = p
  BY DEF Fits
<1>2. (\E n \in 1 .. Len(c) : c[n].opt = p) <=> x.opt = p \/ \E n \in 1 .. Len(d) : d[n].opt = p
  <2> HIDE DEF c
  <2>1. ASSUME NEW n \in 1 .. Len(c), c[n].opt = p, x.opt # p
        PROVE  \E k \in 1 .. Len(d) : d[k].opt = p
    <3>1. n # Len(d) + 1
      BY <1>1, <2>1
    <3>2. n \in 1 .. Len(d)
      BY <1>1, <3>1
    <3> QED BY <1>1, <2>1, <3>2
  <2>2. ASSUME x.opt = p PROVE \E n \in 1 .. Len(c) : c[n].opt = p
    <3>1. Len(d) + 1 \in 1 .. Len(c)
      BY <1>1
    <3> QED BY <1>1, <2>2, <3>1
  <2>3. ASSUME NEW n \in 1 .. Len(d), d[n].opt = p PROVE \E k \in 1 .. Len(c) : c[k].opt = p
    <3>1. n \in 1 .. Len(c)
      BY <1>1
    <3> QED BY <1>1, <2>3, <3>1
  <2> QED BY <2>1, <2>2, <2>3
<1>3. x.opt # p => Strings(opts, c, p) = Strings(opts, d, p)
  BY StringsSnoc
<1>4. /\ a[p].value = Strings(opts, d, p)
      /\ "SEEN" \in a[p].type <=> \E n \in 1 .. Len(d) : d[n].opt = p
  BY DEF Fits
<1>5. CASE x.opt = p
  BY <1>2, <1>5
<1>6. CASE x.opt # p
  BY <1>2, <1>3, <1>4, <1>6
<1> QED BY <1>5, <1>6

(* An option is given a string: add_cmdline_arg does what the grammar says. *)
LEMMA FitsSet ==
  ASSUME NEW opts \in Seq(Option), NEW a, StandFor(a, opts), NEW d \in Seq(Setting),
         Fits(a, opts, d), NEW o \in 1 .. Len(opts), NEW text \in String
  PROVE  Fits([a EXCEPT ![o] = Seen(WithArg(a[o], text))], opts, d \o <<Set(o, text)>>)
<1> DEFINE x == Set(o, text)
           e == Seen(WithArg(a[o], text))
           b == [a EXCEPT ![o] = e]
           was == Strings(opts, d, o)
<1>1. /\ a \in Seq(Option) /\ Len(a) \in Nat /\ Len(opts) \in Nat /\ Len(opts) <= Len(a)
      /\ o \in 1 .. Len(a) /\ a[o] \in Option /\ opts[o] \in Option
      /\ Stands(a[o], opts[o]) /\ \A p \in 1 .. Len(opts) : p \in 1 .. Len(a)
  BY LenProperties, ElementOfSeq DEF StandFor
<1>2. x \in Setting /\ x.kind = "set" /\ x.opt = o /\ x.text = text
  <2>1. o \in Nat
    BY <1>1
  <2> QED BY <2>1, SettingKinds DEF Set
<1>3. "LIST" \in a[o].type <=> "LIST" \in opts[o].type
  <2>1. "LIST" \in Flag \ {"SEEN", "ARGS"}
    BY DEF Flag
  <2> QED BY <1>1, <2>1, StandsFlags
<1>4. a[o].value = was
  BY DEF Fits
<1>5. /\ WithArg(a[o], text) \in Option
      /\ "LIST" \notin a[o].type => WithArg(a[o], text).value = <<text>>
      /\ "LIST" \in a[o].type => WithArg(a[o], text).value =
           (IF a[o].value = NULL THEN << >> ELSE a[o].value) \o Split(text, ":")
  <2>1. "LIST" \notin a[o].type => (a[o].value = NULL \/ Len(a[o].value) = 1)
    BY <1>1, <1>3 DEF Stands
  <2> QED BY <1>1, <2>1, WithArgFields
<1>6. e \in Option /\ e.value = WithArg(a[o], text).value /\ "SEEN" \in e.type
  BY <1>5, SeenFields
<1> HIDE DEF x, e, was
<1>7. \A p \in 1 .. Len(a) : b[p] = IF p = o THEN e ELSE a[p]
  BY <1>1, <1>6, ExceptSeq
<1> HIDE DEF b
<1>8. Strings(opts, d \o <<x>>, o) =
        IF "LIST" \in opts[o].type
        THEN (IF was = NULL THEN << >> ELSE was) \o Split(text, ":") ELSE <<text>>
  BY <1>2, StringsSnoc DEF was
<1>9. e.value = Strings(opts, d \o <<x>>, o)
  BY <1>3, <1>4, <1>5, <1>6, <1>8
<1>10. \A p \in 1 .. Len(opts) :
         IF p = x.opt
         THEN b[p].value = Strings(opts, d \o <<x>>, p) /\ "SEEN" \in b[p].type
         ELSE b[p] = a[p]
  BY <1>1, <1>2, <1>6, <1>7, <1>9
<1>11. Fits(b, opts, d \o <<x>>)
  BY <1>2, <1>10, FitsSnoc
<1> QED BY <1>11 DEF b, e, x

LEMMA FitsSwitch ==
  ASSUME NEW opts \in Seq(Option), NEW a, StandFor(a, opts), NEW d \in Seq(Setting),
         Fits(a, opts, d), NEW o \in 1 .. Len(opts)
  PROVE  Fits([a EXCEPT ![o] = Seen(a[o])], opts, d \o <<Switch(o)>>)
<1> DEFINE x == Switch(o)
           e == Seen(a[o])
           b == [a EXCEPT ![o] = e]
<1>1. /\ a \in Seq(Option) /\ Len(a) \in Nat /\ Len(opts) \in Nat /\ Len(opts) <= Len(a)
      /\ o \in 1 .. Len(a) /\ a[o] \in Option /\ \A p \in 1 .. Len(opts) : p \in 1 .. Len(a)
  BY LenProperties, ElementOfSeq DEF StandFor
<1>2. x \in Setting /\ x.kind # "set" /\ x.opt = o
  <2>1. o \in Nat
    BY <1>1
  <2> QED BY <2>1, SettingKinds DEF Switch
<1>3. e \in Option /\ e.value = a[o].value /\ "SEEN" \in e.type
  BY <1>1, SeenFields
<1> HIDE DEF x, e
<1>4. \A p \in 1 .. Len(a) : b[p] = IF p = o THEN e ELSE a[p]
  BY <1>1, <1>3, ExceptSeq
<1> HIDE DEF b
<1>5. e.value = Strings(opts, d \o <<x>>, o)
  <2>1. Strings(opts, d \o <<x>>, o) = Strings(opts, d, o)
    BY <1>2, StringsSnoc
  <2>2. a[o].value = Strings(opts, d, o)
    BY DEF Fits
  <2> QED BY <1>3, <2>1, <2>2
<1>6. \A p \in 1 .. Len(opts) :
        IF p = x.opt
        THEN b[p].value = Strings(opts, d \o <<x>>, p) /\ "SEEN" \in b[p].type
        ELSE b[p] = a[p]
  BY <1>1, <1>2, <1>3, <1>4, <1>5
<1>7. Fits(b, opts, d \o <<x>>)
  BY <1>2, <1>6, FitsSnoc
<1> QED BY <1>7 DEF b, e, x

(* The options as they are defined. *)
LEMMA FitsInit ==
  ASSUME NEW opts, OptionsOK(opts)
  PROVE  Fits([o \in DOMAIN opts |-> AddCmdline(opts[o])], opts, << >>)
<1> DEFINE a == [o \in DOMAIN opts |-> AddCmdline(opts[o])]
<1>1. /\ DOMAIN opts = 1 .. Len(opts)
      /\ \A o \in 1 .. Len(opts) : opts[o] \in Option /\ "SEEN" \notin opts[o].type
  BY LenProperties, ElementOfSeq DEF OptionsOK
<1> SUFFICES ASSUME NEW o \in 1 .. Len(opts)
             PROVE  a[o].value = Strings(opts, << >>, o) /\ "SEEN" \notin a[o].type
  BY DEF Fits
<1>2. a[o] = AddCmdline(opts[o])
  BY <1>1
<1>3. a[o].value = opts[o].value /\ "SEEN" \notin a[o].type
  BY <1>1, <1>2 DEF AddCmdline, Option
<1>4. Strings(opts, << >>, o) = opts[o].value
  <2>1. Mine(<< >>, o) = << >>
    BY FlattenEmpty DEF Mine
  <2> QED BY <2>1, StringsIs
<1> QED BY <1>3, <1>4
-------------------------------------------------------------------------------
(* The outcome: a setting that stops the program decides it. *)
Goes(d) == \A n \in 1 .. Len(d) : d[n].kind \in {"set", "switch"}

LEMMA StopOutcome ==
  ASSUME NEW opts, NEW d \in Seq(Setting), Goes(d), NEW x \in Setting,
         x.kind \in {"failed", "exited"}, NEW r \in Seq(Setting)
  PROVE  Outcome(opts, d \o (<<x>> \o r)) = x.kind
<1> DEFINE h == <<x>>
           t == h \o r
           c == d \o t
           stops == {n \in DOMAIN c : c[n].kind \in {"failed", "exited"}}
           m == Len(d) + 1
<1>1. h \in Seq(Setting) /\ Len(h) = 1 /\ h[1] = x
  OBVIOUS
<1> HIDE DEF h
<1>2. t \in Seq(Setting) /\ Len(t) = 1 + Len(r) /\ t[1] = x
  <2>1. Concats(Setting)
    BY ConcatParts
  <2>2. h \in Seq(Setting) /\ r \in Seq(Setting)
    BY <1>1
  <2>3. h \o r \in Seq(Setting) /\ Len(h \o r) = Len(h) + Len(r)
        /\ \A k \in 1 .. Len(h) : (h \o r)[k] = h[k]
    BY <2>1, <2>2 DEF Concats
  <2> QED BY <1>1, <2>3
<1> HIDE DEF t
<1>3. /\ c \in Seq(Setting) /\ Len(c) = Len(d) + (1 + Len(r))
      /\ \A k \in 1 .. Len(d) : c[k] = d[k]
      /\ c[m] = x
      /\ Len(d) \in Nat /\ Len(r) \in Nat
  <2>1. Concats(Setting)
    BY ConcatParts
  <2>2. d \in Seq(Setting) /\ t \in Seq(Setting)
    BY <1>2
  <2>3. /\ d \o t \in Seq(Setting) /\ Len(d \o t) = Len(d) + Len(t)
        /\ \A k \in 1 .. Len(d) : (d \o t)[k] = d[k]
        /\ \A k \in 1 .. Len(t) : (d \o t)[Len(d) + k] = t[k]
    BY <2>1, <2>2 DEF Concats
  <2>4. 1 \in 1 .. Len(t) /\ Len(d) \in Nat /\ Len(r) \in Nat
    BY <1>2, LenProperties
  <2> QED BY <1>2, <2>3, <2>4
<1> HIDE DEF c
<1>4. DOMAIN c = 1 .. Len(c)
  BY <1>3, LenProperties
<1>5. m \in stops /\ stops \in SUBSET Nat
  BY <1>3, <1>4
<1>6. ASSUME NEW n \in stops PROVE m <= n
  <2>1. n \in 1 .. Len(c) /\ c[n].kind \in {"failed", "exited"}
    BY <1>4
  <2>2. n \notin 1 .. Len(d)
    BY <1>3, <2>1 DEF Goes
  <2> QED BY <1>3, <2>1, <2>2
<1>7. Outcome(opts, c) = IF stops # {} THEN c[Min(stops)].kind
                         ELSE IF \E o \in DOMAIN opts : "REQD" \in opts[o].type
                                   /\ o \notin {c[n].opt : n \in DOMAIN c}
                         THEN "failed" ELSE "parsed"
  BY DEF Outcome
<1> HIDE DEF stops
<1>8. Min(stops) = m
  BY <1>5, <1>6, MinOf
<1>9. Outcome(opts, c) = x.kind
  BY <1>3, <1>5, <1>7, <1>8
<1> QED BY <1>9 DEF c, t, h

LEMMA EndOutcome ==
  ASSUME NEW opts \in Seq(Option), NEW d \in Seq(Setting), Goes(d)
  PROVE  Outcome(opts, d) =
           IF \E o \in 1 .. Len(opts) : /\ "REQD" \in opts[o].type
                                        /\ ~ \E n \in 1 .. Len(d) : d[n].opt = o
           THEN "failed" ELSE "parsed"
<1>1. DOMAIN d = 1 .. Len(d) /\ DOMAIN opts = 1 .. Len(opts)
  BY LenProperties
<1>2. {n \in DOMAIN d : d[n].kind \in {"failed", "exited"}} = {}
  BY <1>1 DEF Goes
<1> QED BY <1>1, <1>2 DEF Outcome

LEMMA GoesSnoc ==
  ASSUME NEW d \in Seq(Setting), Goes(d), NEW x \in Setting, x.kind \in {"set", "switch"}
  PROVE  Goes(d \o <<x>>)
<1> DEFINE c == d \o <<x>>
<1>1. /\ Len(c) = Len(d) + 1 /\ Len(d) \in Nat
      /\ \A k \in 1 .. Len(d) : c[k] = d[k]
      /\ c[Len(d) + 1] = x
  BY SnocParts, LenProperties
<1> HIDE DEF c
<1>2. ASSUME NEW n \in 1 .. Len(c) PROVE c[n].kind \in {"set", "switch"}
  <2>1. n = Len(d) + 1 \/ n \in 1 .. Len(d)
    BY <1>1
  <2> QED BY <1>1, <2>1 DEF Goes
<1> QED BY <1>2 DEF Goes, c
-------------------------------------------------------------------------------
(* What the lookups find among args is what the grammar finds among the     *)
(* options: what stands behind them has no letter, no name and no flags.    *)
Anonymous(opts) == {o \in DOMAIN opts : "ANON" \in opts[o].type}

LEMMA LookupsAgree ==
  ASSUME TypeInv
  PROVE  /\ \A c \in Symbol : GetShortOpt(c) = IF WithLetter(options, c) # {}
                                               THEN Lettered(options, c) ELSE 0
         /\ \A t \in String : GetLongOpt(t) = IF WithName(options, t) # {}
                                              THEN Min(WithName(options, t)) ELSE 0
         /\ GetAnon = IF Anonymous(options) # {} THEN Min(Anonymous(options)) ELSE 0
         /\ \A o \in 1 .. Len(options) :
              /\ args[o].cb = options[o].cb
              /\ "ARGS" \in args[o].type <=> TakesArgument(options, o)
              /\ "REQD" \in args[o].type <=> "REQD" \in options[o].type
         /\ \A o \in Len(options) + 1 .. Len(args) : ~ args[o].cb /\ "REQD" \notin args[o].type
<1> DEFINE n == Len(options)
<1>1. /\ options \in Seq(Option) /\ n \in Nat /\ DOMAIN options = 1 .. n
      /\ StandFor(args, options) /\ args \in Seq(Option) /\ Len(args) \in Nat
      /\ n <= Len(args)
  BY CalledFacts, FoundInArgs DEF TypeInv, StandFor
<1>2. ASSUME NEW o \in 1 .. n
      PROVE  /\ args[o] \in Option /\ options[o] \in Option /\ Stands(args[o], options[o])
             /\ o \in 1 .. Len(args)
             /\ args[o].short = options[o].short /\ args[o].long = options[o].long
             /\ args[o].cb = options[o].cb
             /\ "ARGS" \in args[o].type <=> {"ARGS", "LIST"} \intersect options[o].type # {}
             /\ \A f \in Flag \ {"SEEN", "ARGS"} : f \in args[o].type <=> f \in options[o].type
  <2>1. o \in 1 .. Len(args)
    BY <1>1
  <2>2. args[o] \in Option /\ options[o] \in Option /\ Stands(args[o], options[o])
    BY <1>1, <2>1, ElementOfSeq DEF StandFor
  <2>3. /\ "ARGS" \in args[o].type <=> {"ARGS", "LIST"} \intersect options[o].type # {}
        /\ \A f \in Flag \ {"SEEN", "ARGS"} : f \in args[o].type <=> f \in options[o].type
    BY <2>2, StandsFlags
  <2> QED BY <2>1, <2>2, <2>3 DEF Stands
<1>3. ASSUME NEW o \in 1 .. Len(args), o \notin 1 .. n
      PROVE  /\ args[o].short = NUL /\ args[o].long = NULL /\ ~ args[o].cb
             /\ "ANON" \notin args[o].type /\ "REQD" \notin args[o].type
  <2>1. o \in n + 1 .. Len(args)
    BY <1>1, <1>3
  <2> QED BY <1>1, <2>1 DEF StandFor, FromEnvironment
<1>4. NUL \notin Symbol /\ NULL \notin String
  BY SymbolAssumption
<1>5. ASSUME NEW c \in Symbol
      PROVE  GetShortOpt(c) = IF WithLetter(options, c) # {} THEN Lettered(options, c) ELSE 0
  <2> DEFINE S == {o \in 1 .. Len(args) : args[o].short = c}
             T == WithLetter(options, c)
  <2>1. T = {o \in 1 .. n : options[o].short = c}
    BY <1>1 DEF WithLetter
  <2>2. S = T /\ T \in SUBSET (1 .. n)
    BY <1>2, <1>3, <1>4, <2>1
  <2>3. First(GetShortOpt(c), S)
    BY <1>1, GetIs
  <2> HIDE DEF S, T
  <2>4. GetShortOpt(c) = IF T # {} THEN Min(T) ELSE 0
    BY <1>1, <2>2, <2>3, FirstIsUnique
  <2> QED BY <2>4 DEF T, Lettered
<1>6. ASSUME NEW t \in String
      PROVE  GetLongOpt(t) = IF WithName(options, t) # {} THEN Min(WithName(options, t)) ELSE 0
  <2> DEFINE S == {o \in 1 .. Len(args) : args[o].long = t}
             T == WithName(options, t)
  <2>1. T = {o \in 1 .. n : options[o].long = t}
    BY <1>1 DEF WithName
  <2>2. S = T /\ T \in SUBSET (1 .. n)
    BY <1>2, <1>3, <1>4, <2>1
  <2>3. First(GetLongOpt(t), S)
    BY <1>1, GetIs
  <2> HIDE DEF S, T
  <2>4. GetLongOpt(t) = IF T # {} THEN Min(T) ELSE 0
    BY <1>1, <2>2, <2>3, FirstIsUnique
  <2> QED BY <2>4 DEF T
<1>7. GetAnon = IF Anonymous(options) # {} THEN Min(Anonymous(options)) ELSE 0
  <2> DEFINE S == {o \in 1 .. Len(args) : "ANON" \in args[o].type}
             T == Anonymous(options)
  <2>1. T = {o \in 1 .. n : "ANON" \in options[o].type}
    BY <1>1 DEF Anonymous
  <2>2. "ANON" \in Flag \ {"SEEN", "ARGS"}
    BY DEF Flag
  <2>3. \A o \in 1 .. n : "ANON" \in args[o].type <=> "ANON" \in options[o].type
    BY <1>2, <2>2
  <2>4. S = T /\ T \in SUBSET (1 .. n)
    BY <1>2, <1>3, <2>1, <2>3
  <2>5. First(GetAnon, S)
    BY <1>1, GetIs
  <2> HIDE DEF S, T
  <2>6. GetAnon = IF T # {} THEN Min(T) ELSE 0
    BY <1>1, <2>4, <2>5, FirstIsUnique
  <2> QED BY <2>6 DEF T
<1>8. ASSUME NEW o \in 1 .. n
      PROVE  /\ "ARGS" \in args[o].type <=> TakesArgument(options, o)
             /\ "REQD" \in args[o].type <=> "REQD" \in options[o].type
  <2>1. TakesArgument(options, o) <=> {"ARGS", "LIST"} \intersect options[o].type # {}
    BY DEF TakesArgument
  <2>2. "REQD" \in Flag \ {"SEEN", "ARGS"}
    BY DEF Flag
  <2> QED BY <1>2, <2>1, <2>2
<1>9. ASSUME NEW o \in n + 1 .. Len(args) PROVE ~ args[o].cb /\ "REQD" \notin args[o].type
  <2>1. o \in 1 .. Len(args) /\ o \notin 1 .. n
    BY <1>1
  <2> QED BY <1>3, <2>1
<1> QED BY <1>2, <1>5, <1>6, <1>7, <1>8, <1>9 DEF n
-------------------------------------------------------------------------------
(* The arguments up to the k-th: what an argument gives when no other       *)
(* follows it.                                                              *)
Same(opts, line, k, from) ==
  Letters(opts, line, k, from) = Letters(opts, SubSeq(line, 1, k), k, from)

LEMMA CutLine ==
  ASSUME NEW line \in Seq(String), NEW k \in 1 .. Len(line)
  PROVE  /\ SubSeq(line, 1, k) \in Seq(String) /\ Len(SubSeq(line, 1, k)) = k
         /\ SubSeq(line, 1, k)[k] = line[k]
<1>1. Len(line) \in Nat /\ 0 \in Nat /\ k \in Nat /\ 0 <= k /\ k <= Len(line)
      /\ 0 + 1 = 1 /\ k - 0 = k /\ 0 + k = k /\ k \in 1 .. k
  BY LenProperties
<1>2. /\ SubSeq(line, 0 + 1, k) \in Seq(String) /\ Len(SubSeq(line, 0 + 1, k)) = k - 0
      /\ \A i \in 1 .. k - 0 : SubSeq(line, 0 + 1, k)[i] = line[0 + i]
  BY <1>1, SubSeqParts
<1> QED BY <1>1, <1>2

(* One long argument. *)
LEMMA LongArgument ==
  ASSUME NEW opts \in Seq(Option), NEW line \in Seq(String), NEW k \in 1 .. Len(line),
         IsLong(line[k]), ~ GivesSwitchAValue(opts, line[k]), NEW a, a = Rest(line[k], 3),
         NEW found, found = WithName(opts, NameIn(a)), NEW o, o = Min(found)
  PROVE  /\ SettingsAt(opts, line, k) = <<LongSetting(opts, line, k)>>
         /\ found = {} => LongSetting(opts, line, k) = Fail
         /\ found # {} /\ opts[o].cb => LongSetting(opts, line, k) = Exit
         /\ found # {} /\ ~ opts[o].cb =>
              /\ ~ TakesArgument(opts, o) =>
                   /\ LongSetting(opts, line, k) = Switch(o)
                   /\ ~ TakesFollowing(opts, line, k)
              /\ TakesArgument(opts, o) /\ CutOf(a) = 0 /\ k < Len(line) =>
                   /\ LongSetting(opts, line, k) = Set(o, line[k + 1])
                   /\ TakesFollowing(opts, line, k)
              /\ TakesArgument(opts, o) /\ CutOf(a) = 0 /\ ~ k < Len(line) =>
                   LongSetting(opts, line, k) = Fail
              /\ TakesArgument(opts, o) /\ CutOf(a) # 0 /\ CutOf(a) = Len(a) =>
                   LongSetting(opts, line, k) = Fail
              /\ TakesArgument(opts, o) /\ CutOf(a) # 0 /\ CutOf(a) # Len(a) =>
                   /\ LongSetting(opts, line, k) = Set(o, Rest(a, CutOf(a) + 1))
                   /\ ~ TakesFollowing(opts, line, k)
<1> DEFINE sub == SubSeq(line, 1, k)
           is == LongSetting(opts, line, k)
           was == LongSetting(opts, sub, k)
<1>1. sub \in Seq(String) /\ Len(sub) = k /\ sub[k] = line[k] /\ k \in Nat
  BY CutLine, LenProperties
<1>0. found # {} /\ CutOf(a) # 0 => TakesArgument(opts, o)
  <2>1. found # {} /\ CutOf(a) # 0 => found = WithName(opts, SubSeq(a, 1, CutOf(a) - 1))
    BY DEF NameIn
  <2> QED BY <2>1 DEF GivesSwitchAValue, CutOf
<1>2. is = IF found = {} THEN Fail
           ELSE IF CutOf(a) # 0 /\ ~ TakesArgument(opts, o) THEN Fail
           ELSE IF opts[o].cb THEN Exit
           ELSE IF ~ TakesArgument(opts, o) THEN Switch(o)
           ELSE IF CutOf(a) = 0 THEN Following(line, k, o)
           ELSE IF CutOf(a) = Len(a) THEN Fail
           ELSE Set(o, Rest(a, CutOf(a) + 1))
  BY LongSettingIs DEF LongGives
<1> HIDE DEF sub
<1>3. was = IF found = {} THEN Fail
            ELSE IF CutOf(a) # 0 /\ ~ TakesArgument(opts, o) THEN Fail
            ELSE IF opts[o].cb THEN Exit
            ELSE IF ~ TakesArgument(opts, o) THEN Switch(o)
            ELSE IF CutOf(a) = 0 THEN Following(sub, k, o)
            ELSE IF CutOf(a) = Len(a) THEN Fail
            ELSE Set(o, Rest(a, CutOf(a) + 1))
  <2>1. a = Rest(sub[k], 3)
    BY <1>1
  <2>2. LongSetting(opts, sub, k) = LongGives(opts, sub, k, a, o)
    BY <2>1, LongSettingIs
  <2> QED BY <2>2 DEF LongGives
<1>4. /\ SettingsAt(opts, line, k) = <<is>> /\ SettingsAt(opts, sub, k) = <<was>>
      /\ IsOption(line[k])
  BY <1>1 DEF SettingsAt, IsLong, IsOption
<1> HIDE DEF is, was
<1>5. TakesFollowing(opts, line, k) <=> k < Len(line) /\ is # was
  <2>1. TakesFollowing(opts, line, k) <=> k < Len(line) /\ <<is>> # <<was>>
    BY <1>4 DEF TakesFollowing, sub
  <2> QED BY <2>1
<1>6. /\ k < Len(line) => Following(line, k, o) = Set(o, line[k + 1])
      /\ ~ k < Len(line) => Following(line, k, o) = Fail
      /\ Following(sub, k, o) = Fail
  BY <1>1 DEF Following
<1>7. Set(o, line[k + 1]) # Fail
  BY DEF Set, Fail
<1> QED BY <1>0, <1>2, <1>3, <1>4, <1>5, <1>6, <1>7 DEF is

LEMMA ConsEqual ==
  ASSUME NEW V, NEW x \in V, NEW s \in Seq(V), NEW t \in Seq(V), <<x>> \o s = <<x>> \o t
  PROVE  s = t
<1> DEFINE h == <<x>>
           c == h \o s
           e == h \o t
<1>1. h \in Seq(V) /\ Len(h) = 1 /\ Len(s) \in Nat /\ Len(t) \in Nat
  BY LenProperties
<1> HIDE DEF h
<1>2. /\ Len(c) = 1 + Len(s) /\ Len(e) = 1 + Len(t)
      /\ \A k \in 1 .. Len(s) : c[1 + k] = s[k]
      /\ \A k \in 1 .. Len(t) : e[1 + k] = t[k]
  <2>1. Concats(V)
    BY ConcatParts
  <2>2. /\ Len(h \o s) = Len(h) + Len(s)
        /\ \A k \in 1 .. Len(s) : (h \o s)[Len(h) + k] = s[k]
    BY <1>1, <2>1 DEF Concats
  <2>3. /\ Len(h \o t) = Len(h) + Len(t)
        /\ \A k \in 1 .. Len(t) : (h \o t)[Len(h) + k] = t[k]
    BY <1>1, <2>1 DEF Concats
  <2> QED BY <1>1, <2>2, <2>3
<1>3. c = e
  BY DEF h
<1> HIDE DEF c, e
<1>4. Len(s) = Len(t) /\ \A k \in 1 .. Len(s) : s[k] = t[k]
  BY <1>1, <1>2, <1>3
<1> QED BY <1>4, SeqEqual

(* The option o whose letter is the j-th of the argument a.                *)
LetterGives(opts, line, k, a, j, o) ==
  /\ ~ TakesArgument(opts, o) =>
       /\ Letters(opts, line, k, j) = <<Switch(o)>> \o Letters(opts, line, k, j + 1)
       /\ Same(opts, line, k, j) <=> Same(opts, line, k, j + 1)
  /\ TakesArgument(opts, o) /\ j = Len(a) /\ k < Len(line) =>
       /\ Letters(opts, line, k, j) = <<Set(o, line[k + 1])>>
       /\ ~ Same(opts, line, k, j)
  /\ TakesArgument(opts, o) /\ j = Len(a) /\ ~ k < Len(line) =>
       Letters(opts, line, k, j) = <<Fail>>
  /\ TakesArgument(opts, o) /\ j < Len(a) =>
       /\ Letters(opts, line, k, j) =
            <<Set(o, IF Len(a) > j + 1 /\ a[j + 1] = "="
                     THEN Rest(a, j + 2) ELSE Rest(a, j + 1))>>
       /\ Same(opts, line, k, j)

(* One letter of a short argument, and whether it takes the next argument.  *)
LEMMA ShortLetter ==
  ASSUME NEW opts \in Seq(Option), NEW line \in Seq(String), NEW k \in 1 .. Len(line),
         NEW a, a = line[k], NEW j \in 1 .. Len(a),
         NEW found, found = WithLetter(opts, a[j]), NEW o, o = Lettered(opts, a[j])
  PROVE  /\ found = {} => Letters(opts, line, k, j) = <<Fail>>
         /\ found # {} /\ opts[o].cb => Letters(opts, line, k, j) = <<Exit>>
         /\ found # {} /\ ~ opts[o].cb => LetterGives(opts, line, k, a, j, o)
<1> DEFINE sub == SubSeq(line, 1, k)
           next == j + 1
           text == Rest(a, next)
           some == IF Len(text) > 1 /\ text[1] = "=" THEN Tail(text) ELSE text
<1>1. /\ sub \in Seq(String) /\ Len(sub) = k /\ sub[k] = line[k] /\ k \in Nat
      /\ k \in 1 .. Len(sub)
  BY CutLine, LenProperties
<1>2. /\ a \in String /\ Len(a) \in Nat /\ j \in Nat \ {0} /\ next \in Nat \ {0}
      /\ j <= Len(a) /\ j <= Len(a) + 1 /\ next <= Len(a) + 1 /\ j \in Nat
  BY ElementOfSeq, LenProperties DEF String
<1> HIDE DEF sub, next
<1>3. /\ Letters(opts, line, k, next) \in Seq(Setting)
      /\ Letters(opts, sub, k, next) \in Seq(Setting)
  BY <1>1, <1>2, LettersStep
<1>4. /\ ~ IsPlain(opts, a[j]) =>
           /\ Letters(opts, line, k, j) = <<LastLetter(opts, line, k, j)>>
           /\ Letters(opts, sub, k, j) = <<LastLetter(opts, sub, k, j)>>
      /\ IsPlain(opts, a[j]) =>
           /\ Letters(opts, line, k, j) = <<Switch(o)>> \o Letters(opts, line, k, next)
           /\ Letters(opts, sub, k, j) = <<Switch(o)>> \o Letters(opts, sub, k, next)
  <2>1. /\ ~ IsPlain(opts, line[k][j]) =>
             Letters(opts, line, k, j) = <<LastLetter(opts, line, k, j)>>
        /\ IsPlain(opts, line[k][j]) =>
             Letters(opts, line, k, j) =
               <<Switch(Lettered(opts, line[k][j]))>> \o Letters(opts, line, k, j + 1)
    BY <1>2, LettersStep
  <2>2. /\ ~ IsPlain(opts, sub[k][j]) =>
             Letters(opts, sub, k, j) = <<LastLetter(opts, sub, k, j)>>
        /\ IsPlain(opts, sub[k][j]) =>
             Letters(opts, sub, k, j) =
               <<Switch(Lettered(opts, sub[k][j]))>> \o Letters(opts, sub, k, j + 1)
    BY <1>1, <1>2, LettersStep
  <2> QED BY <1>1, <2>1, <2>2 DEF next
<1>5. IsPlain(opts, a[j]) <=> found # {} /\ ~ TakesArgument(opts, o) /\ ~ opts[o].cb
  BY DEF IsPlain
<1>6. /\ LastLetter(opts, line, k, j) =
           IF found = {} THEN Fail ELSE IF opts[o].cb THEN Exit
           ELSE IF text = << >> THEN Following(line, k, o) ELSE Set(o, some)
      /\ LastLetter(opts, sub, k, j) =
           IF found = {} THEN Fail ELSE IF opts[o].cb THEN Exit
           ELSE IF text = << >> THEN Following(sub, k, o) ELSE Set(o, some)
  BY <1>1 DEF LastLetter, next
<1>7. /\ text \in String /\ Len(text) = Len(a) - j /\ Len(text) \in Nat
      /\ \A n \in 1 .. Len(a) - j : text[n] = a[j + n]
  <2>1. Rest(a, j + 1) \in String
    BY <1>2, RestOfString
  <2>2. Len(Rest(a, j + 1)) = Len(a) - j /\ \A n \in 1 .. Len(a) - j : Rest(a, j + 1)[n] = a[j + n]
    BY <1>2, RestOfString
  <2> QED BY <1>2, <2>1, <2>2 DEF next
<1>8. ASSUME j < Len(a)
      PROVE  /\ text # << >>
             /\ some = IF Len(a) > j + 1 /\ a[j + 1] = "=" THEN Rest(a, j + 2) ELSE Rest(a, j + 1)
  <2>1. Len(text) # 0 /\ 1 \in 1 .. Len(a) - j
    BY <1>2, <1>7, <1>8
  <2>2. text[1] = a[j + 1] /\ (Len(text) > 1 <=> Len(a) > j + 1)
    BY <1>2, <1>7, <2>1
  <2>3. Tail(text) = Rest(a, j + 2)
    <3> DEFINE r == Rest(a, next + 1)
               n == Len(a) - next
    <3>1. n \in Nat /\ next <= Len(a) /\ Len(text) = n + 1
      BY <1>2, <1>7, <1>8 DEF next
    <3>2. r \in String /\ Len(r) = n /\ \A i \in 1 .. n : r[i] = a[next + i]
      BY <1>2, <3>1, RestOfString
    <3>3. /\ Tail(text) \in Seq(Symbol) /\ Len(Tail(text)) = Len(text) - 1
          /\ \A i \in 1 .. Len(Tail(text)) : Tail(text)[i] = text[i + 1]
      <4>1. text \in Seq(Symbol) /\ text # << >>
        BY <1>7, <2>1 DEF String
      <4> HIDE DEF text
      <4> QED BY <4>1, HeadTailProperties
    <3> HIDE DEF r, text
    <3>4. \A i \in 1 .. n : text[i + 1] = a[next + i]
      <4> TAKE i \in 1 .. n
      <4>1. i + 1 \in 1 .. Len(a) - j /\ j + (i + 1) = next + i
        BY <1>2, <3>1 DEF next
      <4> QED BY <1>7, <4>1
    <3>5. Len(Tail(text)) = n
      BY <3>1, <3>3
    <3>6. \A i \in 1 .. Len(Tail(text)) : Tail(text)[i] = r[i]
      BY <3>2, <3>3, <3>4, <3>5
    <3>7. Tail(text) = r
      BY <3>2, <3>3, <3>5, <3>6, SeqEqual DEF String
    <3>8. next + 1 = j + 2
      BY <1>2 DEF next
    <3> QED BY <3>7, <3>8 DEF r
  <2> QED BY <2>1, <2>2, <2>3, EmptySeq DEF next
<1>9. j = Len(a) => text = << >>
  <2>1. j = Len(a) => Len(text) = 0
    BY <1>2, <1>7
  <2> QED BY <1>7, <2>1, EmptySeq DEF String
<1>10. /\ k < Len(line) => Following(line, k, o) = Set(o, line[k + 1])
       /\ Following(sub, k, o) = Fail
  BY <1>1 DEF Following
<1>11. <<Set(o, line[k + 1])>> # <<Fail>>
  BY DEF Set, Fail
<1> HIDE DEF text, some
<1>12. /\ found = {} => Letters(opts, line, k, j) = <<Fail>>
       /\ found # {} /\ opts[o].cb => Letters(opts, line, k, j) = <<Exit>>
  BY <1>4, <1>5, <1>6
<1>13. ASSUME found # {}, ~ opts[o].cb, ~ TakesArgument(opts, o)
       PROVE  /\ Letters(opts, line, k, j) = <<Switch(o)>> \o Letters(opts, line, k, next)
              /\ Same(opts, line, k, j) <=> Same(opts, line, k, next)
  <2>1. Switch(o) \in Setting
    <3>1. o \in Nat
      BY <1>13, FirstOptionIs, LenProperties
    <3> QED BY <3>1, SettingKinds
  <2>2. /\ Letters(opts, line, k, j) = <<Switch(o)>> \o Letters(opts, line, k, next)
        /\ Letters(opts, sub, k, j) = <<Switch(o)>> \o Letters(opts, sub, k, next)
    BY <1>4, <1>5, <1>13
  <2> QED BY <1>3, <2>1, <2>2, ConsEqual DEF Same, sub
<1>14. ASSUME found # {}, ~ opts[o].cb, TakesArgument(opts, o), j = Len(a), k < Len(line)
       PROVE  Letters(opts, line, k, j) = <<Set(o, line[k + 1])>> /\ ~ Same(opts, line, k, j)
  <2>1. LastLetter(opts, line, k, j) = Set(o, line[k + 1]) /\ LastLetter(opts, sub, k, j) = Fail
    BY <1>6, <1>9, <1>10, <1>14
  <2> QED BY <1>4, <1>5, <1>11, <1>14, <2>1 DEF Same, sub
<1>15. ASSUME found # {}, ~ opts[o].cb, TakesArgument(opts, o), j < Len(a)
       PROVE  Letters(opts, line, k, j) = <<Set(o, some)>> /\ Same(opts, line, k, j)
  <2>1. LastLetter(opts, line, k, j) = Set(o, some) /\ LastLetter(opts, sub, k, j) = Set(o, some)
    BY <1>6, <1>8, <1>15
  <2> QED BY <1>4, <1>5, <1>15, <2>1 DEF Same, sub
<1>16. ASSUME found # {}, ~ opts[o].cb, TakesArgument(opts, o), j = Len(a), ~ k < Len(line)
       PROVE  Letters(opts, line, k, j) = <<Fail>>
  <2>1. Following(line, k, o) = Fail
    BY <1>16 DEF Following
  <2> QED BY <1>4, <1>5, <1>6, <1>9, <1>16, <2>1
<1> QED BY <1>8, <1>12, <1>13, <1>14, <1>15, <1>16 DEF next, LetterGives

LEMMA SameAtEnd ==
  ASSUME NEW opts \in Seq(Option), NEW line \in Seq(String), NEW k \in 1 .. Len(line)
  PROVE  /\ Same(opts, line, k, Len(line[k]) + 1)
         /\ Letters(opts, line, k, Len(line[k]) + 1) = << >>
<1> DEFINE sub == SubSeq(line, 1, k)
           n == Len(line[k]) + 1
<1>1. sub \in Seq(String) /\ Len(sub) = k /\ sub[k] = line[k] /\ k \in 1 .. Len(sub)
  BY CutLine, LenProperties
<1>2. n \in Nat \ {0} /\ n <= Len(line[k]) + 1 /\ n = Len(line[k]) + 1
  BY ElementOfSeq, LenProperties DEF String
<1> HIDE DEF n, sub
<1>3. Letters(opts, line, k, n) = << >>
  BY <1>2, LettersStep
<1>4. Letters(opts, sub, k, n) = << >>
  BY <1>1, <1>2, LettersStep
<1> QED BY <1>3, <1>4 DEF Same, sub, n
-------------------------------------------------------------------------------
(* The settings that are still to come when the cursor is at the argument k *)
(* and, inside of parse_short_option, at the letter i.                      *)
Pending(opts, line, k, i) ==
  IF i = 0 THEN From(opts, line, k)
  ELSE (IF Len(line[k]) = 1 THEN <<Fail>> ELSE Letters(opts, line, k, i + 1))
         \o From(opts, line, NextArg(opts, line, k))

(* What was parsed are the settings d: they brought the options to what     *)
(* they are, and the rest is pending.                                       *)
Progress(opts, line, a, k, i, d) ==
  /\ d \in Seq(Setting) /\ Goes(d) /\ Fits(a, opts, d)
  /\ Settings(opts, line) = d \o Pending(opts, line, k, i)

LEMMA NextArgIs ==
  ASSUME NEW opts \in Seq(Option), NEW line \in Seq(String), NEW k \in 1 .. Len(line)
  PROVE  /\ From(opts, line, NextArg(opts, line, k)) \in Seq(Setting)
         /\ TakesFollowing(opts, line, k) =>
              From(opts, line, NextArg(opts, line, k)) = Pending(opts, line, k + 2, 0)
         /\ ~ TakesFollowing(opts, line, k) =>
              From(opts, line, NextArg(opts, line, k)) = Pending(opts, line, k + 1, 0)
<1>1. NextArg(opts, line, k) \in Nat \ {0}
  BY LenProperties DEF NextArg
<1>2. From(opts, line, NextArg(opts, line, k)) \in Seq(Setting)
  BY <1>1, FromType
<1> QED BY <1>2 DEF Pending, NextArg

LEMMA PendingStart ==
  ASSUME NEW opts \in Seq(Option), NEW line \in Seq(String)
  PROVE  /\ Pending(opts, line, 1, 0) = Settings(opts, line)
         /\ \A k \in Nat \ {0} : Pending(opts, line, k, 0) \in Seq(Setting)
         /\ \A k \in 1 .. Len(line) : Pending(opts, line, k, 0) =
              SettingsAt(opts, line, k) \o From(opts, line, NextArg(opts, line, k))
         /\ Pending(opts, line, Len(line) + 1, 0) = << >>
<1>1. Len(line) \in Nat
  BY LenProperties
<1>2. \A k \in Nat \ {0} : Pending(opts, line, k, 0) = From(opts, line, k)
  BY DEF Pending
<1>3. \A k \in Nat \ {0} : From(opts, line, k) \in Seq(Setting)
  BY FromType
<1>4. ASSUME NEW k \in 1 .. Len(line)
      PROVE  From(opts, line, k) =
               SettingsAt(opts, line, k) \o From(opts, line, NextArg(opts, line, k))
  <2>1. k \in Nat /\ ~ k > Len(line)
    BY <1>1
  <2> QED BY <1>1, <2>1, FromIs
<1>5. From(opts, line, Len(line) + 1) = << >>
  <2> DEFINE n == Len(line) + 1
  <2>1. n \in Nat /\ n > Len(line)
    BY <1>1
  <2> HIDE DEF n
  <2>2. From(opts, line, n) = << >>
    BY <1>1, <2>1, FromIs
  <2> QED BY <2>2 DEF n
<1>6. Pending(opts, line, Len(line) + 1, 0) = From(opts, line, Len(line) + 1)
  BY DEF Pending
<1>7. Pending(opts, line, 1, 0) = Settings(opts, line)
  BY SettingsDef DEF Pending
<1>8. \A k \in Nat \ {0} : Pending(opts, line, k, 0) \in Seq(Setting)
  BY <1>2, <1>3
<1>9. ASSUME NEW k \in 1 .. Len(line)
      PROVE  Pending(opts, line, k, 0) =
               SettingsAt(opts, line, k) \o From(opts, line, NextArg(opts, line, k))
  BY <1>4 DEF Pending
<1>10. Pending(opts, line, Len(line) + 1, 0) = << >>
  BY <1>5, <1>6
<1> QED BY <1>7, <1>8, <1>9, <1>10

(* The first of the pending settings is carried out. *)
LEMMA ProgressMade ==
  ASSUME NEW opts \in Seq(Option), NEW line \in Seq(String), NEW a, StandFor(a, opts),
         NEW k, NEW i, NEW d, Progress(opts, line, a, k, i, d),
         NEW m, NEW n, Pending(opts, line, m, n) \in Seq(Setting), NEW o \in 1 .. Len(opts)
  PROVE  /\ \A text \in String :
              Pending(opts, line, k, i) = <<Set(o, text)>> \o Pending(opts, line, m, n) =>
                Progress(opts, line, [a EXCEPT ![o] = Seen(WithArg(a[o], text))], m, n,
                         d \o <<Set(o, text)>>)
         /\ Pending(opts, line, k, i) = <<Switch(o)>> \o Pending(opts, line, m, n) =>
              Progress(opts, line, [a EXCEPT ![o] = Seen(a[o])], m, n, d \o <<Switch(o)>>)
<1>1. /\ d \in Seq(Setting) /\ Goes(d) /\ Fits(a, opts, d)
      /\ Settings(opts, line) = d \o Pending(opts, line, k, i)
  BY DEF Progress
<1>2. ASSUME NEW x \in Setting, x.kind \in {"set", "switch"},
             Pending(opts, line, k, i) = <<x>> \o Pending(opts, line, m, n)
      PROVE  /\ d \o <<x>> \in Seq(Setting) /\ Goes(d \o <<x>>)
             /\ Settings(opts, line) = (d \o <<x>>) \o Pending(opts, line, m, n)
  <2> DEFINE h == <<x>>
             r == Pending(opts, line, m, n)
  <2>1. h \in Seq(Setting) /\ r \in Seq(Setting)
    OBVIOUS
  <2> HIDE DEF h, r
  <2>2. Associates(Setting)
    BY Associated
  <2>3. (d \o h) \o r = d \o (h \o r)
    BY <1>1, <2>1, <2>2 DEF Associates
  <2>4. Settings(opts, line) = (d \o h) \o r
    BY <1>1, <1>2, <2>3 DEF h, r
  <2>5. d \o <<x>> \in Seq(Setting)
    BY <1>1, SnocParts
  <2>6. Goes(d \o <<x>>)
    BY <1>1, <1>2, GoesSnoc
  <2> QED BY <2>4, <2>5, <2>6 DEF h, r
<1>3. o \in Nat
  BY LenProperties
<1>4. ASSUME NEW text \in String,
             Pending(opts, line, k, i) = <<Set(o, text)>> \o Pending(opts, line, m, n)
      PROVE  Progress(opts, line, [a EXCEPT ![o] = Seen(WithArg(a[o], text))], m, n,
                      d \o <<Set(o, text)>>)
  <2>1. Set(o, text) \in Setting /\ Set(o, text).kind \in {"set", "switch"}
    BY <1>3, SettingKinds DEF Set
  <2>2. Fits([a EXCEPT ![o] = Seen(WithArg(a[o], text))], opts, d \o <<Set(o, text)>>)
    BY <1>1, FitsSet
  <2> QED BY <1>2, <1>4, <2>1, <2>2 DEF Progress
<1>5. ASSUME Pending(opts, line, k, i) = <<Switch(o)>> \o Pending(opts, line, m, n)
      PROVE  Progress(opts, line, [a EXCEPT ![o] = Seen(a[o])], m, n, d \o <<Switch(o)>>)
  <2>1. Switch(o) \in Setting /\ Switch(o).kind \in {"set", "switch"}
    BY <1>3, SettingKinds DEF Switch
  <2>2. Fits([a EXCEPT ![o] = Seen(a[o])], opts, d \o <<Switch(o)>>)
    BY <1>1, FitsSwitch
  <2> QED BY <1>2, <1>5, <2>1, <2>2 DEF Progress
<1> QED BY <1>4, <1>5

(* The first of them stops the program. *)
LEMMA ProgressStops ==
  ASSUME NEW opts, NEW line, NEW a, NEW k, NEW i, NEW d, Progress(opts, line, a, k, i, d),
         NEW x \in {Fail, Exit}, NEW r \in Seq(Setting),
         Pending(opts, line, k, i) = <<x>> \o r
  PROVE  Outcome(opts, Settings(opts, line)) = x.kind
<1>1. d \in Seq(Setting) /\ Goes(d) /\ Settings(opts, line) = d \o (<<x>> \o r)
  BY DEF Progress
<1>2. x \in Setting /\ x.kind \in {"failed", "exited"}
  BY SettingKinds DEF Fail, Exit
<1> QED BY <1>1, <1>2, StopOutcome
-------------------------------------------------------------------------------
(* The outcome is the grammar's, and so are the strings and the switches.   *)
Documented ==
  status \notin {"defined", "parsing"} =>
    LET settings == Settings(options, cmds)
    IN  /\ Outcome(options, settings) =
             IF status \in {"crashed", "undefined"} THEN "failed" ELSE status
        /\ status = "parsed" =>
             \A o \in DOMAIN options :
               /\ args[o].value = Strings(options, settings, o)
               /\ "SEEN" \in args[o].type <=>
                    \E n \in DOMAIN settings : settings[n].opt = o

(* While it is parsed, the command line is what was done and what is        *)
(* pending; inside of parse_short_option the letters that are left decide   *)
(* whether the argument takes the next one.                                 *)
Doing ==
  status \in {"defined", "parsing"} =>
    /\ \E d : Progress(options, cmds, args, cmds_idx, idx, d)
    /\ idx # 0 /\ Len(Arg) # 1 =>
         /\ idx \in 1 .. Len(str)
         /\ TakesFollowing(options, cmds, cmds_idx) <=>
              cmds_idx < Len(cmds) /\ ~ Same(options, cmds, cmds_idx, idx + 1)

Now == Pending(options, cmds, cmds_idx, idx)
Then(k) == Pending(options, cmds, k, 0)

(* A step that carries out the next setting. *)
LEMMA DoingGives ==
  ASSUME TypeInv, Doing, Parsing, idx' = 0, NEW o \in 1 .. Len(options),
         cmds_idx' \in Nat \ {0},
         \/ \E text \in String : Give(o, text) /\ Now = <<Set(o, text)>> \o Then(cmds_idx')
         \/ SetSeen(o) /\ Now = <<Switch(o)>> \o Then(cmds_idx')
  PROVE  Doing'
<1>1. /\ options \in Seq(Option) /\ cmds \in Seq(String) /\ StandFor(args, options)
      /\ status = "parsing" /\ options' = options /\ cmds' = cmds
  BY CalledFacts DEF TypeInv, Parsing
<1>2. PICK d : Progress(options, cmds, args, cmds_idx, idx, d)
  BY <1>1 DEF Doing
<1>3. Pending(options, cmds, cmds_idx', 0) \in Seq(Setting)
  BY <1>1, PendingStart
<1>4. \E e : Progress(options, cmds, args', cmds_idx', 0, e)
  <2>1. ASSUME NEW text \in String, Give(o, text), Now = <<Set(o, text)>> \o Then(cmds_idx')
        PROVE  Progress(options, cmds, args', cmds_idx', 0, d \o <<Set(o, text)>>)
    <3>1. Progress(options, cmds, [args EXCEPT ![o] = Seen(WithArg(args[o], text))],
                   cmds_idx', 0, d \o <<Set(o, text)>>)
      BY <1>1, <1>2, <1>3, <2>1, ProgressMade DEF Now, Then
    <3> QED BY <2>1, <3>1 DEF Give
  <2>2. ASSUME SetSeen(o), Now = <<Switch(o)>> \o Then(cmds_idx')
        PROVE  Progress(options, cmds, args', cmds_idx', 0, d \o <<Switch(o)>>)
    <3>1. Progress(options, cmds, [args EXCEPT ![o] = Seen(args[o])],
                   cmds_idx', 0, d \o <<Switch(o)>>)
      BY <1>1, <1>2, <1>3, <2>2, ProgressMade DEF Now, Then
    <3> QED BY <2>2, <3>1 DEF SetSeen
  <2> QED BY <2>1, <2>2
<1> QED BY <1>1, <1>4 DEF Doing

(* A step that ends parsing where the grammar does. *)
LEMMA DoingStops ==
  ASSUME TypeInv, Doing, Parsing, NEW x \in {Fail, Exit}, NEW r \in Seq(Setting),
         Now = <<x>> \o r,
         \/ status' = x.kind
         \/ x = Fail /\ status' \in {"crashed", "undefined"}
  PROVE  Doing' /\ Documented'
<1>1. /\ status = "parsing" /\ options' = options /\ cmds' = cmds
      /\ status' \in {"failed", "exited", "crashed", "undefined"}
      /\ x.kind = IF status' \in {"crashed", "undefined"} THEN "failed" ELSE status'
  BY DEF Parsing, Fail, Exit
<1>2. PICK d : Progress(options, cmds, args, cmds_idx, idx, d)
  BY <1>1 DEF Doing
<1>3. Outcome(options, Settings(options, cmds)) = x.kind
  BY <1>2, ProgressStops DEF Now
<1> QED BY <1>1, <1>3 DEF Doing, Documented

(* What is no option. *)
LEMMA ItemArgument ==
  ASSUME TypeInv, AtArgument, ~ IsOption(Arg)
  PROVE  /\ From(options, cmds, NextArg(options, cmds, cmds_idx)) \in Seq(Setting)
         /\ GetAnon = 0 =>
              Now = <<Fail>> \o From(options, cmds, NextArg(options, cmds, cmds_idx))
         /\ GetAnon # 0 =>
              GetAnon \in 1 .. Len(options) /\ Now = <<Set(GetAnon, Arg)>> \o Then(cmds_idx + 1)
<1>1. /\ options \in Seq(Option) /\ cmds \in Seq(String) /\ cmds_idx \in 1 .. Len(cmds)
      /\ idx = 0 /\ DOMAIN options = 1 .. Len(options) /\ Len(options) \in Nat
      /\ Arg \in String /\ Arg = cmds[cmds_idx]
  BY CalledFacts, ArgIs DEF TypeInv, AtArgument, Arg
<1>2. ~ IsLong(Arg)
  <2>1. Arg = << >> => Len(Arg) = 0
    BY <1>1, LenProperties
  <2> QED BY <2>1 DEF IsLong, IsOption
<1>3. SettingsAt(options, cmds, cmds_idx) = <<ItemSetting(options, Arg)>>
  BY <1>1, <1>2 DEF SettingsAt
<1>4. ~ TakesFollowing(options, cmds, cmds_idx)
  BY <1>1 DEF TakesFollowing
<1>5. /\ From(options, cmds, NextArg(options, cmds, cmds_idx)) \in Seq(Setting)
      /\ From(options, cmds, NextArg(options, cmds, cmds_idx)) = Then(cmds_idx + 1)
  BY <1>1, <1>4, NextArgIs DEF Then
<1>6. Now = <<ItemSetting(options, Arg)>>
              \o From(options, cmds, NextArg(options, cmds, cmds_idx))
  BY <1>1, <1>3, PendingStart DEF Now
<1>7. GetAnon = IF Anonymous(options) # {} THEN Min(Anonymous(options)) ELSE 0
  BY LookupsAgree
<1>8. ItemSetting(options, Arg) =
        IF Anonymous(options) = {} THEN Fail ELSE Set(Min(Anonymous(options)), Arg)
  BY DEF ItemSetting, Anonymous
<1>9. Anonymous(options) # {} => Min(Anonymous(options)) \in 1 .. Len(options)
  <2> DEFINE S == Anonymous(options)
  <2>1. S \in SUBSET Nat /\ S \subseteq 1 .. Len(options)
    BY <1>1 DEF Anonymous
  <2> HIDE DEF S
  <2>2. S # {} => Min(S) \in S
    BY <2>1, MinIs
  <2> QED BY <2>1, <2>2 DEF S
<1>10. Anonymous(options) # {} => Min(Anonymous(options)) # 0
  BY <1>1, <1>9
<1> QED BY <1>5, <1>6, <1>7, <1>8, <1>9, <1>10

LEMMA ItemStep ==
  ASSUME TypeInv, Doing, ListItem \/ ListItemUnknown
  PROVE  Doing' /\ Documented'
<1>1. AtArgument /\ Parsing /\ ~ IsOption(Arg) /\ status = "parsing" /\ idx = 0 /\ More
  BY DEF ListItem, ListItemUnknown, AtArgument, Parsing
<1>2. CASE ListItem
  <2>1. GetAnon \in 1 .. Len(options) /\ Now = <<Set(GetAnon, Arg)>> \o Then(cmds_idx + 1)
    BY <1>1, <1>2, ItemArgument DEF ListItem
  <2>2. /\ cmds_idx' = cmds_idx + 1 /\ cmds_idx' \in Nat \ {0} /\ Arg \in String
        /\ idx' = 0 /\ status' = "parsing" /\ Give(GetAnon, Arg)
    <3>1. cmds_idx \in 1 .. Len(cmds) /\ Len(cmds) \in Nat /\ Arg \in String
      BY <1>1, ArgIs, CalledFacts DEF TypeInv
    <3>2. cmds_idx' = cmds_idx + 1
      BY <1>2, <3>1, ConsumeIs DEF ListItem
    <3> QED BY <1>1, <1>2, <3>1, <3>2 DEF ListItem, AtArgument
  <2>3. Doing'
    BY <1>1, <2>1, <2>2, DoingGives
  <2> QED BY <2>2, <2>3 DEF Documented
<1>3. CASE ListItemUnknown
  <2>1. /\ From(options, cmds, NextArg(options, cmds, cmds_idx)) \in Seq(Setting)
        /\ Now = <<Fail>> \o From(options, cmds, NextArg(options, cmds, cmds_idx))
    BY <1>1, <1>3, ItemArgument DEF ListItemUnknown
  <2>2. status' = Fail.kind
    BY <1>3 DEF ListItemUnknown, Fail
  <2> QED BY <1>1, <2>1, <2>2, DoingStops
<1> QED BY <1>2, <1>3
-------------------------------------------------------------------------------
(* A long option: what parse_long_option does to it is what the grammar     *)
(* gives.                                                                   *)
LEMMA LongFound ==
  ASSUME TypeInv, AtLong, Plain
  PROVE  /\ From(options, cmds, NextArg(options, cmds, cmds_idx)) \in Seq(Setting)
         /\ LongItem = 0 =>
              Now = <<Fail>> \o From(options, cmds, NextArg(options, cmds, cmds_idx))
         /\ LongItem # 0 =>
              /\ LongItem \in 1 .. Len(options)
              /\ args[LongItem].cb =>
                   Now = <<Exit>> \o From(options, cmds, NextArg(options, cmds, cmds_idx))
         /\ LongItem # 0 /\ ~ args[LongItem].cb =>
              /\ "ARGS" \notin args[LongItem].type =>
                   Now = <<Switch(LongItem)>> \o Then(cmds_idx + 1)
              /\ "ARGS" \in args[LongItem].type /\ Cut = 0 =>
                   IF cmds_idx < Len(cmds)
                   THEN Now = <<Set(LongItem, cmds[cmds_idx + 1])>> \o Then(cmds_idx + 2)
                   ELSE Now = <<Fail>> \o From(options, cmds, NextArg(options, cmds, cmds_idx))
              /\ "ARGS" \in args[LongItem].type /\ Cut # 0 =>
                   IF Cut = Len(Text)
                   THEN Now = <<Fail>> \o From(options, cmds, NextArg(options, cmds, cmds_idx))
                   ELSE Now = <<Set(LongItem, Rest(Text, Cut + 1))>> \o Then(cmds_idx + 1)
<1> DEFINE k == cmds_idx
           found == WithName(options, NameIn(Text))
           o == Min(found)
           is == LongSetting(options, cmds, k)
           r == From(options, cmds, NextArg(options, cmds, k))
<1>0. \A n \in 1 .. Len(cmds) : ~ GivesSwitchAValue(options, cmds[n])
  BY CalledFacts, LenProperties DEF TypeInv, Plain
<1>1. /\ options \in Seq(Option) /\ cmds \in Seq(String) /\ k \in 1 .. Len(cmds)
      /\ idx = 0 /\ Len(options) \in Nat /\ IsLong(cmds[k]) /\ Text = Rest(cmds[k], 3)
      /\ Text \in String
  BY CalledFacts, ArgIs, GivenStrings DEF TypeInv, AtLong, AtArgument, Arg, Text
<1>2. Cut = CutOf(Text)
  BY DEF Cut, CutOf
<1>3. /\ SettingsAt(options, cmds, k) = <<is>>
      /\ found = {} => is = Fail
      /\ found # {} /\ options[o].cb => is = Exit
      /\ found # {} /\ ~ options[o].cb =>
           /\ ~ TakesArgument(options, o) =>
                is = Switch(o) /\ ~ TakesFollowing(options, cmds, k)
           /\ TakesArgument(options, o) /\ Cut = 0 /\ k < Len(cmds) =>
                is = Set(o, cmds[k + 1]) /\ TakesFollowing(options, cmds, k)
           /\ TakesArgument(options, o) /\ Cut = 0 /\ ~ k < Len(cmds) => is = Fail
           /\ TakesArgument(options, o) /\ Cut # 0 /\ Cut = Len(Text) => is = Fail
           /\ TakesArgument(options, o) /\ Cut # 0 /\ Cut # Len(Text) =>
                is = Set(o, Rest(Text, Cut + 1)) /\ ~ TakesFollowing(options, cmds, k)
  BY <1>0, <1>1, <1>2, LongArgument
<1>4. LongItem = IF found # {} THEN o ELSE 0
  <2>1. NameIn(Text) \in String /\ LongName = NameIn(Text)
    BY <1>1, <1>2, NameInType DEF LongName, NameIn
  <2> QED BY <2>1, NamesFound, LookupsAgree
<1>5. found # {} => o \in 1 .. Len(options) /\ o # 0
  <2>1. found # {} => o \in 1 .. Len(options)
    BY <1>1, FirstOptionIs
  <2> QED BY <1>1, <2>1
<1>6. /\ r \in Seq(Setting) /\ Now = <<is>> \o r
      /\ TakesFollowing(options, cmds, k) => r = Then(k + 2)
      /\ ~ TakesFollowing(options, cmds, k) => r = Then(k + 1)
  <2>1. SettingsAt(options, cmds, k) \o r = Now
    BY <1>1, PendingStart DEF Now
  <2> QED BY <1>1, <1>3, <2>1, NextArgIs DEF Then
<1>7. found # {} => /\ args[o].cb = options[o].cb
                    /\ "ARGS" \in args[o].type <=> TakesArgument(options, o)
  BY <1>5, LookupsAgree
<1> HIDE DEF found, o, is, r
<1>8. CASE found = {}
  BY <1>3, <1>4, <1>6, <1>8 DEF r
<1>9. CASE found # {}
  <2>1. LongItem = o /\ o # 0 /\ o \in 1 .. Len(options)
    BY <1>4, <1>5, <1>9
  <2>2. args[o].cb => Now = <<Exit>> \o r
    BY <1>3, <1>6, <1>7, <1>9
  <2>3. ASSUME ~ args[o].cb
        PROVE  /\ "ARGS" \notin args[o].type => Now = <<Switch(o)>> \o Then(k + 1)
               /\ "ARGS" \in args[o].type /\ Cut = 0 =>
                    IF k < Len(cmds)
                    THEN Now = <<Set(o, cmds[k + 1])>> \o Then(k + 2)
                    ELSE Now = <<Fail>> \o r
               /\ "ARGS" \in args[o].type /\ Cut # 0 =>
                    IF Cut = Len(Text) THEN Now = <<Fail>> \o r
                    ELSE Now = <<Set(o, Rest(Text, Cut + 1))>> \o Then(k + 1)
    BY <1>3, <1>6, <1>7, <1>9, <2>3
  <2> QED BY <1>6, <2>1, <2>2, <2>3 DEF r
<1> QED BY <1>8, <1>9

LEMMA LongStep ==
  ASSUME TypeInv, Doing, Plain,
         \/ LongUnknown \/ LongCallback \/ LongNextArg \/ LongMissingArg
         \/ LongValue \/ LongEmptyValue \/ LongSwitch
  PROVE  Doing' /\ Documented'
<1> DEFINE r == From(options, cmds, NextArg(options, cmds, cmds_idx))
<1>1. /\ AtLong /\ Parsing /\ status = "parsing" /\ idx = 0 /\ idx' = 0 /\ More
  BY DEF LongUnknown, LongCallback, LongNextArg, LongMissingArg, LongValue, LongEmptyValue,
         LongSwitch, LongTakesArg, LongOption, AtLong, AtArgument, Parsing
<1>2. /\ cmds_idx \in 1 .. Len(cmds) /\ Len(cmds) \in Nat /\ r \in Seq(Setting)
      /\ cmds_idx < Len(cmds) => cmds[cmds_idx + 1] \in String
      /\ Rest(Text, Cut + 1) \in String
  BY <1>1, ArgIs, CalledFacts, LongFound, GivenStrings DEF TypeInv
<1>3. \A n \in {1, 2} : Consume(n) /\ cmds_idx + n <= Len(cmds) + 1 =>
        cmds_idx' = cmds_idx + n /\ cmds_idx' \in Nat \ {0}
  BY <1>2, ConsumeIs
<1>4. Fail.kind = "failed" /\ Exit.kind = "exited"
  BY DEF Fail, Exit
<1>5. CASE LongNextArg
  <2>1. LongItem # 0 /\ ~ args[LongItem].cb /\ "ARGS" \in args[LongItem].type /\ Cut = 0
        /\ cmds_idx < Len(cmds) /\ status' = "parsing"
        /\ Give(LongItem, cmds[cmds_idx + 1]) /\ Consume(2)
    BY <1>1, <1>5 DEF LongNextArg, LongTakesArg, LongOption
  <2>2. cmds_idx' = cmds_idx + 2 /\ cmds_idx' \in Nat \ {0}
    BY <1>2, <1>3, <2>1
  <2>3. /\ LongItem \in 1 .. Len(options)
        /\ Now = <<Set(LongItem, cmds[cmds_idx + 1])>> \o Then(cmds_idx')
    BY <1>1, <2>1, <2>2, LongFound
  <2>4. Doing'
    BY <1>1, <1>2, <2>1, <2>2, <2>3, DoingGives
  <2> QED BY <2>1, <2>4 DEF Documented
<1>6. CASE LongValue
  <2>1. /\ LongItem # 0 /\ ~ args[LongItem].cb /\ "ARGS" \in args[LongItem].type
        /\ Cut # 0 /\ Cut # Len(Text) /\ status' = "parsing"
        /\ Give(LongItem, Rest(Text, Cut + 1)) /\ Consume(1)
    <3>1. Cut < Len(Text) /\ Cut \in 0 .. Len(Text) /\ Len(Text) \in Nat
      BY <1>1, <1>6, GivenStrings DEF LongValue
    <3> QED BY <1>1, <1>6, <3>1 DEF LongValue, LongTakesArg, LongOption
  <2>2. cmds_idx' = cmds_idx + 1 /\ cmds_idx' \in Nat \ {0}
    BY <1>2, <1>3, <2>1
  <2>3. /\ LongItem \in 1 .. Len(options)
        /\ Now = <<Set(LongItem, Rest(Text, Cut + 1))>> \o Then(cmds_idx')
    BY <1>1, <2>1, <2>2, LongFound
  <2>4. Doing'
    BY <1>1, <1>2, <2>1, <2>2, <2>3, DoingGives
  <2> QED BY <2>1, <2>4 DEF Documented
<1>7. CASE LongSwitch
  <2>1. /\ LongItem # 0 /\ ~ args[LongItem].cb /\ "ARGS" \notin args[LongItem].type
        /\ status' = "parsing" /\ SetSeen(LongItem) /\ Consume(1)
    BY <1>1, <1>7 DEF LongSwitch, LongOption
  <2>2. cmds_idx' = cmds_idx + 1 /\ cmds_idx' \in Nat \ {0}
    BY <1>2, <1>3, <2>1
  <2>3. /\ LongItem \in 1 .. Len(options)
        /\ Now = <<Switch(LongItem)>> \o Then(cmds_idx')
    BY <1>1, <2>1, <2>2, LongFound
  <2>4. Doing'
    BY <1>1, <2>1, <2>2, <2>3, DoingGives
  <2> QED BY <2>1, <2>4 DEF Documented
<1>8. CASE LongUnknown
  <2>1. Now = <<Fail>> \o r /\ status' = Fail.kind
    BY <1>1, <1>4, <1>8, LongFound DEF LongUnknown
  <2> QED BY <1>1, <1>2, <2>1, DoingStops
<1>9. CASE LongCallback
  <2>1. Now = <<Exit>> \o r /\ status' = Exit.kind
    BY <1>1, <1>4, <1>9, LongFound DEF LongCallback
  <2> QED BY <1>1, <1>2, <2>1, DoingStops
<1>10. CASE LongMissingArg
  <2>1. /\ LongItem # 0 /\ ~ args[LongItem].cb /\ "ARGS" \in args[LongItem].type /\ Cut = 0
        /\ ~ cmds_idx < Len(cmds) /\ status' = Fail.kind
    BY <1>2, <1>4, <1>10 DEF LongMissingArg, LongTakesArg, LongOption
  <2>2. Now = <<Fail>> \o r
    BY <1>1, <2>1, LongFound
  <2> QED BY <1>1, <1>2, <2>1, <2>2, DoingStops
<1>11. CASE LongEmptyValue
  <2>1. /\ LongItem # 0 /\ ~ args[LongItem].cb /\ "ARGS" \in args[LongItem].type
        /\ Cut # 0 /\ Cut = Len(Text) /\ status' = Fail.kind
    BY <1>4, <1>11 DEF LongEmptyValue, LongTakesArg, LongOption
  <2>2. Now = <<Fail>> \o r
    BY <1>1, <2>1, LongFound
  <2> QED BY <1>1, <1>2, <2>1, <2>2, DoingStops
<1> QED BY <1>5, <1>6, <1>7, <1>8, <1>9, <1>10, <1>11
-------------------------------------------------------------------------------
(* The string of parse_short_option is the argument without its dash. *)
LEMMA TailIs ==
  ASSUME NEW s \in String, s # << >>
  PROVE  /\ Tail(s) \in String /\ Len(Tail(s)) = Len(s) - 1 /\ Len(s) \in Nat /\ Len(s) # 0
         /\ \A i \in 1 .. Len(s) - 1 : Tail(s)[i] = s[i + 1]
         /\ \A n \in Nat : n <= Len(s) - 1 => Rest(Tail(s), n + 1) = Rest(s, n + 2)
<1> DEFINE t == Tail(s)
           N == Len(s)
<1>1. N \in Nat /\ N # 0
  BY LenProperties, EmptySeq DEF String
<1>2. t \in String /\ Len(t) = N - 1 /\ \A i \in 1 .. N - 1 : t[i] = s[i + 1]
  BY HeadTailProperties DEF String
<1> HIDE DEF t
<1>3. ASSUME NEW n \in Nat, n <= N - 1 PROVE Rest(t, n + 1) = Rest(s, n + 2)
  <2> DEFINE m == n + 1
             u == Rest(t, n + 1)
             v == Rest(s, m + 1)
  <2>1. m \in Nat /\ m <= N /\ n <= Len(t) /\ Len(t) - n = N - m /\ N - m \in Nat
    BY <1>1, <1>2, <1>3
  <2>2. /\ u \in String /\ Len(u) = Len(t) - n
        /\ \A i \in 1 .. Len(t) - n : u[i] = t[n + i]
    BY <1>2, <2>1, RestOfString
  <2>3. v \in String /\ Len(v) = N - m /\ \A i \in 1 .. N - m : v[i] = s[m + i]
    <3> HIDE DEF m
    <3> QED BY <2>1, RestOfString DEF N
  <2> HIDE DEF u, v
  <2>4. ASSUME NEW i \in 1 .. Len(u) PROVE u[i] = v[i]
    <3> DEFINE j == n + i
    <3>1. j \in 1 .. N - 1 /\ j + 1 = m + i /\ i \in 1 .. N - m /\ i \in 1 .. Len(t) - n
      BY <1>1, <2>1, <2>2
    <3>2. u[i] = t[j] /\ v[i] = s[m + i]
      BY <2>2, <2>3, <3>1
    <3> HIDE DEF j
    <3>3. t[j] = s[j + 1]
      BY <1>2, <3>1
    <3> QED BY <3>1, <3>2, <3>3
  <2>5. u = v
    BY <2>1, <2>2, <2>3, <2>4, SeqEqual DEF String
  <2>6. m + 1 = n + 2
    OBVIOUS
  <2> QED BY <2>5, <2>6 DEF u, v
<1> QED BY <1>1, <1>2, <1>3 DEF t

LEMMA LetterIs ==
  ASSUME TypeInv, AtLetter, idx \in 1 .. Len(str)
  PROVE  /\ Arg \in String /\ Len(Arg) \in Nat /\ idx \in Nat /\ idx + 1 \in 1 .. Len(Arg)
         /\ Char(idx) = Arg[idx + 1] /\ Char(idx) \in Symbol
         /\ Char(idx + 1) = NUL <=> idx + 1 = Len(Arg)
         /\ Char(idx + 1) # NUL =>
              /\ Char(idx + 1) = Arg[idx + 2]
              /\ Char(idx + 2) # NUL <=> Len(Arg) > idx + 2
              /\ Rest(str, idx + 1) = Rest(Arg, idx + 2)
              /\ Char(idx + 2) # NUL => Rest(str, idx + 2) = Rest(Arg, idx + 3)
<1>1. /\ More /\ IsOption(Arg) /\ str = Tail(Arg) /\ Arg \in String /\ str \in String
      /\ Arg # << >>
  BY ArgIs DEF TypeInv, TypeOK, InShort, AtLetter, IsOption
<1>2. /\ Len(str) = Len(Arg) - 1 /\ Len(Arg) \in Nat /\ Len(Arg) # 0
      /\ \A i \in 1 .. Len(Arg) - 1 : str[i] = Arg[i + 1]
      /\ \A n \in Nat : n <= Len(Arg) - 1 => Rest(str, n + 1) = Rest(Arg, n + 2)
  BY <1>1, TailIs
<1>3. idx \in Nat /\ idx + 1 \in 1 .. Len(Arg)
  BY <1>2
<1>4. \A i \in 1 .. Len(str) : Char(i) = str[i] /\ str[i] \in Symbol /\ Char(i) # NUL
  BY <1>1, ElementOfSeq, SymbolAssumption DEF Char, String
<1>5. \A i \in Nat : i > Len(str) => Char(i) = NUL
  BY <1>2 DEF Char
<1>6. Char(idx) = Arg[idx + 1] /\ Char(idx) \in Symbol
  <2>1. Char(idx) = str[idx] /\ str[idx] \in Symbol /\ idx \in 1 .. Len(Arg) - 1
    BY <1>2, <1>4
  <2> QED BY <1>2, <2>1
<1>7. Char(idx + 1) = NUL <=> idx + 1 = Len(Arg)
  <2> DEFINE j == idx + 1
  <2>1. j \in Nat /\ (j \in 1 .. Len(str) \/ j > Len(str)) /\ (j > Len(str) <=> j = Len(Arg))
    BY <1>2, <1>3
  <2> HIDE DEF j
  <2>2. Char(j) = NUL <=> j = Len(Arg)
    BY <1>2, <1>4, <1>5, <2>1
  <2> QED BY <2>2 DEF j
<1>8. ASSUME Char(idx + 1) # NUL
      PROVE  /\ Char(idx + 1) = Arg[idx + 2]
             /\ Char(idx + 2) # NUL <=> Len(Arg) > idx + 2
             /\ Rest(str, idx + 1) = Rest(Arg, idx + 2)
             /\ Char(idx + 2) # NUL => Rest(str, idx + 2) = Rest(Arg, idx + 3)
  <2> DEFINE j == idx + 1
             n == idx + 2
  <2>1. /\ j \in 1 .. Len(str) /\ j \in 1 .. Len(Arg) - 1 /\ j + 1 = n /\ n \in Nat
        /\ (n \in 1 .. Len(str) \/ n > Len(str)) /\ (n \in 1 .. Len(str) <=> Len(Arg) > n)
        /\ idx <= Len(Arg) - 1 /\ j \in Nat /\ j + 2 = idx + 3 /\ idx + 2 = n
    BY <1>2, <1>3, <1>7, <1>8
  <2> HIDE DEF j, n
  <2>2. Char(j) = str[j] /\ str[j] = Arg[j + 1]
    BY <1>2, <1>4, <2>1
  <2>3. Char(n) # NUL <=> Len(Arg) > n
    BY <1>2, <1>4, <1>5, <2>1
  <2>4. Rest(str, idx + 1) = Rest(Arg, idx + 2)
    BY <1>2, <1>3, <2>1
  <2>5. Char(n) # NUL => Rest(str, j + 1) = Rest(Arg, j + 2)
    BY <1>2, <2>1, <2>3
  <2> QED BY <2>1, <2>2, <2>3, <2>4, <2>5 DEF j, n
<1> QED BY <1>1, <1>2, <1>3, <1>6, <1>7, <1>8

(* A letter: what parse_short_option does to it is what the grammar gives.  *)
LEMMA LetterFound ==
  ASSUME TypeInv, Doing, AtLetter, Len(Arg) # 1
  PROVE  /\ idx \in 1 .. Len(str)
         /\ From(options, cmds, NextArg(options, cmds, cmds_idx)) \in Seq(Setting)
         /\ ShortItem = 0 =>
              Now = <<Fail>> \o From(options, cmds, NextArg(options, cmds, cmds_idx))
         /\ ShortItem # 0 =>
              /\ ShortItem \in 1 .. Len(options)
              /\ args[ShortItem].cb =>
                   Now = <<Exit>> \o From(options, cmds, NextArg(options, cmds, cmds_idx))
         /\ ShortItem # 0 /\ ~ args[ShortItem].cb =>
              /\ "ARGS" \in args[ShortItem].type =>
                   IF Char(idx + 1) # NUL
                   THEN Now = <<Set(ShortItem,
                                    IF Char(idx + 1) = "=" /\ Char(idx + 2) # NUL
                                    THEN Rest(str, idx + 2) ELSE Rest(str, idx + 1))>>
                                \o Then(cmds_idx + 1)
                   ELSE IF cmds_idx < Len(cmds)
                   THEN Now = <<Set(ShortItem, cmds[cmds_idx + 1])>> \o Then(cmds_idx + 2)
                   ELSE Now = <<Fail>> \o From(options, cmds, NextArg(options, cmds, cmds_idx))
              /\ "ARGS" \notin args[ShortItem].type =>
                   IF Char(idx + 1) # NUL
                   THEN /\ Now = <<Switch(ShortItem)>>
                                   \o Pending(options, cmds, cmds_idx, idx + 1)
                        /\ Pending(options, cmds, cmds_idx, idx + 1) \in Seq(Setting)
                        /\ TakesFollowing(options, cmds, cmds_idx) <=>
                             cmds_idx < Len(cmds) /\ ~ Same(options, cmds, cmds_idx, idx + 2)
                   ELSE Now = <<Switch(ShortItem)>> \o Then(cmds_idx + 1)
<1> DEFINE k == cmds_idx
           a == Arg
           j == idx + 1
           found == WithLetter(options, a[j])
           o == Lettered(options, a[j])
           r == From(options, cmds, NextArg(options, cmds, k))
           here == Letters(options, cmds, k, j)
           after == Letters(options, cmds, k, j + 1)
<1>1. /\ options \in Seq(Option) /\ cmds \in Seq(String) /\ k \in 1 .. Len(cmds)
      /\ Len(options) \in Nat /\ status = "parsing" /\ idx # 0 /\ idx \in 1 .. Len(str)
      /\ a = cmds[k] /\ Len(cmds) \in Nat
  BY CalledFacts, ArgIs DEF TypeInv, InShort, AtLetter, Parsing, Doing, Arg
<1>2. /\ a \in String /\ Len(a) \in Nat /\ idx \in Nat /\ j \in 1 .. Len(a)
      /\ Char(idx) = a[j] /\ Char(idx) \in Symbol
      /\ Char(idx + 1) = NUL <=> j = Len(a)
      /\ Char(idx + 1) # NUL =>
           /\ Char(idx + 1) = a[idx + 2]
           /\ Char(idx + 2) # NUL <=> Len(a) > idx + 2
           /\ Rest(str, idx + 1) = Rest(a, idx + 2)
           /\ Char(idx + 2) # NUL => Rest(str, idx + 2) = Rest(a, idx + 3)
  BY <1>1, LetterIs
<1>3. idx + 2 = j + 1 /\ idx + 3 = j + 2
  BY <1>2
<1>4. /\ Now = here \o r
      /\ TakesFollowing(options, cmds, k) <=> k < Len(cmds) /\ ~ Same(options, cmds, k, j)
  BY <1>1 DEF Now, Pending, Doing, AtLetter, Arg
<1>5. /\ r \in Seq(Setting)
      /\ TakesFollowing(options, cmds, k) => r = Then(k + 2)
      /\ ~ TakesFollowing(options, cmds, k) => r = Then(k + 1)
  BY <1>1, NextArgIs DEF Then
<1>6. ShortItem = IF found # {} THEN o ELSE 0
  BY <1>2, LookupsAgree DEF ShortItem
<1>7. found # {} => o \in 1 .. Len(options) /\ o # 0
  <2>1. found # {} => o \in 1 .. Len(options)
    BY <1>1, FirstOptionIs
  <2> QED BY <1>1, <2>1
<1>8. found # {} => /\ args[o].cb = options[o].cb
                    /\ "ARGS" \in args[o].type <=> TakesArgument(options, o)
  BY <1>7, LookupsAgree
<1> DEFINE text == IF Len(a) > j + 1 /\ a[j + 1] = "=" THEN Rest(a, j + 2) ELSE Rest(a, j + 1)
           some == IF Char(idx + 1) = "=" /\ Char(idx + 2) # NUL
                   THEN Rest(str, idx + 2) ELSE Rest(str, idx + 1)
<1>9. /\ found = {} => here = <<Fail>>
      /\ found # {} /\ options[o].cb => here = <<Exit>>
      /\ found # {} /\ ~ options[o].cb =>
           /\ ~ TakesArgument(options, o) =>
                /\ here = <<Switch(o)>> \o after
                /\ Same(options, cmds, k, j) <=> Same(options, cmds, k, j + 1)
           /\ TakesArgument(options, o) /\ j = Len(a) /\ k < Len(cmds) =>
                here = <<Set(o, cmds[k + 1])>> /\ ~ Same(options, cmds, k, j)
           /\ TakesArgument(options, o) /\ j = Len(a) /\ ~ k < Len(cmds) => here = <<Fail>>
           /\ TakesArgument(options, o) /\ j < Len(a) =>
                here = <<Set(o, text)>> /\ Same(options, cmds, k, j)
  <2>1. /\ a = cmds[k] /\ j \in 1 .. Len(a) /\ k \in 1 .. Len(cmds)
        /\ found = WithLetter(options, a[j]) /\ o = Lettered(options, a[j])
        /\ options \in Seq(Option) /\ cmds \in Seq(String)
    BY <1>1, <1>2
  <2> HIDE DEF a, j, found, o
  <2>2. /\ found = {} => here = <<Fail>>
        /\ found # {} /\ options[o].cb => here = <<Exit>>
    BY <2>1, ShortLetter
  <2>3. found # {} /\ ~ options[o].cb => LetterGives(options, cmds, k, a, j, o)
    BY <2>1, ShortLetter
  <2> QED BY <2>2, <2>3 DEF LetterGives
<1>10. Char(idx + 1) # NUL => some = text
  BY <1>2, <1>3
<1>11. after \in Seq(Setting) /\ (j = Len(a) => after = << >> /\ Same(options, cmds, k, j + 1))
  <2>1. j = Len(a) => Same(options, cmds, k, j + 1)
    BY <1>1, SameAtEnd
  <2> DEFINE n == j + 1
  <2>2. n \in Nat \ {0} /\ n <= Len(cmds[k]) + 1 /\ (j = Len(a) => n = Len(cmds[k]) + 1)
    BY <1>1, <1>2
  <2> HIDE DEF n
  <2>3. /\ Letters(options, cmds, k, n) \in Seq(Setting)
        /\ n = Len(cmds[k]) + 1 => Letters(options, cmds, k, n) = << >>
    BY <1>1, <2>2, LettersStep
  <2> QED BY <2>1, <2>2, <2>3 DEF n
<1>12. Pending(options, cmds, k, idx + 1) = after \o r
  <2> DEFINE n == idx + 1
  <2>1. n # 0 /\ n + 1 = j + 1
    BY <1>2
  <2> HIDE DEF n
  <2>2. Pending(options, cmds, k, n) = Letters(options, cmds, k, n + 1) \o r
    BY <1>1, <2>1 DEF Pending
  <2>3. Pending(options, cmds, k, n) = Letters(options, cmds, k, j + 1) \o r
    BY <2>1, <2>2
  <2> QED BY <2>3 DEF n
<1>13. j = Len(a) \/ j < Len(a)
  BY <1>2
<1> HIDE DEF found, o, here, after, r, text, some, a
<1>14. found # {} => Switch(o) \in Setting
  BY <1>7, SettingKinds
<1>15. found # {} => /\ (<<Switch(o)>> \o after) \o r = <<Switch(o)>> \o (after \o r)
                     /\ after \o r \in Seq(Setting)
  <2> DEFINE h == <<Switch(o)>>
  <2>1. found # {} => h \in Seq(Setting)
    BY <1>14
  <2> HIDE DEF h
  <2>2. Associates(Setting)
    BY Associated
  <2>3. found # {} => (h \o after) \o r = h \o (after \o r)
    BY <1>5, <1>11, <2>1, <2>2 DEF Associates
  <2>4. after \o r \in Seq(Setting)
    BY <1>5, <1>11, ConcatProperties
  <2> QED BY <2>3, <2>4 DEF h
<1>16. CASE found = {}
  <2>1. ShortItem = 0 /\ Now = <<Fail>> \o r
    BY <1>4, <1>6, <1>9, <1>16
  <2> QED BY <1>1, <1>5, <2>1 DEF r
<1>17. CASE found # {}
  <2>1. ShortItem = o /\ o # 0 /\ o \in 1 .. Len(options)
    BY <1>6, <1>7, <1>17
  <2>2. args[o].cb => Now = <<Exit>> \o r
    BY <1>4, <1>8, <1>9, <1>17
  <2>3. ASSUME ~ args[o].cb, "ARGS" \in args[o].type, Char(idx + 1) # NUL
        PROVE  Now = <<Set(o, some)>> \o Then(k + 1)
    <3>1. here = <<Set(o, text)>> /\ Same(options, cmds, k, j)
      BY <1>2, <1>8, <1>9, <1>13, <1>17, <2>3
    <3> QED BY <1>4, <1>5, <1>10, <2>3, <3>1
  <2>4. ASSUME ~ args[o].cb, "ARGS" \in args[o].type, Char(idx + 1) = NUL, k < Len(cmds)
        PROVE  Now = <<Set(o, cmds[k + 1])>> \o Then(k + 2)
    <3>1. here = <<Set(o, cmds[k + 1])>> /\ ~ Same(options, cmds, k, j)
      BY <1>2, <1>8, <1>9, <1>17, <2>4
    <3> QED BY <1>4, <1>5, <2>4, <3>1
  <2>5. ASSUME ~ args[o].cb, "ARGS" \in args[o].type, Char(idx + 1) = NUL, ~ k < Len(cmds)
        PROVE  Now = <<Fail>> \o r
    BY <1>2, <1>4, <1>8, <1>9, <1>17, <2>5
  <2>6. ASSUME ~ args[o].cb, "ARGS" \notin args[o].type
        PROVE  /\ here = <<Switch(o)>> \o after
               /\ Now = <<Switch(o)>> \o (after \o r)
               /\ Same(options, cmds, k, j) <=> Same(options, cmds, k, j + 1)
    BY <1>4, <1>8, <1>9, <1>15, <1>17, <2>6
  <2>7. ASSUME ~ args[o].cb, "ARGS" \notin args[o].type, Char(idx + 1) # NUL
        PROVE  /\ Now = <<Switch(o)>> \o Pending(options, cmds, k, idx + 1)
               /\ Pending(options, cmds, k, idx + 1) \in Seq(Setting)
               /\ TakesFollowing(options, cmds, k) <=>
                    k < Len(cmds) /\ ~ Same(options, cmds, k, idx + 2)
    BY <1>3, <1>4, <1>12, <1>15, <1>17, <2>6, <2>7
  <2>8. ASSUME ~ args[o].cb, "ARGS" \notin args[o].type, Char(idx + 1) = NUL
        PROVE  Now = <<Switch(o)>> \o Then(k + 1)
    <3>1. after = << >> /\ Same(options, cmds, k, j)
      BY <1>2, <1>11, <2>6, <2>8
    <3>2. after \o r = r
      BY <1>5, <3>1, ConcatEmptySeq
    <3>3. r = Then(k + 1)
      BY <1>4, <1>5, <3>1
    <3> QED BY <2>6, <2>8, <3>2, <3>3
  <2> QED BY <1>1, <1>5, <2>1, <2>2, <2>3, <2>4, <2>5, <2>7, <2>8 DEF r, some
<1> QED BY <1>16, <1>17

(* A dash alone names no option, and nothing that has a callback.           *)
LEMMA DashFound ==
  ASSUME TypeInv, AtLetter, Len(Arg) = 1
  PROVE  /\ From(options, cmds, NextArg(options, cmds, cmds_idx)) \in Seq(Setting)
         /\ Now = <<Fail>> \o From(options, cmds, NextArg(options, cmds, cmds_idx))
         /\ idx > Len(str)
         /\ ShortItem # 0 => ~ args[ShortItem].cb
<1>1. /\ options \in Seq(Option) /\ cmds \in Seq(String) /\ cmds_idx \in 1 .. Len(cmds)
      /\ Len(options) \in Nat /\ idx # 0 /\ Arg \in String /\ Arg # << >>
      /\ str = Tail(Arg) /\ OptionsOK(options) /\ DOMAIN options = 1 .. Len(options)
  BY CalledFacts, ArgIs DEF TypeInv, InShort, AtLetter, IsOption
<1>2. Len(str) = 0 /\ idx = 1
  <2>1. Len(str) = 0
    BY <1>1, TailIs
  <2>2. idx \in 0 .. Len(str) + 1
    BY DEF TypeInv, TypeOK
  <2>3. idx \in 0 .. 1
    BY <2>1, <2>2
  <2> QED BY <1>1, <2>1, <2>3
<1>3. /\ From(options, cmds, NextArg(options, cmds, cmds_idx)) \in Seq(Setting)
      /\ Now = <<Fail>> \o From(options, cmds, NextArg(options, cmds, cmds_idx))
  BY <1>1, NextArgIs DEF Now, Pending, Arg
<1>4. ASSUME ShortItem # 0 PROVE ~ args[ShortItem].cb
  <2>1. Char(idx) = NUL
    BY <1>2 DEF Char
  <2>2. args \in Seq(Option) /\ Len(args) \in Nat /\ ShortItem \in 1 .. Len(args)
    BY <1>4, FoundInArgs
  <2>3. First(ShortItem, {o \in 1 .. Len(args) : args[o].short = NUL})
    BY <2>1, <2>2, GetIs DEF ShortItem
  <2>4. args[ShortItem].short = NUL
    BY <1>4, <2>3 DEF First
  <2>5. CASE ShortItem \in 1 .. Len(options)
    <3>1. args[ShortItem].cb = options[ShortItem].cb /\ options[ShortItem].short = NUL
      BY <2>4, <2>5 DEF TypeInv, StandFor, Stands
    <3> QED BY <1>1, <2>5, <3>1 DEF OptionsOK
  <2>6. CASE ShortItem \notin 1 .. Len(options)
    <3>1. ShortItem \in Len(options) + 1 .. Len(args)
      BY <1>1, <2>2, <2>6
    <3> QED BY <3>1, LookupsAgree
  <2> QED BY <2>5, <2>6
<1> QED BY <1>2, <1>3, <1>4

LEMMA BeginShortStep ==
  ASSUME TypeInv, Doing, BeginShort
  PROVE  Doing' /\ Documented'
<1> DEFINE k == cmds_idx
           sub == SubSeq(cmds, 1, k)
<1>1. /\ status = "parsing" /\ idx = 0 /\ idx' = 1 /\ More /\ IsOption(Arg) /\ ~ IsLong(Arg)
      /\ str' = Tail(Arg) /\ UNCHANGED <<options, cmds, env, args, cmds_idx, status>>
  BY DEF BeginShort, Parsing
<1>2. /\ options \in Seq(Option) /\ cmds \in Seq(String) /\ k \in 1 .. Len(cmds)
      /\ Arg \in String /\ Arg # << >> /\ Arg = cmds[k] /\ Len(Arg) \in Nat /\ Arg' = Arg
  BY <1>1, CalledFacts, ArgIs DEF TypeInv, IsOption, Arg
<1>3. SettingsAt(options, cmds, k) =
        IF Len(Arg) = 1 THEN <<Fail>> ELSE Letters(options, cmds, k, 2)
  BY <1>1, <1>2 DEF SettingsAt, ShortSettings
<1>4. Now = Pending(options, cmds, k, 1)
  <2>1. Now = SettingsAt(options, cmds, k) \o From(options, cmds, NextArg(options, cmds, k))
    BY <1>1, <1>2, PendingStart DEF Now
  <2>2. 1 + 1 = 2 /\ 1 # 0
    OBVIOUS
  <2> QED BY <1>2, <1>3, <2>1, <2>2 DEF Pending
<1>5. \E d : Progress(options, cmds, args, k, 1, d)
  <2>1. PICK d : Progress(options, cmds, args, k, idx, d)
    BY <1>1 DEF Doing
  <2> QED BY <1>4, <2>1 DEF Progress, Now
<1>6. ASSUME Len(Arg) # 1
      PROVE  /\ 1 \in 1 .. Len(str')
             /\ TakesFollowing(options, cmds, k) <=> k < Len(cmds) /\ ~ Same(options, cmds, k, 2)
  <2>1. Len(str') = Len(Arg) - 1 /\ Len(Arg) # 0
    BY <1>1, <1>2, TailIs
  <2>2. sub[k] = cmds[k]
    BY <1>2, CutLine
  <2>3. SettingsAt(options, sub, k) = Letters(options, sub, k, 2)
    BY <1>1, <1>2, <1>6, <2>2 DEF SettingsAt, ShortSettings
  <2> HIDE DEF sub
  <2>4. Same(options, cmds, k, 2) <=>
          SettingsAt(options, cmds, k) = SettingsAt(options, sub, k)
    BY <1>3, <1>6, <2>3 DEF Same, sub
  <2>5. TakesFollowing(options, cmds, k) <=>
          k < Len(cmds) /\ SettingsAt(options, cmds, k) # SettingsAt(options, sub, k)
    BY <1>1, <1>2 DEF TakesFollowing, sub
  <2>6. 1 \in 1 .. Len(str')
    <3> DEFINE n == Len(Arg)
    <3>1. n \in Nat /\ n # 0 /\ n # 1 /\ Len(str') = n - 1
      BY <1>2, <1>6, <2>1
    <3> HIDE DEF n
    <3> QED BY <3>1
  <2> QED BY <2>4, <2>5, <2>6
<1>7. 1 + 1 = 2
  OBVIOUS
<1>8. Doing'
  BY <1>1, <1>2, <1>5, <1>6, <1>7 DEF Doing
<1> QED BY <1>1, <1>8 DEF Documented

(* A letter, and others behind it. *)
LEMMA SwitchStep ==
  ASSUME TypeInv, Doing, ShortSwitch
  PROVE  Doing' /\ Documented'
<1> DEFINE k == cmds_idx
           o == ShortItem
<1>1. /\ AtLetter /\ status = "parsing" /\ o # 0 /\ ~ args[o].cb /\ "ARGS" \notin args[o].type
      /\ idx <= Len(str) /\ Char(idx + 1) # NUL /\ SetSeen(o) /\ idx' = idx + 1
      /\ UNCHANGED <<options, cmds, str, cmds_idx, status>>
  BY DEF ShortSwitch, ShortIsSwitch, ShortOption, AtLetter, Parsing
<1>2. Len(Arg) # 1
  <2>1. Len(Arg) = 1 => idx > Len(str)
    BY <1>1, DashFound
  <2>2. Len(str) \in Nat /\ idx \in Nat
    <3>1. str \in String /\ idx \in 0 .. Len(str) + 1
      BY DEF TypeInv, TypeOK
    <3> QED BY <3>1, LenProperties DEF String
  <2> QED BY <1>1, <2>1, <2>2
<1>3. /\ idx \in 1 .. Len(str) /\ o \in 1 .. Len(options)
      /\ Now = <<Switch(o)>> \o Pending(options, cmds, k, idx + 1)
      /\ Pending(options, cmds, k, idx + 1) \in Seq(Setting)
      /\ TakesFollowing(options, cmds, k) <=> k < Len(cmds) /\ ~ Same(options, cmds, k, idx + 2)
  BY <1>1, <1>2, LetterFound
<1>4. PICK d : Progress(options, cmds, args, k, idx, d)
  BY <1>1 DEF Doing
<1>5. Progress(options, cmds, args', k, idx', d \o <<Switch(o)>>)
  <2> DEFINE n == idx + 1
  <2>1. /\ options \in Seq(Option) /\ cmds \in Seq(String) /\ StandFor(args, options)
        /\ Pending(options, cmds, k, n) \in Seq(Setting)
        /\ Pending(options, cmds, k, idx) = <<Switch(o)>> \o Pending(options, cmds, k, n)
    BY <1>3, CalledFacts DEF TypeInv, Now
  <2> HIDE DEF n, o
  <2>2. Progress(options, cmds, [args EXCEPT ![o] = Seen(args[o])], k, n, d \o <<Switch(o)>>)
    BY <1>3, <1>4, <2>1, ProgressMade
  <2> QED BY <1>1, <2>2 DEF n, SetSeen
<1>6. idx' \in 1 .. Len(str) /\ idx' + 1 = idx + 2
  <2>1. Len(str) \in Nat /\ idx + 1 <= Len(str)
    <3>1. str \in String
      BY DEF TypeInv, TypeOK
    <3> QED BY <1>1, <1>3, <3>1, LenProperties DEF String, Char
  <2> QED BY <1>1, <1>3, <2>1
<1> HIDE DEF o
<1>7. TakesFollowing(options, cmds, k) <=> k < Len(cmds) /\ ~ Same(options, cmds, k, idx' + 1)
  BY <1>3, <1>6
<1>8. Doing'
  BY <1>1, <1>5, <1>6, <1>7 DEF Doing
<1> QED BY <1>1, <1>8 DEF Documented

LEMMA ShortStep ==
  ASSUME TypeInv, Doing,
         \/ ShortUnknown \/ ShortCallback \/ ShortPastEnd \/ ShortValue
         \/ ShortNextArg \/ ShortMissingArg \/ ShortLastSwitch
  PROVE  Doing' /\ Documented'
<1> DEFINE r == From(options, cmds, NextArg(options, cmds, cmds_idx))
           text == IF Char(idx + 1) = "=" /\ Char(idx + 2) # NUL
                   THEN Rest(str, idx + 2) ELSE Rest(str, idx + 1)
<1>1. AtLetter /\ Parsing /\ status = "parsing" /\ idx' = 0
  BY DEF ShortUnknown, ShortCallback, ShortPastEnd, ShortValue, ShortNextArg,
         ShortMissingArg, ShortLastSwitch, ShortTakesArg, ShortIsSwitch, ShortOption,
         AtLetter, Parsing, EndShort
<1>2. /\ More /\ cmds_idx \in 1 .. Len(cmds) /\ Len(cmds) \in Nat
      /\ cmds_idx < Len(cmds) => cmds[cmds_idx + 1] \in String
      /\ text \in String /\ Len(str) \in Nat /\ idx \in Nat
  <2>1. More /\ str \in String /\ idx \in 0 .. Len(str) + 1
    BY <1>1 DEF TypeInv, TypeOK, InShort, AtLetter
  <2>2. Len(str) \in Nat
    BY <2>1, LenProperties DEF String
  <2> QED BY <2>1, <2>2, ArgIs, CalledFacts, GivenStrings DEF TypeInv
<1>3. \A n \in {1, 2} : Consume(n) /\ cmds_idx + n <= Len(cmds) + 1 =>
        cmds_idx' = cmds_idx + n /\ cmds_idx' \in Nat \ {0}
  BY <1>2, ConsumeIs
<1>4. ShortTakesArg \/ ShortIsSwitch => Len(Arg) # 1
  <2>1. Len(Arg) = 1 => idx > Len(str)
    BY <1>1, DashFound
  <2> QED BY <1>2, <2>1 DEF ShortTakesArg, ShortIsSwitch
<1>5. Fail.kind = "failed" /\ Exit.kind = "exited"
  BY DEF Fail, Exit
<1>6. CASE ShortUnknown
  <2>1. r \in Seq(Setting) /\ Now = <<Fail>> \o r
    BY <1>1, <1>6, LetterFound, DashFound DEF ShortUnknown
  <2>2. status' = Fail.kind
    BY <1>5, <1>6 DEF ShortUnknown
  <2> QED BY <1>1, <2>1, <2>2, DoingStops
<1>7. CASE ShortCallback
  <2>1. ShortItem # 0 /\ args[ShortItem].cb /\ status' = Exit.kind
    BY <1>5, <1>7 DEF ShortCallback
  <2>2. Len(Arg) # 1
    BY <1>1, <2>1, DashFound
  <2>3. r \in Seq(Setting) /\ Now = <<Exit>> \o r
    BY <1>1, <2>1, <2>2, LetterFound
  <2> QED BY <1>1, <2>1, <2>3, DoingStops
<1>8. CASE ShortPastEnd
  <2>1. Len(Arg) = 1
    <3>1. ~ idx \in 1 .. Len(str)
      BY <1>2, <1>8 DEF ShortPastEnd
    <3> QED BY <1>1, <3>1, LetterFound
  <2>2. r \in Seq(Setting) /\ Now = <<Fail>> \o r
    BY <1>1, <2>1, DashFound
  <2>3. status' = "undefined"
    BY <1>8 DEF ShortPastEnd
  <2> QED BY <1>1, <2>2, <2>3, DoingStops
<1>9. CASE ShortValue
  <2>1. /\ ShortItem # 0 /\ ~ args[ShortItem].cb /\ "ARGS" \in args[ShortItem].type
        /\ Char(idx + 1) # NUL /\ status' = "parsing" /\ Give(ShortItem, text)
        /\ Consume(1) /\ Len(Arg) # 1
    BY <1>1, <1>4, <1>9 DEF ShortValue, ShortTakesArg, ShortOption
  <2>2. cmds_idx' = cmds_idx + 1 /\ cmds_idx' \in Nat \ {0}
    BY <1>2, <1>3, <2>1
  <2>3. ShortItem \in 1 .. Len(options) /\ Now = <<Set(ShortItem, text)>> \o Then(cmds_idx')
    BY <1>1, <2>1, <2>2, LetterFound
  <2> HIDE DEF text
  <2>4. Doing'
    BY <1>1, <1>2, <2>1, <2>2, <2>3, DoingGives
  <2> QED BY <2>1, <2>4 DEF Documented
<1>10. CASE ShortNextArg
  <2>1. /\ ShortItem # 0 /\ ~ args[ShortItem].cb /\ "ARGS" \in args[ShortItem].type
        /\ Char(idx + 1) = NUL /\ status' = "parsing" /\ cmds_idx < Len(cmds)
        /\ Give(ShortItem, cmds[cmds_idx + 1]) /\ Consume(2) /\ Len(Arg) # 1
    BY <1>1, <1>4, <1>10 DEF ShortNextArg, ShortTakesArg, ShortOption
  <2>2. cmds_idx' = cmds_idx + 2 /\ cmds_idx' \in Nat \ {0}
    BY <1>2, <1>3, <2>1
  <2>3. /\ ShortItem \in 1 .. Len(options)
        /\ Now = <<Set(ShortItem, cmds[cmds_idx + 1])>> \o Then(cmds_idx')
    BY <1>1, <2>1, <2>2, LetterFound
  <2>4. Doing'
    BY <1>1, <1>2, <2>1, <2>2, <2>3, DoingGives
  <2> QED BY <2>1, <2>4 DEF Documented
<1>11. CASE ShortLastSwitch
  <2>1. /\ ShortItem # 0 /\ ~ args[ShortItem].cb /\ "ARGS" \notin args[ShortItem].type
        /\ Char(idx + 1) = NUL /\ status' = "parsing" /\ SetSeen(ShortItem)
        /\ Consume(1) /\ Len(Arg) # 1
    BY <1>1, <1>4, <1>11 DEF ShortLastSwitch, ShortIsSwitch, ShortOption
  <2>2. cmds_idx' = cmds_idx + 1 /\ cmds_idx' \in Nat \ {0}
    BY <1>2, <1>3, <2>1
  <2>3. ShortItem \in 1 .. Len(options) /\ Now = <<Switch(ShortItem)>> \o Then(cmds_idx')
    BY <1>1, <2>1, <2>2, LetterFound
  <2>4. Doing'
    BY <1>1, <2>1, <2>2, <2>3, DoingGives
  <2> QED BY <2>1, <2>4 DEF Documented
<1>12. CASE ShortMissingArg
  <2>1. /\ ShortItem # 0 /\ ~ args[ShortItem].cb /\ "ARGS" \in args[ShortItem].type
        /\ Char(idx + 1) = NUL /\ ~ cmds_idx < Len(cmds) /\ Len(Arg) # 1
        /\ status' = "crashed"
    BY <1>1, <1>2, <1>4, <1>12 DEF ShortMissingArg, ShortTakesArg, ShortOption
  <2>2. r \in Seq(Setting) /\ Now = <<Fail>> \o r
    BY <1>1, <2>1, LetterFound
  <2> QED BY <1>1, <2>1, <2>2, DoingStops
<1> QED BY <1>6, <1>7, <1>8, <1>9, <1>10, <1>11, <1>12

(* The end: the required options are looked for. *)
LEMMA RequiredStep ==
  ASSUME TypeInv, Doing, CheckRequired
  PROVE  Doing' /\ Documented'
<1>1. /\ status = "parsing" /\ idx = 0 /\ ~ More
      /\ UNCHANGED <<options, cmds, args, cmds_idx>>
      /\ status' = IF \E o \in DOMAIN args :
                        "REQD" \in args[o].type /\ "SEEN" \notin args[o].type
                   THEN "failed" ELSE "parsed"
  BY DEF CheckRequired, Parsing
<1>2. /\ options \in Seq(Option) /\ cmds \in Seq(String) /\ DOMAIN options = 1 .. Len(options)
      /\ Len(options) \in Nat /\ Len(cmds) \in Nat /\ args \in Seq(Option)
      /\ Len(args) \in Nat /\ DOMAIN args = 1 .. Len(args) /\ Len(options) <= Len(args)
      /\ cmds_idx = Len(cmds) + 1
  <2>1. cmds_idx \in 1 .. Len(cmds) + 1 /\ Len(options) <= Len(args) /\ Len(cmds) \in Nat
    BY CalledFacts DEF TypeInv, TypeOK, StandFor
  <2> QED BY <1>1, <2>1, CalledFacts, FoundInArgs, LenProperties DEF TypeInv, More
<1>3. PICK d : Progress(options, cmds, args, cmds_idx, idx, d)
  BY <1>1 DEF Doing
<1>4. d \in Seq(Setting) /\ Goes(d) /\ Fits(args, options, d) /\ Settings(options, cmds) = d
  <2>1. Pending(options, cmds, cmds_idx, idx) = << >>
    BY <1>1, <1>2, PendingStart
  <2> QED BY <1>3, <2>1, ConcatEmptySeq DEF Progress
<1>5. ASSUME NEW o \in 1 .. Len(options)
      PROVE  /\ "REQD" \in args[o].type <=> "REQD" \in options[o].type
             /\ "SEEN" \in args[o].type <=> \E n \in 1 .. Len(d) : d[n].opt = o
             /\ o \in 1 .. Len(args)
  BY <1>2, <1>4, LookupsAgree DEF Fits
<1>6. \A o \in 1 .. Len(args) : "REQD" \in args[o].type => o \in 1 .. Len(options)
  <2>1. \A o \in Len(options) + 1 .. Len(args) : "REQD" \notin args[o].type
    BY LookupsAgree
  <2> QED BY <1>2, <2>1
<1>7. Outcome(options, d) = status'
  <2>1. Outcome(options, d) =
          IF \E o \in 1 .. Len(options) : /\ "REQD" \in options[o].type
                                          /\ ~ \E n \in 1 .. Len(d) : d[n].opt = o
          THEN "failed" ELSE "parsed"
    BY <1>2, <1>4, EndOutcome
  <2>2. (\E o \in 1 .. Len(options) : /\ "REQD" \in options[o].type
                                      /\ ~ \E n \in 1 .. Len(d) : d[n].opt = o)
          <=> \E o \in DOMAIN args : "REQD" \in args[o].type /\ "SEEN" \notin args[o].type
    BY <1>2, <1>5, <1>6
  <2> QED BY <1>1, <2>1, <2>2
<1>8. ASSUME NEW o \in DOMAIN options
      PROVE  /\ args[o].value = Strings(options, d, o)
             /\ "SEEN" \in args[o].type <=> \E n \in DOMAIN d : d[n].opt = o
  <2>1. DOMAIN d = 1 .. Len(d)
    BY <1>4, LenProperties
  <2> QED BY <1>2, <1>4, <2>1 DEF Fits
<1>9. Documented'
  BY <1>1, <1>4, <1>7, <1>8 DEF Documented
<1> QED BY <1>1, <1>9 DEF Doing

LEMMA DoingInit == Init => Doing /\ Documented
<1> SUFFICES ASSUME Init PROVE Doing /\ Documented
  OBVIOUS
<1>1. OptionsOK(options) /\ options \in Seq(Option) /\ cmds \in Seq(String)
  BY CalledFacts DEF Init, Called
<1>2. /\ args = [o \in DOMAIN options |-> AddCmdline(options[o])]
      /\ cmds_idx = 1 /\ idx = 0 /\ status = "defined"
  BY DEF Init
<1>3. Fits(args, options, << >>)
  BY <1>1, <1>2, FitsInit
<1>4. << >> \in Seq(Setting) /\ Goes(<< >>)
  BY EmptyParts DEF Goes
<1>5. Settings(options, cmds) = << >> \o Pending(options, cmds, 1, 0)
  <2>1. Pending(options, cmds, 1, 0) \in Seq(Setting)
    <3>1. 1 \in Nat \ {0}
      OBVIOUS
    <3> QED BY <1>1, <3>1, PendingStart
  <2> QED BY <1>1, <2>1, PendingStart, ConcatEmptySeq
<1>6. Progress(options, cmds, args, cmds_idx, idx, << >>)
  BY <1>2, <1>3, <1>4, <1>5 DEF Progress
<1> QED BY <1>2, <1>6 DEF Doing, Documented

LEMMA DoingStep ==
  ASSUME TypeInv, Doing, Documented, Plain, [Next]_vars
  PROVE  Doing' /\ Documented'
<1>1. CASE StoreEnvironment
  <2>0. PICK behind \in [DOMAIN env -> Behind] : args' = args \o Environment(behind)
    BY <1>1 DEF StoreEnvironment
  <2> DEFINE b == Environment(behind)
  <2>1. options \in Seq(Option) /\ StandFor(args, options) /\ b \in Seq(EnvOptions)
    BY CalledFacts, EnvironmentType DEF TypeInv
  <2>2. /\ args' = args \o b /\ status = "defined" /\ status' = "parsing"
        /\ UNCHANGED <<options, cmds, cmds_idx, idx>>
    BY <1>1, <2>0 DEF StoreEnvironment
  <2> HIDE DEF b
  <2>3. \A o \in 1 .. Len(options) : args'[o] = args[o]
    BY <2>1, <2>2, EnvironmentStandsFor
  <2>4. PICK d : Progress(options, cmds, args, cmds_idx, idx, d)
    BY <2>2 DEF Doing
  <2>5. Progress(options, cmds, args', cmds_idx, idx, d)
    BY <2>3, <2>4 DEF Progress, Fits
  <2>6. idx = 0
    BY <2>2 DEF TypeInv, InShort
  <2>7. Doing'
    BY <2>2, <2>5, <2>6 DEF Doing
  <2> QED BY <2>2, <2>7 DEF Documented
<1>2. CASE ListItem \/ ListItemUnknown
  BY <1>2, ItemStep
<1>3. CASE \/ LongUnknown \/ LongCallback \/ LongNextArg \/ LongMissingArg
           \/ LongValue \/ LongEmptyValue \/ LongSwitch
  BY <1>3, LongStep
<1>4. CASE BeginShort
  BY <1>4, BeginShortStep
<1>5. CASE \/ ShortUnknown \/ ShortCallback \/ ShortPastEnd \/ ShortValue
           \/ ShortNextArg \/ ShortMissingArg \/ ShortLastSwitch
  BY <1>5, ShortStep
<1>6. CASE ShortSwitch
  BY <1>6, SwitchStep
<1>7. CASE CheckRequired
  BY <1>7, RequiredStep
<1>8. CASE UNCHANGED vars
  BY <1>8 DEF vars, Doing, Documented, Arg
<1> QED BY <1>1, <1>2, <1>3, <1>4, <1>5, <1>6, <1>7, <1>8 DEF Next

(* The program and its command line stay as they are. *)
LEMMA PlainStays == [Next]_vars => (Plain <=> Plain')
<1> SUFFICES ASSUME [Next]_vars PROVE UNCHANGED <<options, cmds>>
  BY DEF Plain
<1> QED
  BY DEF Next, StoreEnvironment, ListItem, ListItemUnknown, LongUnknown, LongCallback,
         LongNextArg, LongMissingArg, LongValue, LongEmptyValue, LongSwitch, LongTakesArg,
         LongOption, AtLong, AtArgument, BeginShort, ShortUnknown, ShortCallback, ShortPastEnd,
         ShortValue, ShortNextArg, ShortMissingArg, ShortSwitch, ShortLastSwitch,
         ShortTakesArg, ShortIsSwitch, ShortOption, AtLetter, CheckRequired, Parsing, vars

LEMMA GrammarFollowed == Spec => [](Plain => Doing /\ Documented)
<1>1. TypeInv /\ (Plain => Doing /\ Documented) /\ [Next]_vars =>
        (Plain => Doing /\ Documented)'
  <2> SUFFICES ASSUME TypeInv, Plain => Doing /\ Documented, [Next]_vars, Plain'
               PROVE  Doing' /\ Documented'
    OBVIOUS
  <2> QED BY PlainStays, DoingStep
<1> QED BY <1>1, TypeInvInit, TypeInvStep, DoingInit, PTL DEF Spec

(* However letters, names, values and further arguments are combined, the   *)
(* outcome, the strings and the switches are those that the comments of     *)
(* cmdline.c give to the command line, as long as it gives no value to a    *)
(* long option that takes none: each turn of the loops of parse_cmdline and *)
(* parse_short_option carries out the first of the settings that are        *)
(* pending, and puts the cursor where the others begin.                     *)
THEOREM ParsingMeansTheGrammar == Spec => []ParsesAsDocumented
<1>1. (Plain => Doing /\ Documented) => ParsesAsDocumented
  BY DEF Documented, ParsesAsDocumented
<1> QED BY <1>1, GrammarFollowed, PTL

(* The program crashes, or reads behind the end of a string, only where the *)
(* comments of cmdline.c call the command line an error (parse_short_option). *)
THEOREM CorrectLinesSurvive == Spec => []OnlyErrorsKill
<1>1. (Plain => Doing /\ Documented) => OnlyErrorsKill
  BY DEF Documented, OnlyErrorsKill
<1> QED BY <1>1, GrammarFollowed, PTL
================================================================================
