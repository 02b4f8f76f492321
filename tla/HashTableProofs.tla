--------------------------- MODULE HashTableProofs ---------------------------
(* What HashTable promises, for every set of keys and every hash function. *)
EXTENDS HashTable, TLAPS, FiniteSetTheorems

(* The arithmetic of a probe. *)
LEMMA ModRange ==
  ASSUME NEW a \in Nat, NEW c \in Nat \ {0}
  PROVE  a % c \in 0 .. c - 1
  OBVIOUS

(* A probe looks at a bucket of the table. *)
LEMMA ProbeInTable ==
  ASSUME NEW k \in Key, NEW c \in Nat \ {0}, NEW j \in Nat
  PROVE  Probe(k, c, j) \in 0 .. c - 1
<1>1. Home(k, c) \in 0 .. c - 1
  <2>1. Hash[k] \in Nat
    BY HashAssumption
  <2> QED BY <2>1, ModRange DEF Home
<1>2. Inc(k, c) \in Nat
  <2>1. Home(k, c) \in Nat
    BY <1>1
  <2>2. Home(k, c) % IncMask \in 0 .. IncMask - 1
    BY <2>1, CapAssumption, ModRange
  <2> QED BY <2>2, CapAssumption DEF Inc
<1>3. CASE j < c
  <2>1. Home(k, c) + j * Inc(k, c) \in Nat
    BY <1>1, <1>2
  <2>2. (Home(k, c) + j * Inc(k, c)) % c \in 0 .. c - 1
    BY <2>1, ModRange
  <2> QED BY <1>3, <2>2 DEF Probe
<1>4. CASE ~(j < c)
  <2>1. Home(k, c) + (j - c) \in Nat
    BY <1>1, <1>4
  <2>2. (Home(k, c) + (j - c)) % c \in 0 .. c - 1
    BY <2>1, ModRange
  <2> QED BY <1>4, <2>2 DEF Probe
<1> QED BY <1>3, <1>4

(* find_slot answers with a bucket of the table. *)
LEMMA FindSlotInTable ==
  ASSUME NEW t, NEW c \in Nat \ {0}, NEW k \in Key
  PROVE  FindSlot(t, c, k) \subseteq 0 .. c - 1
  BY ProbeInTable DEF FindSlot

(* A table of c buckets, all empty, is a table. *)
LEMMA EmptyTableType ==
  ASSUME NEW c \in Nat
  PROVE  EmptyTable(c) \in [0 .. c - 1 -> Node \union {NULL}]
  BY DEF EmptyTable

(* Putting a node into a bucket keeps the table a table. *)
LEMMA PlaceType ==
  ASSUME TypeOK, NEW slot \in 0 .. cap - 1, NEW n \in Node, Place(slot, n)
  PROVE  /\ table' \in [0 .. cap - 1 -> Node \union {NULL}]
         /\ count' \in Int
  BY DEF TypeOK, Place

(* What an insertion does behind the load test keeps the types. *)
LEMMA StoreType ==
  ASSUME TypeOK, NEW k \in Key, NEW d \in Data, Store(k, d)
  PROVE  /\ table' \in [0 .. cap - 1 -> Node \union {NULL}]
         /\ count' \in Int
         /\ tombstones' \in Int
         /\ ret' \in [code : {0, 1}, data : Data \union {NULL}]
<1>1. PICK slot \in FindSlot(table, cap, k) :
        /\ SpendTombstone(slot)
        /\ \/ /\ IsLive(table[slot])
              /\ ret' = Answer(0, NULL)
              /\ UNCHANGED <<table, count>>
           \/ /\ ~IsLive(table[slot])
              /\ Place(slot, [key |-> k, data |-> d])
              /\ ret' = Answer(1, NULL)
  BY DEF Store
<1>2. slot \in 0 .. cap - 1
  BY FindSlotInTable DEF TypeOK
<1>3. tombstones' \in Int
  BY <1>1 DEF SpendTombstone, TypeOK
<1>4. ret' \in [code : {0, 1}, data : Data \union {NULL}]
  BY <1>1 DEF Answer
<1>5. [key |-> k, data |-> d] \in Node
  BY DEF Node
<1> QED BY <1>1, <1>2, <1>3, <1>4, <1>5, PlaceType DEF TypeOK

(* A new table has the types. *)
LEMMA TypeInitially == Init => TypeOK
<1>1. InitCap \in Nat /\ InitCap >= 4
  BY CapAssumption
<1>2. EmptyTable(InitCap) \in [0 .. InitCap - 1 -> Node \union {NULL}]
  BY <1>1, EmptyTableType
<1>3. EmptyTable(0) \in [0 .. 0 - 1 -> Node \union {NULL}]
  BY EmptyTableType
<1> QED BY <1>1, <1>2, <1>3 DEF Init, TypeOK, Answer

(* Every step keeps the types. *)
LEMMA TypeStep ==
  ASSUME TypeOK, [Next]_vars
  PROVE  TypeOK'
<1>1. CASE \E k \in Key, d \in Data : Insert(k, d)
  BY <1>1, StoreType DEF Insert, TypeOK
<1>2. CASE \E k \in Key, d \in Data : BeginRehash(k, d)
  <2>1. PICK k \in Key, d \in Data : BeginRehash(k, d)
    BY <1>2
  <2>2. cap' \in Nat /\ cap' >= 4 /\ cap' = 2 * cap
    BY <2>1 DEF BeginRehash, TypeOK
  <2>3. table' \in [0 .. cap' - 1 -> Node \union {NULL}]
    BY <2>1, <2>2, EmptyTableType DEF BeginRehash
  <2>4. pending' \in Call /\ pending' # NULL
    BY <2>1, NullAssumption DEF BeginRehash, Call
  <2> QED BY <2>1, <2>2, <2>3, <2>4 DEF BeginRehash, TypeOK
<1>3. CASE RehashBucket
  <2>1. i' \in 0 .. oldcap
    BY <1>3 DEF RehashBucket, TypeOK
  <2>2. CASE IsLive(old[i])
    <3>1. old[i] \in Node /\ old[i].key \in Key
      BY <1>3, <2>2 DEF RehashBucket, TypeOK, IsLive, Node
    <3>2. PICK slot \in FindSlot(table, cap, old[i].key) :
            SpendTombstone(slot) /\ Place(slot, old[i])
      BY <1>3, <2>2 DEF RehashBucket
    <3>3. slot \in 0 .. cap - 1
      BY <3>1, FindSlotInTable DEF TypeOK
    <3>4. tombstones' \in Int
      BY <3>2 DEF SpendTombstone, TypeOK
    <3> QED BY <1>3, <2>1, <3>1, <3>2, <3>3, <3>4, PlaceType
            DEF RehashBucket, TypeOK
  <2>3. CASE ~IsLive(old[i])
    BY <1>3, <2>1, <2>3 DEF RehashBucket, TypeOK
  <2> QED BY <2>2, <2>3
<1>4. CASE EndRehash
  <2>1. pending.key \in Key /\ pending.data \in Data
    BY <1>4 DEF EndRehash, TypeOK, Call
  <2>2. old' \in [0 .. oldcap' - 1 -> Node \union {NULL}]
    BY <1>4, EmptyTableType DEF EndRehash
  <2> QED BY <1>4, <2>1, <2>2, StoreType DEF EndRehash, TypeOK
<1>5. CASE \E k \in Key : Find(k)
  <2>1. PICK k \in Key : Find(k)
    BY <1>5
  <2>2. PICK slot \in FindSlot(table, cap, k) :
          /\ SpendTombstone(slot)
          /\ ret' = IF IsLive(table[slot]) THEN Answer(1, table[slot].data)
                                           ELSE Answer(0, NULL)
    BY <2>1 DEF Find
  <2>3. slot \in 0 .. cap - 1
    BY FindSlotInTable DEF TypeOK
  <2>4. tombstones' \in Int
    BY <2>2 DEF SpendTombstone, TypeOK
  <2>5. IsLive(table[slot]) => table[slot].data \in Data
    BY <2>3 DEF IsLive, TypeOK, Node
  <2>6. ret' \in [code : {0, 1}, data : Data \union {NULL}]
    BY <2>2, <2>5 DEF Answer
  <2> QED BY <2>1, <2>4, <2>6 DEF Find, TypeOK
<1>6. CASE \E k \in Key : NameExists(k)
  BY <1>6 DEF NameExists, SpendTombstone, TypeOK, Answer
<1>7. CASE \E k \in Key : Remove(k)
  <2>1. PICK k \in Key : Remove(k)
    BY <1>7
  <2>2. PICK slot \in FindSlot(table, cap, k) :
          \/ /\ IsLive(table[slot])
             /\ table' = [table EXCEPT ![slot].key = NULL]
             /\ count' = count - 1
             /\ tombstones' = tombstones + 1
          \/ /\ ~IsLive(table[slot])
             /\ SpendTombstone(slot)
             /\ UNCHANGED <<table, count>>
    BY <2>1 DEF Remove
  <2>3. slot \in 0 .. cap - 1
    BY FindSlotInTable DEF TypeOK
  <2>4. table' \in [0 .. cap - 1 -> Node \union {NULL}]
    <3>1. IsLive(table[slot]) => [table[slot] EXCEPT !.key = NULL] \in Node
      BY <2>3 DEF IsLive, TypeOK, Node
    <3> QED BY <2>2, <2>3, <3>1 DEF TypeOK
  <2>5. count' \in Int /\ tombstones' \in Int
    BY <2>2 DEF SpendTombstone, TypeOK
  <2> QED BY <2>1, <2>4, <2>5 DEF Remove, TypeOK, Answer
<1>8. CASE UNCHANGED vars
  BY <1>8 DEF vars, TypeOK
<1> QED BY <1>1, <1>2, <1>3, <1>4, <1>5, <1>6, <1>7, <1>8
        DEF Next, GrowOnlyNext, Rehash

(* Every call of the interface keeps the types and the shape of the tables. *)
THEOREM TypeCorrect == Spec => []TypeOK
BY TypeInitially, TypeStep, PTL DEF Spec

-------------------------------------------------------------------------------
(* The table that only grows: every key stays where find_slot looks for it. *)

(* The first probe that stops is the one find_slot answers with. *)
LEMMA FirstStop ==
  ASSUME NEW t, NEW c \in Nat \ {0}, NEW k \in Key, NEW j \in 0 .. 2 * c - 1,
         Stops(t, c, k, j), \A y \in 0 .. j - 1 : ~Stops(t, c, k, y)
  PROVE  FindSlot(t, c, k) = {Probe(k, c, j)}
<1>1. \A x \in 0 .. 2 * c - 1 :
        (Stops(t, c, k, x) /\ \A y \in 0 .. x - 1 : ~Stops(t, c, k, y)) => x = j
  <2> SUFFICES ASSUME NEW x \in 0 .. 2 * c - 1, Stops(t, c, k, x),
                      \A y \in 0 .. x - 1 : ~Stops(t, c, k, y)
               PROVE  x = j
    OBVIOUS
  <2>1. ~(x < j)
    BY SMT
  <2>2. ~(j < x)
    BY SMT
  <2> QED BY <2>1, <2>2
<1> QED BY <1>1 DEF FindSlot

(* A node put where find_slot says is found there, and the keys that were   *)
(* reachable before it still are: an empty bucket is on nobody's path.      *)
LEMMA PlaceKeepsPaths ==
  ASSUME cap \in Nat \ {0}, table \in [0 .. cap - 1 -> Node \union {NULL}],
         NEW k \in Key, NEW slot \in FindSlot(table, cap, k), table[slot] = NULL,
         NEW n \in Node, n.key = k,
         \A q \in 0 .. cap - 1 : table'[q] = IF q = slot THEN n ELSE table[q]
  PROVE  /\ FindSlot(table', cap, k) = {slot}
         /\ \A s \in 0 .. cap - 1 :
              IsLive(table[s]) /\ FindSlot(table, cap, table[s].key) = {s}
                => FindSlot(table', cap, table[s].key) = {s}
<1>1. slot \in 0 .. cap - 1 /\ n # NULL /\ k # NULL
  BY FindSlotInTable, NullAssumption
<1>2. ASSUME NEW r \in Key, NEW j \in 0 .. 2 * cap - 1, ~Stops(table, cap, r, j)
      PROVE  ~Stops(table', cap, r, j) /\ Probe(r, cap, j) # slot
  <2>1. Probe(r, cap, j) \in 0 .. cap - 1
    <3>1. j \in Nat
      OBVIOUS
    <3> QED BY <3>1, ProbeInTable
  <2>2. Probe(r, cap, j) # slot
    BY <1>2 DEF Stops
  <2> QED BY <1>2, <2>1, <2>2 DEF Stops
<1>3. FindSlot(table', cap, k) = {slot}
  <2>1. PICK j \in 0 .. 2 * cap - 1 :
          /\ slot = Probe(k, cap, j)
          /\ Stops(table, cap, k, j)
          /\ \A y \in 0 .. j - 1 : ~Stops(table, cap, k, y)
    BY DEF FindSlot
  <2>2. Stops(table', cap, k, j)
    BY <1>1, <2>1 DEF Stops
  <2>3. \A y \in 0 .. j - 1 : y \in 0 .. 2 * cap - 1
    BY <2>1
  <2>4. \A y \in 0 .. j - 1 : ~Stops(table', cap, k, y)
    BY <1>2, <2>1, <2>3
  <2> QED BY <2>1, <2>2, <2>4, FirstStop
<1>4. ASSUME NEW s \in 0 .. cap - 1, IsLive(table[s]), FindSlot(table, cap, table[s].key) = {s}
      PROVE  FindSlot(table', cap, table[s].key) = {s}
  <2>1. table[s].key \in Key
    BY <1>4 DEF IsLive, Node
  <2>2. PICK j \in 0 .. 2 * cap - 1 :
          /\ s = Probe(table[s].key, cap, j)
          /\ Stops(table, cap, table[s].key, j)
          /\ \A y \in 0 .. j - 1 : ~Stops(table, cap, table[s].key, y)
    BY <1>4 DEF FindSlot
  <2>3. s # slot
    BY <1>4 DEF IsLive
  <2>4. Stops(table', cap, table[s].key, j)
    BY <2>2, <2>3 DEF Stops
  <2>5. \A y \in 0 .. j - 1 : y \in 0 .. 2 * cap - 1
    BY <2>2
  <2>6. \A y \in 0 .. j - 1 : ~Stops(table', cap, table[s].key, y)
    BY <1>2, <2>1, <2>2, <2>5
  <2> QED BY <2>1, <2>2, <2>4, <2>6, FirstStop
<1> QED BY <1>3, <1>4

(* Without removals there are no tombstones. *)
NoTombstones ==
  /\ \A s \in Slots : ~IsTombstone(table[s])
  /\ \A s \in 0 .. oldcap - 1 : ~IsTombstone(old[s])

(* The inductive invariant of the table that only grows. *)
GrowOnlyInv == TypeOK /\ NoTombstones /\ NoDuplicateKeys /\ Reachable

(* What putting a node with a new key into its slot does to the table. *)
LEMMA PlaceStep ==
  ASSUME GrowOnlyInv, NEW k \in Key, NEW slot \in FindSlot(table, cap, k),
         ~IsLive(table[slot]), NEW n \in Node, n.key = k,
         Place(slot, n), cap' = cap
  PROVE  /\ slot \in Slots /\ table[slot] = NULL
         /\ \A s \in Slots : table'[s] = IF s = slot THEN n ELSE table[s]
         /\ LiveSlots' = LiveSlots \union {slot}
         /\ \A s \in LiveSlots : table[s].key # k
         /\ \A s \in Slots : ~IsTombstone(table'[s])
         /\ Reachable'
<1>1. slot \in Slots /\ cap \in Nat \ {0}
  BY FindSlotInTable DEF Slots, GrowOnlyInv, TypeOK
<1>2. table \in [Slots -> Node \union {NULL}]
  BY DEF GrowOnlyInv, TypeOK, Slots
<1>3. table[slot] = NULL
  BY <1>1 DEF GrowOnlyInv, NoTombstones, IsTombstone, IsLive
<1>4. IsLive(n) /\ ~IsTombstone(n)
  BY NullAssumption DEF IsLive, IsTombstone
<1>5. \A s \in Slots : table'[s] = IF s = slot THEN n ELSE table[s]
  BY <1>2 DEF Place
<1>6. LiveSlots' = LiveSlots \union {slot}
  <2>1. Slots' = Slots
    BY DEF Slots
  <2> QED BY <1>1, <1>4, <1>5, <2>1 DEF LiveSlots
<1>7. ASSUME NEW s \in LiveSlots PROVE table[s].key # k
  <2>1. s \in Slots /\ IsLive(table[s])
    BY DEF LiveSlots
  <2>2. FindSlot(table, cap, table[s].key) = {s}
    BY DEF GrowOnlyInv, Reachable
  <2> QED BY <1>3, <2>1, <2>2 DEF IsLive
<1>8. \A s \in Slots : ~IsTombstone(table'[s])
  BY <1>4, <1>5 DEF GrowOnlyInv, NoTombstones
<1>9. Reachable'
  <2>1. /\ FindSlot(table', cap, k) = {slot}
        /\ \A s \in Slots :
             IsLive(table[s]) /\ FindSlot(table, cap, table[s].key) = {s}
               => FindSlot(table', cap, table[s].key) = {s}
    <3>1. /\ cap \in Nat \ {0}
          /\ table \in [0 .. cap - 1 -> Node \union {NULL}]
          /\ \A q \in 0 .. cap - 1 : table'[q] = IF q = slot THEN n ELSE table[q]
      BY <1>1, <1>2, <1>5 DEF Slots
    <3>2. /\ FindSlot(table', cap, k) = {slot}
          /\ \A s \in 0 .. cap - 1 :
               IsLive(table[s]) /\ FindSlot(table, cap, table[s].key) = {s}
                 => FindSlot(table', cap, table[s].key) = {s}
      BY <1>3, <3>1, PlaceKeepsPaths
    <3> QED BY <3>2 DEF Slots
  <2> SUFFICES ASSUME NEW s \in LiveSlots \union {slot}
               PROVE  FindSlot(table', cap, table'[s].key) = {s}
    BY <1>6 DEF Reachable
  <2>2. CASE s = slot
    BY <1>1, <1>5, <2>1, <2>2
  <2>3. CASE s # slot
    <3>1. s \in Slots /\ IsLive(table[s])
      BY <2>3 DEF LiveSlots
    <3>2. FindSlot(table, cap, table[s].key) = {s}
      BY <2>3 DEF GrowOnlyInv, Reachable
    <3> QED BY <1>5, <2>1, <2>3, <3>1, <3>2
  <2> QED BY <2>2, <2>3
<1> QED BY <1>1, <1>3, <1>5, <1>6, <1>7, <1>8, <1>9

(* No node waits when no rehash is under way, or when its loop is over. *)
LEMMA NothingWaits ==
  ASSUME TypeOK, pending = NULL \/ i = oldcap
  PROVE  WaitingSlots = {}
<1>1. i = oldcap /\ i \in Nat
  BY DEF TypeOK
<1> QED BY <1>1 DEF WaitingSlots

(* An insertion behind the load test keeps the invariant, whether it finds  *)
(* the key or places it.                                                    *)
LEMMA StoreStep ==
  ASSUME GrowOnlyInv, NEW k \in Key, NEW d \in Data, Store(k, d), cap' = cap,
         WaitingSlots = {}, WaitingSlots' = {},
         \A s \in 0 .. oldcap' - 1 : ~IsTombstone(old'[s])
  PROVE  (NoTombstones /\ NoDuplicateKeys /\ Reachable)'
<1>1. PICK slot \in FindSlot(table, cap, k) :
        \/ /\ IsLive(table[slot])
           /\ UNCHANGED <<table, count>>
        \/ /\ ~IsLive(table[slot])
           /\ Place(slot, [key |-> k, data |-> d])
  BY DEF Store
<1>2. CASE IsLive(table[slot]) /\ UNCHANGED <<table, count>>
  BY <1>2 DEF GrowOnlyInv, NoTombstones, NoDuplicateKeys, Reachable,
              LiveSlots, Slots
<1>3. CASE ~IsLive(table[slot]) /\ Place(slot, [key |-> k, data |-> d])
  <2> DEFINE n == [key |-> k, data |-> d]
  <2>1. n \in Node /\ n.key = k
    BY DEF Node
  <2> HIDE DEF n
  <2>2. /\ slot \in Slots /\ table[slot] = NULL
        /\ \A s \in Slots : table'[s] = IF s = slot THEN n ELSE table[s]
        /\ LiveSlots' = LiveSlots \union {slot}
        /\ \A s \in LiveSlots : table[s].key # k
        /\ \A s \in Slots : ~IsTombstone(table'[s])
        /\ Reachable'
    BY <1>3, <2>1, PlaceStep DEF n
  <2>3. NoTombstones'
    BY <2>2 DEF NoTombstones, Slots
  <2>4. NoDuplicateKeys'
    BY <2>1, <2>2 DEF GrowOnlyInv, NoDuplicateKeys, LiveSlots
  <2> QED BY <2>2, <2>3, <2>4
<1> QED BY <1>1, <1>2, <1>3

(* Growing and storing keep the invariant; nothing else writes the table. *)
LEMMA GrowOnlyStep ==
  ASSUME GrowOnlyInv, [GrowOnlyNext]_vars
  PROVE  GrowOnlyInv'
<1>0. TypeOK'
  BY TypeStep DEF GrowOnlyInv, Next
<1>1. ASSUME NEW k \in Key, NEW d \in Data, Insert(k, d) PROVE GrowOnlyInv'
  <2>1. WaitingSlots = {} /\ WaitingSlots' = {}
    <3>1. WaitingSlots = {}
      BY <1>1, NothingWaits DEF Insert, GrowOnlyInv
    <3> QED BY <1>1, <3>1 DEF Insert, WaitingSlots
  <2>2. \A s \in 0 .. oldcap' - 1 : ~IsTombstone(old'[s])
    BY <1>1 DEF Insert, GrowOnlyInv, NoTombstones
  <2> QED BY <1>0, <1>1, <2>1, <2>2, StoreStep DEF Insert, GrowOnlyInv
<1>2. ASSUME NEW k \in Key, NEW d \in Data, BeginRehash(k, d) PROVE GrowOnlyInv'
  <2>1. /\ old' = table /\ oldcap' = cap /\ cap' \in Nat
        /\ table' = EmptyTable(cap') /\ i' = 0
    BY <1>2 DEF BeginRehash, GrowOnlyInv, TypeOK
  <2>2. \A s \in Slots' : table'[s] = NULL
    BY <2>1 DEF EmptyTable, Slots
  <2>3. LiveSlots' = {} /\ NoTombstones' /\ Reachable'
    BY <2>1, <2>2 DEF LiveSlots, IsLive, IsTombstone, NoTombstones, Reachable,
                      GrowOnlyInv, Slots
  <2>4. WaitingSlots' = LiveSlots
    BY <2>1 DEF WaitingSlots, LiveSlots, Slots
  <2>5. NoDuplicateKeys'
    BY <2>1, <2>3, <2>4 DEF GrowOnlyInv, NoDuplicateKeys
  <2> QED BY <1>0, <2>3, <2>5 DEF GrowOnlyInv
<1>3. ASSUME RehashBucket PROVE GrowOnlyInv'
  <2>1. /\ i \in 0 .. oldcap - 1 /\ oldcap \in Nat /\ i' = i + 1
        /\ UNCHANGED <<cap, old, oldcap>>
    BY <1>3 DEF RehashBucket, GrowOnlyInv, TypeOK
  <2>2. WaitingSlots' = WaitingSlots \ {i}
    BY <2>1 DEF WaitingSlots
  <2>3. CASE IsLive(old[i])
    <3>1. i \in WaitingSlots /\ old[i] \in Node /\ old[i].key \in Key
      BY <2>1, <2>3 DEF WaitingSlots, GrowOnlyInv, TypeOK, IsLive, Node
    <3>2. PICK slot \in FindSlot(table, cap, old[i].key) : Place(slot, old[i])
      BY <1>3, <2>3 DEF RehashBucket
    <3>3. ~IsLive(table[slot])
      <4> SUFFICES ASSUME IsLive(table[slot]) PROVE FALSE
        OBVIOUS
      <4>1. slot \in LiveSlots
        BY <3>1, FindSlotInTable DEF LiveSlots, Slots, GrowOnlyInv, TypeOK
      <4>2. table[slot].key = old[i].key
        BY <3>2 DEF FindSlot, Stops, IsLive
      <4> QED BY <3>1, <4>1, <4>2 DEF GrowOnlyInv, NoDuplicateKeys
    <3>4. /\ slot \in Slots
          /\ \A s \in Slots : table'[s] = IF s = slot THEN old[i] ELSE table[s]
          /\ LiveSlots' = LiveSlots \union {slot}
          /\ \A s \in LiveSlots : table[s].key # old[i].key
          /\ \A s \in Slots : ~IsTombstone(table'[s])
          /\ Reachable'
      BY <2>1, <3>1, <3>2, <3>3, PlaceStep
    <3>5. NoTombstones'
      BY <2>1, <3>4 DEF NoTombstones, GrowOnlyInv, Slots
    <3>6. /\ \A s \in LiveSlots : s \in Slots
          /\ \A u \in WaitingSlots' : old'[u] = old[u] /\ u \in WaitingSlots /\ u # i
      BY <2>1, <2>2 DEF LiveSlots
    <3>7. NoDuplicateKeys'
      <4>1. \A s, u \in LiveSlots' : table'[s].key = table'[u].key => s = u
        BY <3>4, <3>6 DEF GrowOnlyInv, NoDuplicateKeys
      <4>2. \A s, u \in WaitingSlots' : old'[s].key = old'[u].key => s = u
        BY <3>6 DEF GrowOnlyInv, NoDuplicateKeys
      <4>3. \A s \in LiveSlots', u \in WaitingSlots' : table'[s].key # old'[u].key
        BY <3>1, <3>4, <3>6 DEF GrowOnlyInv, NoDuplicateKeys
      <4> QED BY <4>1, <4>2, <4>3 DEF NoDuplicateKeys
    <3> QED BY <1>0, <3>4, <3>5, <3>7 DEF GrowOnlyInv
  <2>4. CASE ~IsLive(old[i])
    <3>1. UNCHANGED <<table, cap, old, oldcap>>
      BY <1>3, <2>4 DEF RehashBucket
    <3>2. LiveSlots' = LiveSlots
      BY <3>1 DEF LiveSlots, Slots
    <3>3. NoTombstones' /\ Reachable'
      BY <3>1, <3>2 DEF GrowOnlyInv, NoTombstones, Reachable, Slots
    <3>4. NoDuplicateKeys'
      BY <2>2, <3>1, <3>2 DEF GrowOnlyInv, NoDuplicateKeys
    <3> QED BY <1>0, <3>3, <3>4 DEF GrowOnlyInv
  <2> QED BY <2>3, <2>4
<1>4. ASSUME EndRehash PROVE GrowOnlyInv'
  <2>1. pending.key \in Key /\ pending.data \in Data
    BY <1>4 DEF EndRehash, GrowOnlyInv, TypeOK, Call
  <2>2. oldcap' = 0 /\ i' = 0 /\ cap' = cap
    BY <1>4 DEF EndRehash
  <2>3. WaitingSlots = {} /\ WaitingSlots' = {}
    BY <1>4, <2>2, NothingWaits DEF EndRehash, GrowOnlyInv, WaitingSlots
  <2>4. \A s \in 0 .. oldcap' - 1 : ~IsTombstone(old'[s])
    BY <2>2
  <2> QED BY <1>0, <1>4, <2>1, <2>2, <2>3, <2>4, StoreStep
          DEF EndRehash, GrowOnlyInv
<1>5. ASSUME UNCHANGED <<table, cap, old, oldcap, i>> PROVE GrowOnlyInv'
  BY <1>0, <1>5 DEF GrowOnlyInv, NoTombstones, NoDuplicateKeys, Reachable,
                    LiveSlots, WaitingSlots, Slots
<1>6. ASSUME NEW k \in Key, Find(k) \/ NameExists(k) PROVE GrowOnlyInv'
  BY <1>5, <1>6 DEF Find, NameExists
<1>7. ASSUME UNCHANGED vars PROVE GrowOnlyInv'
  BY <1>5, <1>7 DEF vars
<1> QED BY <1>1, <1>2, <1>3, <1>4, <1>6, <1>7 DEF GrowOnlyNext, Rehash

(* The empty table satisfies the invariant. *)
LEMMA GrowOnlyInitially == Init => GrowOnlyInv
<1> SUFFICES ASSUME Init PROVE GrowOnlyInv
  OBVIOUS
<1>1. TypeOK
  BY TypeInitially
<1>2. \A s \in Slots : table[s] = NULL
  BY DEF Init, EmptyTable, Slots
<1>3. LiveSlots = {} /\ WaitingSlots = {}
  BY <1>1, <1>2, NothingWaits DEF Init, LiveSlots, IsLive
<1> QED BY <1>1, <1>2, <1>3
        DEF Init, GrowOnlyInv, NoTombstones, IsTombstone, NoDuplicateKeys, Reachable

(* While nothing is removed the table never holds a key twice, not even     *)
(* half-way through a growth (insert_hashtable, rehash_table).              *)
THEOREM KeysUnique == GrowOnlySpec => []NoDuplicateKeys
<1>1. GrowOnlyInv => NoDuplicateKeys
  BY DEF GrowOnlyInv
<1> QED BY <1>1, GrowOnlyInitially, GrowOnlyStep, PTL DEF GrowOnlySpec

(* While nothing is removed find_slot leads every stored key to its bucket, *)
(* for every hash function and however the table has grown.                 *)
THEOREM KeysReachable == GrowOnlySpec => []Reachable
<1>1. GrowOnlyInv => Reachable
  BY DEF GrowOnlyInv
<1> QED BY <1>1, GrowOnlyInitially, GrowOnlyStep, PTL DEF GrowOnlySpec

-------------------------------------------------------------------------------
(* The load test: whatever is inserted, removed or looked up, a bucket that *)
(* holds no node remains, and with it a place where every probe ends.       *)

(* The nodes counted, or still to be counted by a rehash, are few enough.   *)
LoadBound ==
  /\ pending = NULL => 7 * count < 4 * cap + 7
  /\ pending # NULL => 7 * (count + Cardinality(WaitingSlots)) < 4 * oldcap + 7

(* The inductive invariant of the whole interface. *)
LoadInv == TypeOK /\ CountCoversLive /\ LoadBound

(* The buckets are finitely many. *)
LEMMA SlotsFinite ==
  ASSUME TypeOK
  PROVE  /\ IsFiniteSet(LiveSlots) /\ Cardinality(LiveSlots) \in Nat
         /\ IsFiniteSet(WaitingSlots) /\ Cardinality(WaitingSlots) \in Nat
<1>1. IsFiniteSet(0 .. cap - 1) /\ IsFiniteSet(i .. oldcap - 1)
  BY FS_Interval DEF TypeOK
<1> QED BY <1>1, FS_Subset, FS_CardinalityType DEF LiveSlots, WaitingSlots, Slots

(* Writing one bucket adds at most one node. *)
LEMMA OneBucketMore ==
  ASSUME TypeOK, cap' = cap, NEW slot \in Slots,
         \A s \in Slots \ {slot} : table'[s] = table[s]
  PROVE  /\ Cardinality(LiveSlots') <= Cardinality(LiveSlots) + 1
         /\ Cardinality(LiveSlots') \in Nat
<1>1. LiveSlots' \subseteq LiveSlots \union {slot}
  BY DEF LiveSlots, Slots
<1>2. /\ IsFiniteSet(LiveSlots \union {slot})
      /\ Cardinality(LiveSlots \union {slot}) <= Cardinality(LiveSlots) + 1
      /\ Cardinality(LiveSlots \union {slot}) \in Nat
  <2>1. IsFiniteSet(LiveSlots) /\ Cardinality(LiveSlots) \in Nat
    BY SlotsFinite
  <2>2. /\ IsFiniteSet(LiveSlots \union {slot})
        /\ Cardinality(LiveSlots \union {slot}) =
             IF slot \in LiveSlots THEN Cardinality(LiveSlots)
                                   ELSE Cardinality(LiveSlots) + 1
    BY <2>1, FS_AddElement
  <2> QED BY <2>1, <2>2
<1>3. Cardinality(LiveSlots') <= Cardinality(LiveSlots \union {slot})
  BY <1>1, <1>2, FS_Subset
<1>4. Cardinality(LiveSlots') \in Nat
  BY <1>1, <1>2, FS_Subset, FS_CardinalityType
<1> QED BY <1>2, <1>3, <1>4, SlotsFinite

(* A table whose count is below its capacity has a bucket without a node.   *)
LEMMA FreeBucket ==
  ASSUME LoadInv
  PROVE  \E s \in Slots : ~IsLive(table[s])
<1> SUFFICES ASSUME LiveSlots = Slots PROVE FALSE
  BY DEF LiveSlots
<1>1. Cardinality(Slots) = cap
  <2>1. 0 \in Int /\ cap - 1 \in Int /\ 0 <= cap - 1
    BY DEF LoadInv, TypeOK
  <2> QED BY <2>1, FS_Interval DEF Slots, LoadInv, TypeOK
<1>2. count >= cap
  BY <1>1 DEF LoadInv, CountCoversLive
<1>3. CASE pending = NULL
  BY <1>2, <1>3 DEF LoadInv, LoadBound, TypeOK
<1>4. CASE pending # NULL
  BY <1>2, <1>4, SlotsFinite DEF LoadInv, LoadBound, TypeOK
<1> QED BY <1>3, <1>4

(* The second loop of find_slot, of width 1, visits every bucket. *)
LEMMA ProbeVisitsAll ==
  ASSUME NEW k \in Key, NEW c \in Nat \ {0}, NEW s \in 0 .. c - 1
  PROVE  \E j \in 0 .. 2 * c - 1 : Probe(k, c, j) = s
<1>1. Home(k, c) \in 0 .. c - 1
  <2>1. Hash[k] \in Nat
    BY HashAssumption
  <2> QED BY <2>1, ModRange DEF Home
<1>2. CASE s >= Home(k, c)
  <2> DEFINE j == c + (s - Home(k, c))
  <2>1. j \in 0 .. 2 * c - 1 /\ ~(j < c) /\ Home(k, c) + (j - c) = s
    BY <1>1, <1>2
  <2>2. s % c = s
    OBVIOUS
  <2>3. Probe(k, c, j) = s
    BY <2>1, <2>2 DEF Probe
  <2> QED BY <2>1, <2>3
<1>3. CASE s < Home(k, c)
  <2> DEFINE j == c + (s - Home(k, c) + c)
  <2>1. j \in 0 .. 2 * c - 1 /\ ~(j < c) /\ Home(k, c) + (j - c) = s + c
    BY <1>1, <1>3
  <2>2. (s + c) % c = s
    OBVIOUS
  <2>3. Probe(k, c, j) = s
    BY <2>1, <2>2 DEF Probe
  <2> QED BY <2>1, <2>3
<1> QED BY <1>1, <1>2, <1>3

(* An insertion behind the load test adds at most one to count and nodes.   *)
LEMMA StoreCounts ==
  ASSUME TypeOK, CountCoversLive, NEW k \in Key, NEW d \in Data, Store(k, d),
         cap' = cap
  PROVE  count' <= count + 1 /\ CountCoversLive'
<1>1. PICK slot \in FindSlot(table, cap, k) :
        \/ UNCHANGED <<table, count>>
        \/ ~IsLive(table[slot]) /\ Place(slot, [key |-> k, data |-> d])
  BY DEF Store
<1>2. slot \in Slots
  BY FindSlotInTable DEF TypeOK, Slots
<1>3. CASE UNCHANGED <<table, count>>
  BY <1>3 DEF CountCoversLive, LiveSlots, Slots, TypeOK
<1>4. CASE Place(slot, [key |-> k, data |-> d])
  <2>1. \A s \in Slots \ {slot} : table'[s] = table[s]
    BY <1>4 DEF Place, TypeOK, Slots
  <2>2. /\ Cardinality(LiveSlots') <= Cardinality(LiveSlots) + 1
        /\ Cardinality(LiveSlots') \in Nat
    BY <1>2, <2>1, OneBucketMore
  <2>3. Cardinality(LiveSlots) \in Nat /\ count \in Int
    BY SlotsFinite DEF TypeOK
  <2> QED BY <1>4, <2>2, <2>3 DEF Place, CountCoversLive
<1> QED BY <1>1, <1>3, <1>4

(* Every call keeps the invariant, removals included. *)
LEMMA LoadStep ==
  ASSUME LoadInv, [Next]_vars
  PROVE  LoadInv'
<1>0. TypeOK /\ TypeOK' /\ CountCoversLive
  BY TypeStep DEF LoadInv
<1>c. count \in Int /\ Cardinality(LiveSlots) \in Nat
  BY <1>0, SlotsFinite DEF TypeOK
<1>1. ASSUME NEW k \in Key, NEW d \in Data, Insert(k, d) PROVE LoadInv'
  <2>1. count' <= count + 1 /\ CountCoversLive'
    BY <1>0, <1>1, StoreCounts DEF Insert
  <2>2. 7 * count < 4 * cap /\ pending = NULL /\ pending' = NULL /\ cap' = cap
    BY <1>0, <1>1 DEF Insert, IsLoaded, TypeOK
  <2> QED BY <1>0, <2>1, <2>2 DEF LoadInv, LoadBound, TypeOK
<1>2. ASSUME NEW k \in Key, NEW d \in Data, BeginRehash(k, d) PROVE LoadInv'
  <2>1. /\ old' = table /\ oldcap' = cap /\ cap' \in Nat
        /\ table' = EmptyTable(cap') /\ i' = 0 /\ count' = 0 /\ pending = NULL
    BY <1>0, <1>2 DEF BeginRehash, TypeOK
  <2>2. pending' # NULL
    BY <1>2, NullAssumption DEF BeginRehash, Call
  <2>3. \A s \in Slots' : table'[s] = NULL
    BY <2>1 DEF EmptyTable, Slots
  <2>4. LiveSlots' = {}
    BY <2>3 DEF LiveSlots, IsLive
  <2>5. CountCoversLive'
    BY <2>1, <2>4, FS_EmptySet DEF CountCoversLive
  <2>6. WaitingSlots' = LiveSlots
    BY <2>1 DEF WaitingSlots, LiveSlots, Slots
  <2>7. LoadBound'
    BY <1>0, <2>1, <2>2, <2>6, SlotsFinite
       DEF LoadInv, LoadBound, CountCoversLive, TypeOK
  <2> QED BY <1>0, <2>5, <2>7 DEF LoadInv
<1>3. ASSUME RehashBucket PROVE LoadInv'
  <2>1. /\ i \in 0 .. oldcap - 1 /\ oldcap \in Nat /\ i' = i + 1
        /\ UNCHANGED <<cap, old, oldcap, pending>> /\ pending # NULL
    BY <1>0, <1>3 DEF RehashBucket, TypeOK
  <2>2. WaitingSlots' = WaitingSlots \ {i}
    BY <2>1 DEF WaitingSlots
  <2>3. CASE IsLive(old[i])
    <3>1. i \in WaitingSlots /\ old[i].key \in Key
      BY <1>0, <2>1, <2>3 DEF WaitingSlots, TypeOK, IsLive, Node
    <3>2. PICK slot \in FindSlot(table, cap, old[i].key) : Place(slot, old[i])
      BY <1>3, <2>3 DEF RehashBucket
    <3>3. slot \in Slots /\ \A s \in Slots \ {slot} : table'[s] = table[s]
      BY <1>0, <3>1, <3>2, FindSlotInTable DEF Place, TypeOK, Slots
    <3>4. /\ Cardinality(LiveSlots') <= Cardinality(LiveSlots) + 1
          /\ Cardinality(LiveSlots') \in Nat
      BY <1>0, <2>1, <3>3, OneBucketMore
    <3>5. count' = count + 1
      BY <3>2 DEF Place
    <3>6. Cardinality(WaitingSlots') = Cardinality(WaitingSlots) - 1
      BY <1>0, <2>2, <3>1, SlotsFinite, FS_RemoveElement
    <3>7. CountCoversLive'
      BY <1>0, <1>c, <3>4, <3>5 DEF CountCoversLive
    <3>8. LoadBound'
      BY <1>0, <2>1, <3>5, <3>6, SlotsFinite DEF LoadInv, LoadBound, TypeOK
    <3> QED BY <1>0, <3>7, <3>8 DEF LoadInv
  <2>4. CASE ~IsLive(old[i])
    <3>1. UNCHANGED <<table, count, cap>>
      BY <1>3, <2>4 DEF RehashBucket
    <3>2. WaitingSlots' = WaitingSlots
      BY <2>2, <2>4 DEF WaitingSlots
    <3>3. CountCoversLive'
      BY <1>0, <3>1 DEF CountCoversLive, LiveSlots, Slots
    <3>4. LoadBound'
      BY <2>1, <3>1, <3>2 DEF LoadInv, LoadBound
    <3> QED BY <1>0, <3>3, <3>4 DEF LoadInv
  <2> QED BY <2>3, <2>4
<1>4. ASSUME EndRehash PROVE LoadInv'
  <2>1. pending.key \in Key /\ pending.data \in Data
    BY <1>0, <1>4 DEF EndRehash, TypeOK, Call
  <2>2. count' <= count + 1 /\ CountCoversLive'
    BY <1>0, <1>4, <2>1, StoreCounts DEF EndRehash
  <2>3. WaitingSlots = {}
    BY <1>0, <1>4, NothingWaits DEF EndRehash
  <2>4. 7 * count < 4 * oldcap + 7 /\ cap = 2 * oldcap
    BY <1>0, <1>4, <2>3, FS_EmptySet DEF EndRehash, LoadInv, LoadBound, TypeOK
  <2>5. pending' = NULL /\ cap' = cap
    BY <1>4 DEF EndRehash
  <2>6. cap \in Nat /\ cap >= 4 /\ oldcap \in Nat /\ count' \in Int
    BY <1>0 DEF TypeOK
  <2>7. 7 * count' < 4 * cap + 7
    <3>1. \A x, y \in Int, o \in Nat :
            o >= 2 /\ y <= x + 1 /\ 7 * x < 4 * o + 7 => 7 * y < 4 * (2 * o) + 7
      OBVIOUS
    <3>2. count \in Int /\ count' \in Int /\ oldcap \in Nat /\ oldcap >= 2
      BY <1>c, <2>4, <2>6
    <3> QED BY <2>2, <2>4, <3>1, <3>2
  <2>8. LoadBound'
    BY <2>5, <2>7 DEF LoadBound
  <2> QED BY <1>0, <2>2, <2>8 DEF LoadInv
<1>5. ASSUME UNCHANGED <<table, cap, count, old, oldcap, i, pending>>
      PROVE  LoadInv'
  BY <1>0, <1>5 DEF LoadInv, LoadBound, CountCoversLive, LiveSlots,
                    WaitingSlots, Slots
<1>6. ASSUME NEW k \in Key, Find(k) \/ NameExists(k) PROVE LoadInv'
  BY <1>5, <1>6 DEF Find, NameExists
<1>7. ASSUME NEW k \in Key, Remove(k) PROVE LoadInv'
  <2>1. PICK slot \in FindSlot(table, cap, k) :
          \/ /\ IsLive(table[slot])
             /\ table' = [table EXCEPT ![slot].key = NULL]
             /\ count' = count - 1
          \/ UNCHANGED <<table, count>>
    BY <1>7 DEF Remove
  <2>2. slot \in Slots /\ UNCHANGED <<cap, old, oldcap, i, pending>>
    BY <1>0, <1>7, FindSlotInTable DEF Remove, TypeOK, Slots
  <2>3. CASE UNCHANGED <<table, count>>
    BY <1>5, <2>2, <2>3
  <2>4. CASE /\ IsLive(table[slot])
             /\ table' = [table EXCEPT ![slot].key = NULL]
             /\ count' = count - 1
    <3>1. table[slot] \in Node
      BY <1>0, <2>2, <2>4 DEF IsLive, TypeOK, Slots
    <3>2. /\ ~IsLive(table'[slot])
          /\ \A s \in Slots \ {slot} : table'[s] = table[s]
      BY <1>0, <2>2, <2>4, <3>1 DEF IsLive, TypeOK, Slots, Node
    <3>3. LiveSlots' = LiveSlots \ {slot} /\ slot \in LiveSlots
      BY <2>2, <2>4, <3>2 DEF LiveSlots, Slots
    <3>4. Cardinality(LiveSlots') = Cardinality(LiveSlots) - 1
      BY <1>0, <3>3, SlotsFinite, FS_RemoveElement
    <3>5. CountCoversLive'
      BY <1>0, <1>c, <2>4, <3>4 DEF CountCoversLive
    <3>6. LoadBound'
      BY <1>0, <1>7, <2>2, <2>4 DEF Remove, LoadInv, LoadBound, TypeOK
    <3> QED BY <1>0, <3>5, <3>6 DEF LoadInv
  <2> QED BY <2>1, <2>3, <2>4
<1>8. ASSUME UNCHANGED vars PROVE LoadInv'
  BY <1>5, <1>8 DEF vars
<1> QED BY <1>1, <1>2, <1>3, <1>4, <1>6, <1>7, <1>8 DEF Next, GrowOnlyNext, Rehash

(* The empty table satisfies the invariant. *)
LEMMA LoadInitially == Init => LoadInv
<1> SUFFICES ASSUME Init PROVE LoadInv
  OBVIOUS
<1>1. TypeOK
  BY TypeInitially
<1>2. \A s \in Slots : table[s] = NULL
  BY DEF Init, EmptyTable, Slots
<1>3. LiveSlots = {}
  BY <1>2 DEF LiveSlots, IsLive
<1> QED BY <1>1, <1>3, FS_EmptySet, CapAssumption
        DEF Init, LoadInv, LoadBound, CountCoversLive

(* Whatever is called, the count the load test reads is at least the number *)
(* of nodes in the table (rehash_table, insert_hashtable, remove_hashtable).*)
THEOREM CountSafe == Spec => []CountCoversLive
<1>1. LoadInv => CountCoversLive
  BY DEF LoadInv
<1> QED BY <1>1, LoadInitially, LoadStep, PTL DEF Spec

(* Whatever is called, find_slot's do ... while(true) ends for every key:   *)
(* rehash_table grows the table before its last free bucket is used, and    *)
(* the probes of width 1 come to every bucket.                              *)
THEOREM ProbesEnd == Spec => []FindSlotEnds
<1>1. LoadInv => FindSlotEnds
  <2> SUFFICES ASSUME LoadInv, NEW k \in Key
               PROVE  \E j \in 0 .. 2 * cap - 1 : Stops(table, cap, k, j)
    BY DEF FindSlotEnds
  <2>1. PICK s \in Slots : ~IsLive(table[s])
    BY FreeBucket
  <2>2. PICK j \in 0 .. 2 * cap - 1 : Probe(k, cap, j) = s
    BY ProbeVisitsAll DEF LoadInv, TypeOK, Slots
  <2> QED BY <2>1, <2>2 DEF Stops, IsLive
<1> QED BY <1>1, LoadInitially, LoadStep, PTL DEF Spec

-------------------------------------------------------------------------------
(* Growing and storing change the bindings as the dictionary does.          *)

(* What the key lookups of the invariant say of find_slot's answer. *)
LEMMA SlotOfKey ==
  ASSUME GrowOnlyInv, NEW k \in Key, NEW slot \in FindSlot(table, cap, k)
  PROVE  /\ slot \in Slots
         /\ IsLive(table[slot]) =>
              /\ slot \in LiveSlots /\ table[slot] \in Node
              /\ table[slot].key = k
         /\ ~IsLive(table[slot]) => \A s \in LiveSlots : table[s].key # k
<1>1. slot \in Slots
  BY FindSlotInTable DEF Slots, GrowOnlyInv, TypeOK
<1>2. ASSUME IsLive(table[slot])
      PROVE  slot \in LiveSlots /\ table[slot] \in Node /\ table[slot].key = k
  <2>1. table[slot].key = k
    BY <1>2 DEF FindSlot, Stops, IsLive
  <2>2. table[slot] \in Node
    BY <1>1, <1>2 DEF IsLive, GrowOnlyInv, TypeOK, Slots
  <2> QED BY <1>1, <1>2, <2>1, <2>2 DEF LiveSlots
<1>3. ASSUME ~IsLive(table[slot]), NEW s \in LiveSlots PROVE table[s].key # k
  <2>1. IsLive(table[s])
    BY DEF LiveSlots
  <2>2. FindSlot(table, cap, table[s].key) = {s}
    BY DEF GrowOnlyInv, Reachable
  <2> QED BY <1>3, <2>1, <2>2
<1> QED BY <1>1, <1>2, <1>3

(* When nothing waits, storing is the dictionary's insertion. *)
LEMMA StoreInserts ==
  ASSUME GrowOnlyInv, NEW k \in Key, NEW d \in Data, Store(k, d), cap' = cap,
         WaitingSlots = {}, WaitingSlots' = {}
  PROVE  D!Insert(k, d)
<1>1. PICK slot \in FindSlot(table, cap, k) :
        \/ /\ IsLive(table[slot])
           /\ ret' = Answer(0, NULL)
           /\ UNCHANGED <<table, count>>
        \/ /\ ~IsLive(table[slot])
           /\ Place(slot, [key |-> k, data |-> d])
           /\ ret' = Answer(1, NULL)
  BY DEF Store
<1>2. Bindings = {table[s] : s \in LiveSlots}
  BY DEF Bindings
<1>3. Bindings' = {table'[s] : s \in LiveSlots'}
  BY DEF Bindings
<1>4. CASE /\ IsLive(table[slot])
           /\ ret' = Answer(0, NULL)
           /\ UNCHANGED <<table, count>>
  <2>1. D!Bound(k)
    <3>1. slot \in LiveSlots /\ table[slot].key = k
      BY <1>4, SlotOfKey
    <3> QED BY <1>2, <3>1 DEF D!Bound
  <2>2. Bindings' = Bindings
    BY <1>2, <1>3, <1>4 DEF LiveSlots, Slots
  <2> QED BY <1>4, <2>1, <2>2 DEF D!Insert, D!Answer, Answer
<1>5. CASE /\ ~IsLive(table[slot])
           /\ Place(slot, [key |-> k, data |-> d])
           /\ ret' = Answer(1, NULL)
  <2> DEFINE n == [key |-> k, data |-> d]
  <2>1. n \in Node /\ n.key = k
    BY DEF Node
  <2> HIDE DEF n
  <2>2. /\ slot \in Slots /\ table[slot] = NULL
        /\ \A s \in Slots : table'[s] = IF s = slot THEN n ELSE table[s]
        /\ LiveSlots' = LiveSlots \union {slot}
        /\ \A s \in LiveSlots : table[s].key # k
    BY <1>5, <2>1, PlaceStep DEF n
  <2>3. ~D!Bound(k)
    BY <1>2, <2>2 DEF D!Bound
  <2>4. \A s \in LiveSlots : s \in Slots /\ s # slot
    BY <2>2, NullAssumption DEF LiveSlots, IsLive
  <2>5. Bindings' = Bindings \union {n}
    BY <1>2, <1>3, <2>2, <2>4
  <2> QED BY <1>5, <2>3, <2>5 DEF D!Insert, D!Answer, Answer, n
<1> QED BY <1>1, <1>4, <1>5

(* Every call of the growing table is the dictionary's call with the same   *)
(* arguments.                                                               *)
LEMMA CallsOfDictionary ==
  ASSUME GrowOnlyInv
  PROVE  CallsAgree
<1>1. ASSUME NEW k \in Key, NEW d \in Data, Insert(k, d) PROVE D!Insert(k, d)
  <2>1. WaitingSlots = {} /\ WaitingSlots' = {}
    <3>1. WaitingSlots = {}
      BY <1>1, NothingWaits DEF Insert, GrowOnlyInv
    <3> QED BY <1>1, <3>1 DEF Insert, WaitingSlots
  <2> QED BY <1>1, <2>1, StoreInserts DEF Insert
<1>2. ASSUME NEW k \in Key, NEW d \in Data, BeginRehash(k, d)
      PROVE  UNCHANGED <<Bindings, ret>>
  <2>1. /\ old' = table /\ oldcap' = cap /\ cap' \in Nat /\ pending = NULL
        /\ table' = EmptyTable(cap') /\ i' = 0 /\ ret' = ret
    BY <1>2 DEF BeginRehash, GrowOnlyInv, TypeOK
  <2>2. LiveSlots' = {}
    BY <2>1 DEF LiveSlots, IsLive, EmptyTable, Slots
  <2>3. WaitingSlots' = LiveSlots
    BY <2>1 DEF WaitingSlots, LiveSlots, Slots
  <2>4. WaitingSlots = {}
    BY <2>1, NothingWaits DEF GrowOnlyInv
  <2>5. Bindings = {table[s] : s \in LiveSlots}
    BY <2>4 DEF Bindings
  <2>6. Bindings' = {old'[s] : s \in LiveSlots}
    BY <2>2, <2>3 DEF Bindings
  <2> QED BY <2>1, <2>5, <2>6
<1>3. ASSUME RehashBucket PROVE UNCHANGED <<Bindings, ret>>
  <2>1. /\ i \in 0 .. oldcap - 1 /\ oldcap \in Nat /\ i' = i + 1
        /\ UNCHANGED <<cap, old, oldcap, ret>>
    BY <1>3 DEF RehashBucket, GrowOnlyInv, TypeOK
  <2>2. WaitingSlots' = WaitingSlots \ {i}
    BY <2>1 DEF WaitingSlots
  <2>3. CASE IsLive(old[i])
    <3>1. i \in WaitingSlots /\ old[i] \in Node /\ old[i].key \in Key
      BY <2>1, <2>3 DEF WaitingSlots, GrowOnlyInv, TypeOK, IsLive, Node
    <3>2. PICK slot \in FindSlot(table, cap, old[i].key) : Place(slot, old[i])
      BY <1>3, <2>3 DEF RehashBucket
    <3>3. ~IsLive(table[slot])
      BY <3>1, SlotOfKey DEF GrowOnlyInv, NoDuplicateKeys
    <3>4. /\ slot \in Slots /\ table[slot] = NULL
          /\ \A s \in Slots : table'[s] = IF s = slot THEN old[i] ELSE table[s]
          /\ LiveSlots' = LiveSlots \union {slot}
      BY <2>1, <3>1, <3>2, <3>3, PlaceStep
    <3>5. \A s \in LiveSlots : s \in Slots /\ s # slot
      BY <3>3 DEF LiveSlots
    <3>6. {table'[s] : s \in LiveSlots'} = {table[s] : s \in LiveSlots} \union {old[i]}
      BY <3>4, <3>5
    <3>7. {old'[s] : s \in WaitingSlots'} \union {old[i]} = {old[s] : s \in WaitingSlots}
      BY <2>1, <2>2, <3>1
    <3> QED BY <2>1, <3>6, <3>7 DEF Bindings
  <2>4. CASE ~IsLive(old[i])
    <3>1. UNCHANGED <<table, cap, old>> /\ WaitingSlots' = WaitingSlots
      BY <1>3, <2>2, <2>4 DEF RehashBucket, WaitingSlots
    <3> QED BY <2>1, <3>1 DEF Bindings, LiveSlots, Slots
  <2> QED BY <2>3, <2>4
<1>4. ASSUME EndRehash PROVE D!Insert(pending.key, pending.data)
  <2>1. pending.key \in Key /\ pending.data \in Data
    BY <1>4 DEF EndRehash, GrowOnlyInv, TypeOK, Call
  <2>2. oldcap' = 0 /\ i' = 0 /\ cap' = cap /\ Store(pending.key, pending.data)
    BY <1>4 DEF EndRehash
  <2>3. WaitingSlots = {} /\ WaitingSlots' = {}
    BY <1>4, <2>2, NothingWaits DEF EndRehash, GrowOnlyInv, WaitingSlots
  <2> QED BY <2>1, <2>2, <2>3, StoreInserts
<1>5. ASSUME NEW k \in Key, Find(k) \/ NameExists(k)
      PROVE  Bindings' = Bindings /\ Bindings = {table[s] : s \in LiveSlots}
  <2>1. WaitingSlots = {} /\ UNCHANGED <<table, cap, old, oldcap, i>>
    BY <1>5, NothingWaits DEF Find, NameExists, GrowOnlyInv
  <2> QED BY <2>1 DEF Bindings, LiveSlots, WaitingSlots, Slots
<1>6. ASSUME NEW k \in Key, Find(k) PROVE D!Find(k)
  <2>1. PICK s \in FindSlot(table, cap, k) :
          ret' = IF IsLive(table[s]) THEN Answer(1, table[s].data)
                                     ELSE Answer(0, NULL)
    BY <1>6 DEF Find
  <2>2. IsLive(table[s]) => table[s] \in Bindings /\ table[s].key = k
    BY <1>5, <1>6, SlotOfKey
  <2>3. ~IsLive(table[s]) => ~D!Bound(k)
    BY <1>5, <1>6, SlotOfKey DEF D!Bound
  <2> QED BY <1>5, <1>6, <2>1, <2>2, <2>3 DEF D!Find, D!Answer, Answer
<1>7. ASSUME NEW k \in Key, NameExists(k) PROVE D!NameExists(k)
  <2>1. PICK s \in FindSlot(table, cap, k) :
          ret' = Answer(IF IsLive(table[s]) THEN 1 ELSE 0, NULL)
    BY <1>7 DEF NameExists
  <2>2. IsLive(table[s]) <=> D!Bound(k)
    BY <1>5, <1>7, SlotOfKey DEF D!Bound
  <2> QED BY <1>5, <1>7, <2>1, <2>2 DEF D!NameExists, D!Answer, Answer
<1> QED BY <1>1, <1>2, <1>3, <1>4, <1>6, <1>7 DEF CallsAgree

(* Every step of the growing table is a step of the dictionary, or none. *)
LEMMA DictionaryStep ==
  ASSUME GrowOnlyInv, [GrowOnlyNext]_vars
  PROVE  [D!Next]_(D!vars)
<1>1. CallsAgree
  BY CallsOfDictionary
<1>2. ASSUME NEW k \in Key, NEW d \in Data, Insert(k, d) PROVE D!Next
  <2>1. D!Insert(k, d)
    BY <1>1, <1>2 DEF CallsAgree
  <2> QED BY <2>1 DEF D!Next
<1>3. ASSUME NEW k \in Key, NEW d \in Data, BeginRehash(k, d)
      PROVE  UNCHANGED <<Bindings, ret>>
  BY <1>1, <1>3 DEF CallsAgree
<1>4. ASSUME RehashBucket PROVE UNCHANGED <<Bindings, ret>>
  BY <1>1, <1>4 DEF CallsAgree
<1>5. ASSUME EndRehash PROVE D!Next
  <2>1. pending.key \in Key /\ pending.data \in Data
    BY <1>5 DEF EndRehash, GrowOnlyInv, TypeOK, Call
  <2>2. D!Insert(pending.key, pending.data)
    BY <1>1, <1>5 DEF CallsAgree
  <2> QED BY <2>1, <2>2 DEF D!Next
<1>6. ASSUME NEW k \in Key, Find(k) PROVE D!Next
  <2>1. D!Find(k)
    BY <1>1, <1>6 DEF CallsAgree
  <2> QED BY <2>1 DEF D!Next
<1>7. ASSUME NEW k \in Key, NameExists(k) PROVE D!Next
  <2>1. D!NameExists(k)
    BY <1>1, <1>7 DEF CallsAgree
  <2> QED BY <2>1 DEF D!Next
<1>8. ASSUME UNCHANGED vars PROVE UNCHANGED <<Bindings, ret>>
  BY <1>8 DEF vars, Bindings, LiveSlots, WaitingSlots, Slots
<1> QED BY <1>2, <1>3, <1>4, <1>5, <1>6, <1>7, <1>8
        DEF GrowOnlyNext, Rehash, D!vars

(* While nothing is removed, callers cannot tell the table from a map that  *)
(* keeps the first datum of a key: a growth changes no binding, and each    *)
(* insertion and lookup stores and answers as the same call of the map      *)
(* does.                                                                    *)
THEOREM Implements == GrowOnlySpec => ImplementsDictionary
<1>1. Init => D!Init
  <2> SUFFICES ASSUME Init PROVE D!Init
    OBVIOUS
  <2>1. TypeOK
    BY TypeInitially
  <2>2. LiveSlots = {} /\ WaitingSlots = {}
    <3>1. \A s \in Slots : table[s] = NULL
      BY DEF Init, EmptyTable, Slots
    <3> QED BY <2>1, <3>1, NothingWaits DEF Init, LiveSlots, IsLive
  <2>3. Bindings = {}
    BY <2>2 DEF Bindings
  <2> QED BY <2>3 DEF Init, D!Init, D!Answer, Answer
<1>2. GrowOnlyInv => [CallsAgree]_vars
  BY CallsOfDictionary
<1> QED BY <1>1, <1>2, GrowOnlyInitially, GrowOnlyStep, DictionaryStep, PTL
        DEF GrowOnlySpec, ImplementsDictionary, D!Spec

-------------------------------------------------------------------------------
(* While nothing is removed the count is exact.                             *)

(* A node with a new key is counted once. *)
LEMMA PlaceCounts ==
  ASSUME GrowOnlyInv, CountExact, NEW k \in Key, NEW slot \in FindSlot(table, cap, k),
         ~IsLive(table[slot]), NEW n \in Node, n.key = k, Place(slot, n), cap' = cap
  PROVE  CountExact'
<1>1. LiveSlots' = LiveSlots \union {slot}
  BY PlaceStep
<1>2. slot \notin LiveSlots
  BY DEF LiveSlots
<1>3. IsFiniteSet(LiveSlots)
  BY SlotsFinite DEF GrowOnlyInv
<1>4. Cardinality(LiveSlots') = Cardinality(LiveSlots) + 1
  BY <1>1, <1>2, <1>3, FS_AddElement
<1> QED BY <1>4 DEF Place, CountExact

(* An insertion behind the load test counts what it places. *)
LEMMA StoreExact ==
  ASSUME GrowOnlyInv, CountExact, NEW k \in Key, NEW d \in Data, Store(k, d),
         cap' = cap
  PROVE  CountExact'
<1>1. PICK slot \in FindSlot(table, cap, k) :
        \/ UNCHANGED <<table, count>>
        \/ ~IsLive(table[slot]) /\ Place(slot, [key |-> k, data |-> d])
  BY DEF Store
<1>2. CASE UNCHANGED <<table, count>>
  BY <1>2 DEF CountExact, LiveSlots, Slots
<1>3. CASE ~IsLive(table[slot]) /\ Place(slot, [key |-> k, data |-> d])
  <2> DEFINE n == [key |-> k, data |-> d]
  <2>1. n \in Node /\ n.key = k
    BY DEF Node
  <2> HIDE DEF n
  <2> QED BY <1>3, <2>1, PlaceCounts DEF n
<1> QED BY <1>1, <1>2, <1>3

(* While nothing is removed, the count the load test reads is the number of *)
(* nodes in the table, at every iteration of the rehash loop.               *)
THEOREM CountIsExact == GrowOnlySpec => []CountExact
<1>1. Init => CountExact
  <2> SUFFICES ASSUME Init PROVE CountExact
    OBVIOUS
  <2>1. \A s \in Slots : table[s] = NULL
    BY DEF Init, EmptyTable, Slots
  <2>2. LiveSlots = {}
    BY <2>1 DEF LiveSlots, IsLive
  <2> QED BY <2>2, FS_EmptySet DEF Init, CountExact
<1>2. GrowOnlyInv /\ CountExact /\ [GrowOnlyNext]_vars => CountExact'
  <2> SUFFICES ASSUME GrowOnlyInv, CountExact, [GrowOnlyNext]_vars
               PROVE  CountExact'
    OBVIOUS
  <2>1. ASSUME NEW k \in Key, NEW d \in Data, Insert(k, d) PROVE CountExact'
    BY <2>1, StoreExact DEF Insert
  <2>2. ASSUME NEW k \in Key, NEW d \in Data, BeginRehash(k, d) PROVE CountExact'
    <3>1. table' = EmptyTable(cap') /\ count' = 0
      BY <2>2 DEF BeginRehash
    <3>2. LiveSlots' = {}
      BY <3>1 DEF LiveSlots, IsLive, EmptyTable, Slots
    <3> QED BY <3>1, <3>2, FS_EmptySet DEF CountExact
  <2>3. ASSUME RehashBucket PROVE CountExact'
    <3>1. CASE IsLive(old[i])
      <4>1. /\ i \in WaitingSlots /\ old[i] \in Node /\ old[i].key \in Key
            /\ cap' = cap
        BY <2>3, <3>1 DEF RehashBucket, WaitingSlots, GrowOnlyInv, TypeOK, IsLive, Node
      <4>2. PICK slot \in FindSlot(table, cap, old[i].key) : Place(slot, old[i])
        BY <2>3, <3>1 DEF RehashBucket
      <4>3. ~IsLive(table[slot])
        BY <4>1, SlotOfKey DEF GrowOnlyInv, NoDuplicateKeys
      <4> QED BY <4>1, <4>2, <4>3, PlaceCounts
    <3>2. CASE ~IsLive(old[i])
      BY <2>3, <3>2 DEF RehashBucket, CountExact, LiveSlots, Slots
    <3> QED BY <3>1, <3>2
  <2>4. ASSUME EndRehash PROVE CountExact'
    <3>1. pending.key \in Key /\ pending.data \in Data
      BY <2>4 DEF EndRehash, GrowOnlyInv, TypeOK, Call
    <3> QED BY <2>4, <3>1, StoreExact DEF EndRehash
  <2>5. ASSUME UNCHANGED <<table, cap, count>> PROVE CountExact'
    BY <2>5 DEF CountExact, LiveSlots, Slots
  <2> QED BY <2>1, <2>2, <2>3, <2>4, <2>5
          DEF GrowOnlyNext, Rehash, Find, NameExists, vars
<1> QED BY <1>1, <1>2, GrowOnlyInitially, GrowOnlyStep, PTL DEF GrowOnlySpec

-------------------------------------------------------------------------------
(* A node is stored where the next lookup of its key ends, with tombstones  *)
(* in the table and keys stored twice, too.                                 *)

Found(s) == FindSlot(table', cap', table'[s].key) = {s}

(* A node that is put where find_slot says is found there. *)
LEMMA PlacedIsFound ==
  ASSUME TypeOK, cap' = cap, NEW n \in Node, n.key \in Key,
         NEW slot \in FindSlot(table, cap, n.key), Place(slot, n)
  PROVE  \A s \in Slots' : table'[s] # table[s] => Found(s)
<1>1. slot \in 0 .. cap - 1 /\ cap \in Nat \ {0}
  BY FindSlotInTable DEF TypeOK
<1>2. \A q \in 0 .. cap - 1 : table'[q] = IF q = slot THEN n ELSE table[q]
  BY <1>1 DEF Place, TypeOK
<1>3. PICK j \in 0 .. 2 * cap - 1 :
        /\ slot = Probe(n.key, cap, j)
        /\ Stops(table, cap, n.key, j)
        /\ \A y \in 0 .. j - 1 : ~Stops(table, cap, n.key, y)
  BY DEF FindSlot
<1>4. Stops(table', cap, n.key, j)
  BY <1>1, <1>2, <1>3 DEF Stops
<1>5. ASSUME NEW y \in 0 .. j - 1 PROVE ~Stops(table', cap, n.key, y)
  <2>1. y \in Nat
    OBVIOUS
  <2>2. Probe(n.key, cap, y) \in 0 .. cap - 1
    BY <1>1, <2>1, ProbeInTable
  <2>3. ~Stops(table, cap, n.key, y)
    BY <1>3
  <2>4. Probe(n.key, cap, y) # slot
    BY <1>3, <2>3 DEF Stops
  <2> QED BY <1>2, <2>2, <2>3, <2>4 DEF Stops
<1>6. FindSlot(table', cap, n.key) = {slot}
  BY <1>1, <1>3, <1>4, <1>5, FirstStop
<1>7. ASSUME NEW s \in Slots', table'[s] # table[s] PROVE s = slot /\ table'[s] = n
  BY <1>1, <1>2, <1>7 DEF Slots
<1> QED BY <1>6, <1>7 DEF Found

(* An insertion behind the load test. *)
LEMMA StoreIsFound ==
  ASSUME TypeOK, cap' = cap, NEW k \in Key, NEW d \in Data, Store(k, d)
  PROVE  \A s \in Slots' : table'[s] # table[s] => Found(s)
<1>1. PICK slot \in FindSlot(table, cap, k) :
        table' = table \/ Place(slot, [key |-> k, data |-> d])
  BY DEF Store
<1>2. CASE table' = table
  BY <1>2
<1>3. CASE Place(slot, [key |-> k, data |-> d])
  <2> DEFINE n == [key |-> k, data |-> d]
  <2>1. n \in Node /\ n.key = k
    BY DEF Node
  <2> QED BY <1>3, <2>1, PlacedIsFound
<1> QED BY <1>1, <1>2, <1>3

(* Whatever is called, tombstones or not: a node that a call or a turn of    *)
(* the rehash loop stores is what the next lookup of its key finds.          *)
THEOREM StoredFound == Spec => StoredIsFound
<1> DEFINE Step ==
      \A s \in Slots' : IsLive(table'[s]) /\ table'[s] # table[s] => Found(s)
<1>1. ASSUME TypeOK, [Next]_vars PROVE Step
  <2>1. CASE table' = table
    BY <2>1
  <2>2. ASSUME NEW k \in Key, NEW d \in Data, Insert(k, d) PROVE Step
    BY <1>1, <2>2, StoreIsFound DEF Insert
  <2>3. ASSUME NEW k \in Key, NEW d \in Data, BeginRehash(k, d) PROVE Step
    <3>1. \A s \in Slots' : table'[s] = NULL
      BY <2>3 DEF BeginRehash, EmptyTable, Slots
    <3> QED BY <3>1 DEF IsLive
  <2>4. CASE RehashBucket
    <3>1. CASE ~IsLive(old[i])
      BY <2>1, <2>4, <3>1 DEF RehashBucket
    <3>2. CASE IsLive(old[i])
      <4>1. old[i] \in Node /\ old[i].key \in Key /\ cap' = cap
        BY <1>1, <2>4, <3>2 DEF RehashBucket, TypeOK, IsLive, Node
      <4>2. PICK slot \in FindSlot(table, cap, old[i].key) : Place(slot, old[i])
        BY <2>4, <3>2 DEF RehashBucket
      <4> QED BY <1>1, <4>1, <4>2, PlacedIsFound
    <3> QED BY <3>1, <3>2
  <2>5. CASE EndRehash
    <3>1. pending.key \in Key /\ pending.data \in Data
      BY <1>1, <2>5 DEF EndRehash, TypeOK, Call
    <3> QED BY <1>1, <2>5, <3>1, StoreIsFound DEF EndRehash
  <2>6. ASSUME NEW k \in Key, Remove(k) PROVE Step
    <3>1. PICK slot \in FindSlot(table, cap, k) :
            \/ table' = table
            \/ IsLive(table[slot]) /\ table' = [table EXCEPT ![slot].key = NULL]
      BY <2>6 DEF Remove
    <3>2. CASE table' = [table EXCEPT ![slot].key = NULL] /\ IsLive(table[slot])
      <4>1. slot \in 0 .. cap - 1 /\ cap' = cap /\ table[slot] \in Node
        BY <1>1, <2>6, <3>2, FindSlotInTable DEF Remove, TypeOK, IsLive
      <4>2. \A s \in 0 .. cap - 1 : s # slot => table'[s] = table[s]
        BY <1>1, <3>2 DEF TypeOK
      <4>3. ~IsLive(table'[slot])
        BY <1>1, <3>2, <4>1 DEF TypeOK, IsLive, Node
      <4> QED BY <4>1, <4>2, <4>3 DEF Slots
    <3> QED BY <2>1, <3>1, <3>2
  <2>7. ASSUME NEW k \in Key, Find(k) \/ NameExists(k) PROVE Step
    BY <2>1, <2>7 DEF Find, NameExists
  <2>8. CASE UNCHANGED vars
    BY <2>1, <2>8 DEF vars
  <2> QED BY <1>1, <2>2, <2>3, <2>4, <2>5, <2>6, <2>7, <2>8 DEF Next, GrowOnlyNext, Rehash
<1>2. TypeOK /\ [Next]_vars => [Step]_vars
  BY <1>1
<1>3. TypeOK /\ [Next]_vars =>
        [\A s \in Slots' : IsLive(table'[s]) /\ table'[s] # table[s]
           => FindSlot(table', cap', table'[s].key) = {s}]_vars
  BY <1>2 DEF Found
<1> QED BY <1>3, TypeCorrect, PTL DEF Spec, StoredIsFound
=============================================================================
