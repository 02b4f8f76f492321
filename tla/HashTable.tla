------------------------------- MODULE HashTable -------------------------------
(***************************************************************************)
(* The open-addressing hash table of src/src/common/hash.c, the store of   *)
(* the assembler's symbol table.  A bucket is NULL, a tombstone (a node    *)
(* whose key is NULL) or a live node.                                      *)
(*                                                                         *)
(* Strings and the FNV-1a function are abstract: a key is a value and Hash *)
(* any function from keys to the naturals.  The probe sequence, the load   *)
(* test, the growth and the order of the updates are those of the code.    *)
(*                                                                         *)
(* A call is one action, except an insertion that grows the table: its     *)
(* rehash loop is one action per old bucket, so that what holds inside the *)
(* loop can be stated too.  The code is sequential: no other call starts   *)
(* while a rehash is under way.                                            *)
(***************************************************************************)
EXTENDS Integers, FiniteSets

CONSTANTS
  Key,      \* the names
  Data,     \* the pointers stored under the names
  NULL,     \* the null pointer
  Hash,     \* hash_func
  IncMask,  \* 0x0F + 1: the step of a probe is the home slot modulo IncMask
  InitCap,  \* 0x01 << 2: the capacity of a new table
  MaxCap,   \* bound of the model: no table grows beyond it
  Floor     \* bound of the model: the tombstone counter sinks no lower

ASSUME HashAssumption == Hash \in [Key -> Nat]
ASSUME CapAssumption ==
  /\ IncMask \in Nat \ {0}
  /\ InitCap \in Nat /\ InitCap >= 4
  /\ MaxCap \in Nat
  /\ Floor \in Int

Node == [key : Key \union {NULL}, data : Data]
Call == [key : Key, data : Data]

ASSUME NullAssumption == NULL \notin Key /\ NULL \notin Node /\ NULL \notin Call

VARIABLES
  table,       \* tab->table
  cap,         \* tab->cap
  count,       \* tab->count
  tombstones,  \* tab->tombstones
  old,         \* rehash_table: oldtab, empty when no rehash is under way
  oldcap,      \* rehash_table: oldcap, 0 when no rehash is under way
  i,           \* rehash_table: the index of the loop
  pending,     \* the insertion that waits for the rehash, or NULL
  ret          \* the answer of the last call

vars == <<table, cap, count, tombstones, old, oldcap, i, pending, ret>>

Answer(code, data) == [code |-> code, data |-> data]

-------------------------------------------------------------------------------
(* find_slot *)

IsLive(n) == n # NULL /\ n.key # NULL
IsTombstone(n) == n # NULL /\ n.key = NULL

(* The slot a key hashes to: hash & (cap - 1), cap being a power of two. *)
Home(k, c) == Hash[k] % c

(* The first step width; it falls back to 1 after c probes. *)
Inc(k, c) == IF Home(k, c) % IncMask = 0 THEN 1 ELSE Home(k, c) % IncMask

(* Variant: the second loop of find_slot keeps the first width. *)
ProbeOneWidth(k, c, j) == (Home(k, c) + j * Inc(k, c)) % c

(* The slot of the j-th probe: c probes of width Inc, which lead back to the *)
(* home slot, and then probes of width 1.                                    *)
Probe(k, c, j) ==
  IF j < c THEN (Home(k, c) + j * Inc(k, c)) % c
           ELSE (Home(k, c) + (j - c)) % c

(* Variant: the key itself does not end the probe. *)
StopsIfFree(t, c, k, j) ==
  LET n == t[Probe(k, c, j)] IN n = NULL \/ n.key = NULL

(* The probe ends at a NULL bucket, at a tombstone, or at the key itself. *)
Stops(t, c, k, j) ==
  LET n == t[Probe(k, c, j)] IN n = NULL \/ n.key = NULL \/ n.key = k

(* The slots find_slot can return: one, or none when the code would probe   *)
(* forever (from 2c on the probes repeat).                                  *)
FindSlot(t, c, k) ==
  {Probe(k, c, j) : j \in {x \in 0 .. 2 * c - 1 :
      Stops(t, c, k, x) /\ \A y \in 0 .. x - 1 : ~Stops(t, c, k, y)}}

(* find_slot counts a tombstone as used up, whoever its caller is, so that  *)
(* lookups alone can drive the counter below zero.                          *)
SpendTombstone(slot) ==
  IF IsTombstone(table[slot])
    THEN tombstones > Floor /\ tombstones' = tombstones - 1
    ELSE UNCHANGED tombstones

-------------------------------------------------------------------------------
(* Variant: one bucket short. *)
ShortTable(c) == [s \in 0 .. c - 2 |-> NULL]

(* A table of c empty buckets. *)
EmptyTable(c) == [s \in 0 .. c - 1 |-> NULL]

(* create_hashtable *)
Init ==
  /\ cap = InitCap
  /\ table = EmptyTable(InitCap)
  /\ count = 0
  /\ tombstones = 0
  /\ old = EmptyTable(0)
  /\ oldcap = 0
  /\ i = 0
  /\ pending = NULL
  /\ ret = Answer(0, NULL)

(* rehash_table grows the table when count * 1.75 >= cap. *)
IsLoaded == 7 * count >= 4 * cap

(* Variant: the node is not counted. *)
PlaceUncounted(slot, n) ==
  /\ table' = [table EXCEPT ![slot] = n]
  /\ UNCHANGED count

(* A node is put into a bucket and counted. *)
Place(slot, n) ==
  /\ table' = [table EXCEPT ![slot] = n]
  /\ count' = count + 1

(* Variant: an insertion passes over the tombstones. *)
StorePastTombstones(k, d) ==
  \E j \in 0 .. 2 * cap - 1 :
    LET slot == Probe(k, cap, j)
        taken(s) == table[s] # NULL /\ table[s].key # k
    IN  /\ ~taken(slot)
        /\ \A y \in 0 .. j - 1 : taken(Probe(k, cap, y))
        /\ table' = [table EXCEPT ![slot] = [key |-> k, data |-> d]]
        /\ count' = count + 1
        /\ ret' = Answer(1, NULL)
        /\ UNCHANGED tombstones

(* insert_hashtable behind its call of rehash_table. *)
Store(k, d) ==
  \E slot \in FindSlot(table, cap, k) :
    /\ SpendTombstone(slot)
    /\ \/ /\ IsLive(table[slot])
          /\ ret' = Answer(0, NULL)
          /\ UNCHANGED <<table, count>>
       \/ /\ ~IsLive(table[slot])
          /\ Place(slot, [key |-> k, data |-> d])
          /\ ret' = Answer(1, NULL)

Insert(k, d) ==
  /\ pending = NULL
  /\ ~IsLoaded
  /\ Store(k, d)
  /\ UNCHANGED <<cap, old, oldcap, i, pending>>

(* insert_hashtable on a loaded table: rehash_table up to its loop. *)
BeginRehash(k, d) ==
  /\ pending = NULL
  /\ IsLoaded
  /\ 2 * cap <= MaxCap
  /\ old' = table
  /\ oldcap' = cap
  /\ cap' = 2 * cap
  /\ table' = EmptyTable(2 * cap)
  /\ count' = 0
  /\ tombstones' = 0
  /\ i' = 0
  /\ pending' = [key |-> k, data |-> d]
  /\ UNCHANGED ret

(* Variant: the nodes keep their slots when the table grows. *)
RehashInPlace ==
  /\ pending # NULL
  /\ i < oldcap
  /\ \/ IsLive(old[i]) /\ Place(i, old[i])
     \/ ~IsLive(old[i]) /\ UNCHANGED <<table, count>>
  /\ i' = i + 1
  /\ UNCHANGED <<cap, tombstones, old, oldcap, pending, ret>>

(* One iteration of the loop of rehash_table. *)
RehashBucket ==
  /\ pending # NULL
  /\ i < oldcap
  /\ \/ /\ IsLive(old[i])
        /\ \E slot \in FindSlot(table, cap, old[i].key) :
             SpendTombstone(slot) /\ Place(slot, old[i])
     \/ /\ ~IsLive(old[i])
        /\ UNCHANGED <<table, count, tombstones>>
  /\ i' = i + 1
  /\ UNCHANGED <<cap, old, oldcap, pending, ret>>

(* The loop is over: oldtab is freed and the waiting insertion is done. *)
EndRehash ==
  /\ pending # NULL
  /\ i = oldcap
  /\ Store(pending.key, pending.data)
  /\ old' = EmptyTable(0)
  /\ oldcap' = 0
  /\ i' = 0
  /\ pending' = NULL
  /\ UNCHANGED cap

(* Variant: the lookup looks in the home slot of the key only. *)
FindAtHome(k) ==
  /\ pending = NULL
  /\ ret' = IF IsLive(table[Home(k, cap)]) THEN Answer(1, table[Home(k, cap)].data)
                                           ELSE Answer(0, NULL)
  /\ UNCHANGED <<table, cap, count, tombstones, old, oldcap, i, pending>>

(* find_hashtable *)
Find(k) ==
  /\ pending = NULL
  /\ \E slot \in FindSlot(table, cap, k) :
       /\ SpendTombstone(slot)
       /\ ret' = IF IsLive(table[slot]) THEN Answer(1, table[slot].data)
                                        ELSE Answer(0, NULL)
  /\ UNCHANGED <<table, cap, count, old, oldcap, i, pending>>

(* hash_name_exists *)
NameExists(k) ==
  /\ pending = NULL
  /\ \E slot \in FindSlot(table, cap, k) :
       /\ SpendTombstone(slot)
       /\ ret' = Answer(IF IsLive(table[slot]) THEN 1 ELSE 0, NULL)
  /\ UNCHANGED <<table, cap, count, old, oldcap, i, pending>>

(* Variant: the counters change whether or not the key is stored. *)
RemoveUnchecked(k) ==
  /\ pending = NULL
  /\ \E slot \in FindSlot(table, cap, k) :
       table' = IF IsLive(table[slot]) THEN [table EXCEPT ![slot].key = NULL] ELSE table
  /\ count' = count - 1
  /\ tombstones' = tombstones + 1
  /\ ret' = Answer(0, NULL)
  /\ UNCHANGED <<cap, old, oldcap, i, pending>>

(* remove_hashtable: the node stays in its bucket as a tombstone. *)
Remove(k) ==
  /\ pending = NULL
  /\ \E slot \in FindSlot(table, cap, k) :
       \/ /\ IsLive(table[slot])
          /\ table' = [table EXCEPT ![slot].key = NULL]
          /\ count' = count - 1
          /\ tombstones' = tombstones + 1
       \/ /\ ~IsLive(table[slot])
          /\ SpendTombstone(slot)
          /\ UNCHANGED <<table, count>>
  /\ ret' = Answer(0, NULL)
  /\ UNCHANGED <<cap, old, oldcap, i, pending>>

-------------------------------------------------------------------------------
Rehash == RehashBucket \/ EndRehash

(* The calls of the programs in src/: nothing there removes a key. *)
GrowOnlyNext ==
  \/ \E k \in Key :
       \/ \E d \in Data : Insert(k, d) \/ BeginRehash(k, d)
       \/ Find(k)
       \/ NameExists(k)
  \/ Rehash

(* The whole interface of hash.h. *)
Next == GrowOnlyNext \/ \E k \in Key : Remove(k)

GrowOnlySpec == Init /\ [][GrowOnlyNext]_vars

Spec == Init /\ [][Next]_vars

-------------------------------------------------------------------------------
(* The types of the variables, with the shape of the two tables. *)
TypeOK ==
  /\ cap \in Nat /\ cap >= 4
  /\ table \in [0 .. cap - 1 -> Node \union {NULL}]
  /\ count \in Int
  /\ tombstones \in Int
  /\ oldcap \in Nat
  /\ old \in [0 .. oldcap - 1 -> Node \union {NULL}]
  /\ i \in 0 .. oldcap
  /\ pending \in Call \union {NULL}
  /\ pending = NULL => oldcap = 0
  /\ pending # NULL => cap = 2 * oldcap
  /\ ret \in [code : {0, 1}, data : Data \union {NULL}]

Slots == 0 .. cap - 1
LiveSlots == {s \in Slots : IsLive(table[s])}
WaitingSlots == {s \in i .. oldcap - 1 : IsLive(old[s])}

(* No key is stored twice: not in two buckets of the table, and while the   *)
(* table grows not in the new and in the part of the old table the loop has *)
(* not reached (hash.c:148, "cannot store duplicate key").                  *)
NoDuplicateKeys ==
  /\ \A s, u \in LiveSlots : table[s].key = table[u].key => s = u
  /\ \A s, u \in WaitingSlots : old[s].key = old[u].key => s = u
  /\ \A s \in LiveSlots, u \in WaitingSlots : table[s].key # old[u].key

(* Every stored key is where find_slot looks for it: no bucket on its probe *)
(* path before its own ends the probe, however the path was filled.         *)
Reachable ==
  \A s \in LiveSlots : FindSlot(table, cap, table[s].key) = {s}

(* find_slot ends for every key, stored or not: its do ... while(true) loop *)
(* meets a bucket that stops it.                                            *)
FindSlotEnds ==
  \A k \in Key : \E j \in 0 .. 2 * cap - 1 : Stops(table, cap, k, j)

(* The count the load test reads is the number of nodes in the table.       *)
CountExact == count = Cardinality(LiveSlots)

(* With removals the count may be too large (a key that is stored twice is  *)
(* counted twice when the table grows), but never too small: the load test  *)
(* cannot let the table fill up.                                            *)
CountCoversLive == count >= Cardinality(LiveSlots)

(* A node that was just stored is what the next lookup of its key finds.    *)
StoredIsFound ==
  [][\A s \in Slots' :
       IsLive(table'[s]) /\ table'[s] # table[s]
         => FindSlot(table', cap', table'[s].key) = {s}]_vars

(* The bindings the table stands for: what is in the new table, and what    *)
(* the rehash loop has still to move.                                       *)
Bindings ==
  {table[s] : s \in LiveSlots} \union {old[s] : s \in WaitingSlots}

D == INSTANCE Dictionary WITH dict <- Bindings

(* What a step of each call is in the dictionary: the call of the same name *)
(* with the same arguments.  Growing is no call of its own: it changes      *)
(* neither the bindings nor the answer, and when it is over the insertion   *)
(* that waited for it takes effect.                                         *)
CallsAgree ==
  /\ \A k \in Key :
       /\ \A d \in Data : Insert(k, d) => D!Insert(k, d)
       /\ \A d \in Data : BeginRehash(k, d) => UNCHANGED <<Bindings, ret>>
       /\ Find(k) => D!Find(k)
       /\ NameExists(k) => D!NameExists(k)
  /\ RehashBucket => UNCHANGED <<Bindings, ret>>
  /\ EndRehash => D!Insert(pending.key, pending.data)

(* The table without removals implements the dictionary: an insertion       *)
(* stores its own key and datum, or answers 0 because the key is bound; a   *)
(* lookup answers with the datum bound to the key it was given, and with    *)
(* NULL only when there is none; and growing changes no binding.            *)
ImplementsDictionary == D!Spec /\ [][CallsAgree]_vars
===============================================================================
