------------------------------ MODULE Dictionary ------------------------------
(***************************************************************************)
(* What src/src/common/hash.c promises the programs of src/, none of which *)
(* removes a key: a set of bindings from keys to data.  An insertion never *)
(* replaces a binding, and a lookup answers with the datum of the binding  *)
(* and with NULL when there is none.                                       *)
(*                                                                         *)
(* ret is the answer of the last call: the int the C function returns, and *)
(* the pointer find_hashtable writes to its out parameter.                 *)
(***************************************************************************)
CONSTANTS
  Key,   \* the names (C strings, compared with strcmp)
  Data,  \* the pointers stored under them
  NULL   \* the null pointer

VARIABLES
  dict,  \* the set of bindings [key, data]
  ret    \* the answer of the last call [code, data]

vars == <<dict, ret>>

Binding == [key : Key, data : Data]

Answer(code, data) == [code |-> code, data |-> data]

Bound(k) == \E b \in dict : b.key = k

(* Nothing is stored and no call was made yet. *)
Init ==
  /\ dict = {}
  /\ ret = Answer(0, NULL)

(* insert_hashtable: 1 when the binding is new, 0 when the key is taken. *)
Insert(k, d) ==
  \/ /\ ~Bound(k)
     /\ dict' = dict \union {[key |-> k, data |-> d]}
     /\ ret' = Answer(1, NULL)
  \/ /\ Bound(k)
     /\ ret' = Answer(0, NULL)
     /\ UNCHANGED dict

(* find_hashtable: 1 and the datum, or 0 and NULL. *)
Find(k) ==
  /\ \/ \E b \in dict : b.key = k /\ ret' = Answer(1, b.data)
     \/ ~Bound(k) /\ ret' = Answer(0, NULL)
  /\ UNCHANGED dict

(* hash_name_exists: only whether there is a binding. *)
NameExists(k) ==
  /\ ret' = Answer(IF Bound(k) THEN 1 ELSE 0, NULL)
  /\ UNCHANGED dict

Next ==
  \E k \in Key :
    \/ \E d \in Data : Insert(k, d)
    \/ Find(k)
    \/ NameExists(k)

Spec == Init /\ [][Next]_vars
===============================================================================
