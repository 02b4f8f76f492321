----------------------------- MODULE MCHashTable -----------------------------
(* Values for the constants of HashTable. *)
EXTENDS HashTable, TLC

CONSTANTS k1, k2, k3, k4, k5, k6

(* Modulo 4 the first three collide at a slot whose step is 2, which visits  *)
(* only two slots of four; modulo 8 and 16 other pairs collide.              *)
Hashes == k1 :> 2 @@ k2 :> 6 @@ k3 :> 10 @@ k4 :> 0 @@ k5 :> 8 @@ k6 :> 5

MCHash == [k \in Key |-> Hashes[k]]

(* Lookups may spend one tombstone more than there are. *)
MCFloor == -1
==============================================================================
