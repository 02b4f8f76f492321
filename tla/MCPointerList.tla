----------------------------- MODULE MCPointerList -----------------------------
(* Lists of up to four pointers; two of the pointers are equal in order. *)
EXTENDS PointerList, TLC

CONSTANTS p, q, r

MCRank == p :> 0 @@ q :> 1 @@ r :> 1
================================================================================
