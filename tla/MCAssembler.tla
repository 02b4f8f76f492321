------------------------------ MODULE MCAssembler ------------------------------
(* Pairs of short source files with statements on two names. *)
EXTENDS Assembler, SequencesExt

CONSTANTS main, incl, missing, a, b

Mark(kind) == [kind |-> kind, arg |-> "none"]
Words(statements) == [kind : {"word"}, arg : statements]
Includes(names) == [kind : {"include"}, arg : names]

Statements ==
  [op : {"data"}, name : {a, b}]
    \union [op : {"use", "init"}, name : {a}] \union [op : {"label"}, name : {b}]
    \union [op : {"array", "list"}, name : {b}, size : {2}]
    \union [op : {"bad"}]

Lexemes ==
  Words(Statements) \union {Mark("open"), Mark("close"), Mark("junk")}
    \union Includes({incl, missing})

(* Every pair of texts: up to three lexemes in the file of the command      *)
(* line, the first or the second a directive, and up to two in the other.   *)
MCPrograms ==
  {main :> t @@ incl :> u :
     t \in {s \in BoundedSeq(Lexemes, 3) :
              \E k \in DOMAIN s : k < 3 /\ s[k].kind = "include"},
     u \in BoundedSeq(Lexemes, 2)}
================================================================================
