----------------------------- MODULE MCSourceStack -----------------------------
(* All pairs of short source files that may include each other. *)
EXTENDS SourceInclusion

CONSTANTS main, incl, missing

Lexemes ==
  [kind : {"word", "junk", "newline", "line", "open", "close"}, arg : {"none"}]
    \union [kind : {"include"}, arg : {main, incl, missing}]

(* Three lexemes in the file of the command line, one of them a directive   *)
(* for a file there is; up to two in the other.                             *)
Includes(m) == \E x \in DOMAIN m : m[x].arg \in {main, incl}

MCPrograms ==
  {main :> m @@ incl :> n :
     m \in {t \in [1 .. 3 -> Lexemes] : Includes(t)}, n \in BoundedSeq(Lexemes, 2)}
================================================================================
