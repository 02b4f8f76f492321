------------------------------- MODULE TextValue -------------------------------
(***************************************************************************)
(* What a string_t of src/src/common/string_buffer.c stands for: a text,   *)
(* which its calls change as their names say.                              *)
(***************************************************************************)
EXTENDS Integers, Sequences, FiniteSets

CONSTANTS
  Char,   \* the characters
  Pieces, \* what is appended: sequences of characters
  Space,  \* those isspace accepts
  Upper   \* toupper

VARIABLE text

Init == text = << >>

(* Characters that are no space have this one before or at, and at or behind. *)
Solid(k) == k \in DOMAIN text /\ text[k] \notin Space

(* The text without the spaces at its ends. *)
Trimmed ==
  LET inner == {k \in DOMAIN text : (\E j \in 1 .. k : Solid(j)) /\ \E j \in k .. Len(text) : Solid(j)}
      from == CHOOSE k \in inner : \A j \in inner : k <= j
  IN  IF inner = {} THEN << >> ELSE SubSeq(text, from, from + Cardinality(inner) - 1)

(* The k-th character of t that is not c is the k-th that remains. *)
Without(t, c) ==
  LET others == {p \in DOMAIN t : t[p] # c}
  IN  [k \in 1 .. Cardinality(others) |->
         t[CHOOSE p \in others : Cardinality({q \in others : q <= p}) = k]]

Join == \E t \in Pieces : text' = text \o t
Put == \E c \in Char : text' = Append(text, c)
Empty == text' = << >>
Trim == text' = Trimmed
Remove == \E c \in Char : text' = Without(Trimmed, c)
Unquote == Len(Trimmed) > 0 /\ text' = SubSeq(Trimmed, 2, Len(Trimmed) - 1)
Upcase == text' = [k \in DOMAIN text |-> Upper[text[k]]]

Next == Join \/ Put \/ Empty \/ Trim \/ Remove \/ Unquote \/ Upcase

Spec == Init /\ [][Next]_text
================================================================================
