----------------------------- MODULE TextInclusion -----------------------------
(***************************************************************************)
(* What an include directive of the assembler means: the directive is      *)
(* replaced by the text of the file it names, and the text that results is *)
(* scanned as one.  In particular a comment that a file leaves open goes   *)
(* on in the text behind the directive, and a directive in a comment is    *)
(* not a directive.                                                        *)
(*                                                                         *)
(* Texts are sequences of lexemes; see SourceStack for their kinds.        *)
(***************************************************************************)
EXTENDS Sequences

CONSTANT
  Main  \* the name on the command line

VARIABLES
  files,   \* the files on disk: a function from names to texts
  text,    \* what remains to be scanned
  cond,    \* the state of the scanner: in the text or in a comment
  out,     \* the lexemes given to the parser
  status   \* "running", "ended" or "fatal"

vars == <<files, text, cond, out, status>>

Init ==
  /\ Main \in DOMAIN files
  /\ text = files[Main]
  /\ cond = "INITIAL"
  /\ out = << >>
  /\ status = "running"

Take(kinds) ==
  /\ status = "running"
  /\ text # << >>
  /\ Head(text).kind \in kinds

InText == cond = "INITIAL"

(* A lexeme of the program. *)
Give ==
  /\ InText
  /\ Take({"word", "close"})
  /\ out' = Append(out, Head(text))
  /\ text' = Tail(text)
  /\ UNCHANGED <<files, cond, status>>

(* White space, a character that has no meaning, and what a comment says. *)
Drop ==
  /\ \/ InText /\ Take({"newline", "junk"})
     \/ cond = "LCOMMENT" /\ Take({"word", "junk", "open", "close", "line", "include"})
     \/ cond = "BCOMMENT" /\ Take({"word", "junk", "open", "newline", "line", "include"})
  /\ text' = Tail(text)
  /\ UNCHANGED <<files, cond, out, status>>

(* The marks that open and close comments. *)
Switch ==
  /\ \/ InText /\ Take({"open"}) /\ cond' = "BCOMMENT"
     \/ InText /\ Take({"line"}) /\ cond' = "LCOMMENT"
     \/ cond = "LCOMMENT" /\ Take({"newline"}) /\ cond' = "INITIAL"
     \/ cond = "BCOMMENT" /\ Take({"close"}) /\ cond' = "INITIAL"
  /\ text' = Tail(text)
  /\ UNCHANGED <<files, out, status>>

(* The directive is replaced by the text of the file. *)
Splice ==
  /\ InText
  /\ Take({"include"})
  /\ Head(text).arg \in DOMAIN files
  /\ text' = files[Head(text).arg] \o Tail(text)
  /\ out' = Append(out, Head(text))
  /\ UNCHANGED <<files, cond, status>>

(* The file cannot be opened: the directive is the last that is read. *)
GiveUp ==
  /\ InText
  /\ Take({"include"})
  /\ text' = Tail(text)
  /\ out' = Append(out, Head(text))
  /\ status' = "fatal"
  /\ UNCHANGED <<files, cond>>

End ==
  /\ status = "running"
  /\ text = << >>
  /\ status' = "ended"
  /\ UNCHANGED <<files, text, cond, out>>

Next == Give \/ Drop \/ Switch \/ Splice \/ GiveUp \/ End

Spec == Init /\ [][Next]_vars
================================================================================
