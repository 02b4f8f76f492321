------------------------------ MODULE SourceStack ------------------------------
(***************************************************************************)
(* The scanner of the assembler and its stack of source files:             *)
(* src/src/assembler/scanner.l and file_io.c, with the include rule of     *)
(* parser.y.  The include rule has no lookahead: open_file runs as soon as *)
(* the file name was scanned, so the stack is pushed between two lexemes.  *)
(*                                                                         *)
(* A text is a sequence of lexemes, records of a kind and an argument:     *)
(*   word     something the parser gets (arg says what)                    *)
(*   junk     a character no rule accepts                                  *)
(*   newline  the end of a line                                            *)
(*   line     the mark of a comment to the end of the line                 *)
(*   open     the mark that opens a block comment                          *)
(*   close    the mark that closes one; outside a comment two operators    *)
(*   include  the include directive with its literal (arg is the name)     *)
(* Literals and column numbers are abstracted away.                        *)
(***************************************************************************)
EXTENDS Integers, Sequences, FiniteSets

CONSTANTS
  Programs,  \* the contents of the source files: functions from names to texts
  Main,      \* the name on the command line
  FdLimit    \* how many files the process can have open at once

ASSUME SourceAssumption ==
  /\ \A p \in Programs : Main \in DOMAIN p
  /\ \A p \in Programs : \A f \in DOMAIN p : p[f] \in Seq({p[f][k] : k \in DOMAIN p[f]})
  /\ FdLimit \in Nat \ {0}

VARIABLES
  files,   \* the files on disk
  stack,   \* file_stack, the file that is being read first
  cond,    \* the start condition of the scanner
  fds,     \* the number of open source files
  out,     \* the lexemes given to the parser
  status   \* "running", "ended" (yyterminate) or "fatal" (FATAL)

srcvars == <<files, stack, cond, fds, out, status>>

(* A file_t: the file, the next lexeme in its buffer, and its line number. *)
Frame(f) == [file |-> f, pos |-> 1, line |-> 1]

(* run_parser opens the file of the command line before it starts. *)
Init ==
  /\ files \in Programs
  /\ stack = <<Frame(Main)>>
  /\ cond = "INITIAL"
  /\ fds = 1
  /\ out = << >>
  /\ status = "running"

Top == Head(stack)
Buffer == files[Top.file]

(* The scanner is about to match a lexeme of one of these kinds. *)
Matches(kinds) ==
  /\ status = "running"
  /\ Top.pos <= Len(Buffer)
  /\ Buffer[Top.pos].kind \in kinds

Lexeme == Buffer[Top.pos]

(* Variant: the line is counted when a comment begins or ends, too. *)
ConsumedTwice ==
  [file |-> Top.file,
   pos  |-> Top.pos + 1,
   line |-> IF Lexeme.kind \in {"newline", "close"} THEN Top.line + 1 ELSE Top.line]

(* The match is consumed; update_numbers counts the newlines in it.         *)
Consumed ==
  [file |-> Top.file,
   pos  |-> Top.pos + 1,
   line |-> IF Lexeme.kind = "newline" THEN Top.line + 1 ELSE Top.line]

Consume == stack' = <<Consumed>> \o Tail(stack)

(* A lexeme is returned to the parser. *)
Word ==
  /\ cond = "INITIAL"
  /\ Matches({"word", "close"})
  /\ out' = Append(out, Lexeme)
  /\ Consume
  /\ UNCHANGED <<files, cond, fds, status>>

(* White space, and everything in a comment that does not end it. *)
Skip ==
  /\ \/ cond = "INITIAL" /\ Matches({"newline"})
     \/ cond = "LCOMMENT" /\ Matches({"word", "junk", "line", "open", "close", "include"})
     \/ cond = "BCOMMENT" /\ Matches({"word", "junk", "line", "open", "newline", "include"})
  /\ Consume
  /\ UNCHANGED <<files, cond, fds, out, status>>

(* The last rule: the character is reported (yyerror) and passed over. *)
Junk ==
  /\ cond = "INITIAL"
  /\ Matches({"junk"})
  /\ Consume
  /\ UNCHANGED <<files, cond, fds, out, status>>

(* BEGIN: a comment starts, or ends. *)
Begin ==
  /\ \/ cond = "INITIAL" /\ Matches({"line"}) /\ cond' = "LCOMMENT"
     \/ cond = "INITIAL" /\ Matches({"open"}) /\ cond' = "BCOMMENT"
     \/ cond = "LCOMMENT" /\ Matches({"newline"}) /\ cond' = "INITIAL"
     \/ cond = "BCOMMENT" /\ Matches({"close"}) /\ cond' = "INITIAL"
  /\ Consume
  /\ UNCHANGED <<files, fds, out, status>>

(* Variant: the includer is read again from the directive. *)
OpenBeforeConsuming(f) ==
  /\ cond = "INITIAL"
  /\ Matches({"include"})
  /\ Lexeme.arg = f
  /\ f \in DOMAIN files
  /\ fds < FdLimit
  /\ fds' = fds + 1
  /\ stack' = <<Frame(f)>> \o stack
  /\ out' = Append(out, Lexeme)
  /\ UNCHANGED <<files, cond, status>>

(* Variant: the answer of fopen is not looked at. *)
OpenUnchecked(f) ==
  /\ cond = "INITIAL"
  /\ Matches({"include"})
  /\ Lexeme.arg = f
  /\ fds' = fds + 1
  /\ stack' = <<Frame(f), Consumed>> \o Tail(stack)
  /\ out' = Append(out, Lexeme)
  /\ UNCHANGED <<files, cond, status>>

(* open_file: fopen, a new buffer for the scanner, and push_file_buffer.    *)
OpenFile(f) ==
  /\ cond = "INITIAL"
  /\ Matches({"include"})
  /\ Lexeme.arg = f
  /\ f \in DOMAIN files
  /\ fds < FdLimit
  /\ fds' = fds + 1
  /\ stack' = <<Frame(f), Consumed>> \o Tail(stack)
  /\ out' = Append(out, Lexeme)
  /\ UNCHANGED <<files, cond, status>>

(* open_file when there is no such file, or none can be opened any more.    *)
OpenFails ==
  /\ cond = "INITIAL"
  /\ Matches({"include"})
  /\ Lexeme.arg \notin DOMAIN files \/ fds = FdLimit
  /\ Consume
  /\ out' = Append(out, Lexeme)
  /\ status' = "fatal"
  /\ UNCHANGED <<files, cond, fds>>

(* Variant: the rule for the end of a file holds outside of comments only. *)
EndFileInText ==
  /\ status = "running"
  /\ cond = "INITIAL"
  /\ Top.pos > Len(Buffer)
  /\ fds' = fds - 1
  /\ stack' = Tail(stack)
  /\ status' = IF Tail(stack) = << >> THEN "ended" ELSE status
  /\ UNCHANGED <<files, cond, out>>

(* Variant: the file is popped and stays open. *)
EndFileOpen ==
  /\ status = "running"
  /\ Top.pos > Len(Buffer)
  /\ stack' = Tail(stack)
  /\ status' = IF Tail(stack) = << >> THEN "ended" ELSE status
  /\ UNCHANGED <<files, cond, fds, out>>

(* Variant: a comment ends with its file. *)
EndFileAndComment ==
  /\ status = "running"
  /\ Top.pos > Len(Buffer)
  /\ fds' = fds - 1
  /\ stack' = Tail(stack)
  /\ cond' = "INITIAL"
  /\ status' = IF Tail(stack) = << >> THEN "ended" ELSE status
  /\ UNCHANGED <<files, out>>

(* The rule for the end of a file, whatever the start condition: the file   *)
(* is closed and popped, and the scanner goes on in the one below.          *)
EndFile ==
  /\ status = "running"
  /\ Top.pos > Len(Buffer)
  /\ fds' = fds - 1
  /\ stack' = Tail(stack)
  /\ status' = IF Tail(stack) = << >> THEN "ended" ELSE status
  /\ UNCHANGED <<files, cond, out>>

(* What the scanner does without giving the parser a lexeme. *)
Silent ==
  \/ Skip \/ Junk \/ Begin
  \/ (\E f \in DOMAIN files : OpenFile(f)) \/ OpenFails
  \/ EndFile

Next == Silent \/ Word

Spec == Init /\ [][Next]_srcvars

(* The parser keeps asking for lexemes. *)
FairSpec == Spec /\ WF_srcvars(Next)

-------------------------------------------------------------------------------
TypeOK ==
  /\ Main \in DOMAIN files
  /\ stack \in Seq([file : DOMAIN files, pos : Nat \ {0}, line : Nat \ {0}])
  /\ cond \in {"INITIAL", "LCOMMENT", "BCOMMENT"}
  /\ fds \in 0 .. FdLimit
  /\ status \in {"running", "ended", "fatal"}
  /\ status = "running" => stack # << >>

(* Every open file is on the stack and every file on it is open: none is    *)
(* left open by its end, none is closed while its includer needs it.        *)
FilesClosed == fds = Len(stack)

(* The line of each file on the stack, which every message of the parser    *)
(* shows, is the line of the file's next lexeme, and not one more or less   *)
(* after the files it has included (update_numbers, push_file_buffer).      *)
LinesRight ==
  \A k \in DOMAIN stack :
    LET fr == stack[k]
    IN  fr.line = 1 + Cardinality({x \in 1 .. fr.pos - 1 :
                                    files[fr.file][x].kind = "newline"})

(* Each file on the stack has read up to and with the directive that names  *)
(* the file above it: it will be resumed behind the directive.              *)
ResumeBehindDirective ==
  \A k \in 2 .. Len(stack) :
    /\ stack[k].pos > 1
    /\ LET directive == files[stack[k].file][stack[k].pos - 1]
       IN  directive.kind = "include" /\ directive.arg = stack[k - 1].file

(* The scanner stops, for files that include each other in a circle too.    *)
ScanEnds == <>(status # "running")
================================================================================
