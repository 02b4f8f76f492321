---------------------------- MODULE AssemblerProofs ----------------------------
(* What Assembler promises, for all programs, memories and addresses; what   *)
(* the scanner it drives promises, SourceStack and SourceInclusion, for all  *)
(* contents of the source files; and what the buffers that run_parser makes  *)
(* for the machine promise, CodeBuffer and DataItem, for all widths, values, *)
(* capacities and items.                                                     *)
EXTENDS Assembler, SourceInclusion, CodeBuffer, DataItem, Induction

Frames(fs) == [file : DOMAIN fs, pos : Nat \ {0}, line : Nat \ {0}]

(* The first frame, and the others, of a stack that is not empty. *)
LEMMA StackParts ==
  ASSUME NEW S, NEW s \in Seq(S), s # << >>
  PROVE  /\ Head(s) \in S /\ Head(s) = s[1]
         /\ Tail(s) \in Seq(S) /\ Len(Tail(s)) = Len(s) - 1
         /\ \A k \in 1 .. Len(s) - 1 : Tail(s)[k] = s[k + 1]
         /\ Len(s) \in Nat \ {0}
  OBVIOUS

(* A stack with another frame in the place of its first one.               *)
LEMMA ReplaceTop ==
  ASSUME NEW S, NEW s \in Seq(S), s # << >>, NEW x \in S
  PROVE  /\ <<x>> \o Tail(s) \in Seq(S)
         /\ Len(<<x>> \o Tail(s)) = Len(s)
         /\ (<<x>> \o Tail(s))[1] = x
         /\ \A k \in 2 .. Len(s) : (<<x>> \o Tail(s))[k] = s[k]
  OBVIOUS

(* A stack with two frames in the place of its first one.                  *)
LEMMA PushOnTop ==
  ASSUME NEW S, NEW s \in Seq(S), s # << >>, NEW x \in S, NEW y \in S
  PROVE  /\ <<x, y>> \o Tail(s) \in Seq(S)
         /\ Len(<<x, y>> \o Tail(s)) = Len(s) + 1
         /\ (<<x, y>> \o Tail(s))[1] = x
         /\ (<<x, y>> \o Tail(s))[2] = y
         /\ \A k \in 3 .. Len(s) + 1 : (<<x, y>> \o Tail(s))[k] = s[k - 1]
  OBVIOUS

(* Every frame is an open file, and has passed a directive for the file     *)
(* above it.                                                                *)
StackInv == TypeOK /\ FilesClosed /\ ResumeBehindDirective

-------------------------------------------------------------------------------
(* The scanner begins with the one file of the command line. *)
LEMMA InitInv == Init => StackInv
<1> SUFFICES ASSUME Init PROVE StackInv
  OBVIOUS
<1>1. Main \in DOMAIN files
  BY SourceAssumption DEF Init
<1>2. Frame(Main) \in Frames(files)
  BY <1>1 DEF Frame, Frames
<1>3. stack \in Seq(Frames(files)) /\ Len(stack) = 1 /\ stack # << >>
  BY <1>2 DEF Init
<1>4. fds \in 0 .. FdLimit
  BY SourceAssumption DEF Init
<1>5. TypeOK
  BY <1>1, <1>3, <1>4 DEF Init, TypeOK, Frames
<1> QED
  BY <1>3, <1>5 DEF Init, StackInv, FilesClosed, ResumeBehindDirective

(* The frame of a file that goes on behind a lexeme. *)
LEMMA ConsumedFrame ==
  ASSUME TypeOK, stack # << >>
  PROVE  /\ Top \in Frames(files) /\ Top = stack[1]
         /\ Consumed \in Frames(files)
         /\ Consumed.file = Top.file /\ Consumed.pos = Top.pos + 1
<1>1. Top \in Frames(files) /\ Top = stack[1]
  BY StackParts DEF TypeOK, Frames, Top
<1>2. /\ Top.file \in DOMAIN files /\ Top.pos \in Nat \ {0}
      /\ Top.line \in Nat \ {0}
  BY <1>1 DEF Frames
<1>3. /\ Consumed.file = Top.file /\ Consumed.pos = Top.pos + 1
      /\ Consumed.line \in Nat \ {0}
  BY <1>1, <1>2 DEF Consumed, Frames
<1>4. Consumed \in Frames(files)
  BY <1>2 DEF Consumed, Frames
<1> QED
  BY <1>1, <1>3, <1>4

(* While a file is read, nothing changes below it. *)
LEMMA ConsumeInv ==
  ASSUME StackInv, status = "running", Consume, UNCHANGED <<files, fds>>,
         cond' \in {"INITIAL", "LCOMMENT", "BCOMMENT"},
         status' \in {"running", "fatal"}
  PROVE  StackInv'
<1>1. stack # << >> /\ stack \in Seq(Frames(files))
  BY DEF StackInv, TypeOK, Frames
<1>2. /\ stack' \in Seq(Frames(files))
      /\ Len(stack') = Len(stack)
      /\ stack'[1] = Consumed
      /\ \A k \in 2 .. Len(stack) : stack'[k] = stack[k]
  BY <1>1, ConsumedFrame, ReplaceTop DEF StackInv, Consume
<1>3. stack' # << >>
  BY <1>1, <1>2
<1>4. TypeOK'
  BY <1>2, <1>3 DEF StackInv, TypeOK, Frames
<1>5. FilesClosed'
  BY <1>2 DEF StackInv, FilesClosed
<1>6. stack'[1].file = stack[1].file
  BY <1>1, <1>2, ConsumedFrame DEF StackInv
<1>7. ResumeBehindDirective'
  <2> SUFFICES ASSUME NEW k \in 2 .. Len(stack)
               PROVE  /\ stack'[k].pos > 1
                      /\ files[stack'[k].file][stack'[k].pos - 1].kind = "include"
                      /\ files[stack'[k].file][stack'[k].pos - 1].arg = stack'[k - 1].file
    BY <1>2 DEF ResumeBehindDirective
  <2>1. stack'[k] = stack[k] /\ stack'[k - 1].file = stack[k - 1].file
    <3>1. CASE k = 2
      BY <1>2, <1>6, <3>1
    <3>2. CASE k # 2
      <4>1. k - 1 \in 2 .. Len(stack)
        BY <1>1, <3>2
      <4> QED BY <1>2, <4>1
    <3> QED BY <3>1, <3>2
  <2> QED BY <2>1 DEF StackInv, ResumeBehindDirective
<1> QED BY <1>4, <1>5, <1>7 DEF StackInv

(* The includer is behind the directive before the included file is read.   *)
LEMMA OpenFileInv ==
  ASSUME StackInv, NEW f \in DOMAIN files, OpenFile(f)
  PROVE  StackInv'
<1>1. /\ status = "running" /\ stack # << >> /\ stack \in Seq(Frames(files))
      /\ fds = Len(stack) /\ fds \in 0 .. FdLimit /\ fds < FdLimit
  BY DEF StackInv, TypeOK, FilesClosed, Frames, OpenFile, Matches
<1>2. Frame(f) \in Frames(files) /\ Frame(f).file = f
  BY DEF Frame, Frames
<1>3. /\ stack' \in Seq(Frames(files))
      /\ Len(stack') = Len(stack) + 1
      /\ stack'[1] = Frame(f)
      /\ stack'[2] = Consumed
      /\ \A k \in 3 .. Len(stack) + 1 : stack'[k] = stack[k - 1]
  BY <1>1, <1>2, ConsumedFrame, PushOnTop DEF StackInv, OpenFile
<1>4. stack' # << >> /\ Len(stack) \in Nat
  BY <1>1, <1>3
<1>5. fds' = fds + 1 /\ fds' \in 0 .. FdLimit
  BY <1>1, SourceAssumption DEF OpenFile
<1>6. TypeOK'
  BY <1>3, <1>4, <1>5 DEF StackInv, TypeOK, Frames, OpenFile
<1>7. FilesClosed'
  BY <1>1, <1>3, <1>5 DEF FilesClosed
<1>8. /\ Consumed.pos > 1
      /\ files[Consumed.file][Consumed.pos - 1].kind = "include"
      /\ files[Consumed.file][Consumed.pos - 1].arg = f
  <2>1. /\ Consumed.file = Top.file /\ Consumed.pos = Top.pos + 1
        /\ Top.pos \in Nat \ {0}
    BY <1>1, ConsumedFrame DEF StackInv, Frames
  <2>2. Consumed.pos - 1 = Top.pos
    BY <2>1
  <2> QED BY <2>1, <2>2 DEF OpenFile, Matches, Lexeme, Buffer
<1>9. ResumeBehindDirective'
  <2> SUFFICES ASSUME NEW k \in 2 .. Len(stack) + 1
               PROVE  /\ stack'[k].pos > 1
                      /\ files[stack'[k].file][stack'[k].pos - 1].kind = "include"
                      /\ files[stack'[k].file][stack'[k].pos - 1].arg = stack'[k - 1].file
    BY <1>3 DEF ResumeBehindDirective, OpenFile
  <2>1. CASE k = 2
    BY <1>2, <1>3, <1>8, <2>1
  <2>2. CASE k = 3
    <3>1. stack'[3] = stack[2] /\ 2 \in 2 .. Len(stack)
      BY <1>3, <1>4, <2>2
    <3>2. stack'[2].file = stack[1].file
      BY <1>1, <1>3, ConsumedFrame DEF StackInv
    <3> QED BY <2>2, <3>1, <3>2 DEF StackInv, ResumeBehindDirective
  <2>3. CASE k \notin {2, 3}
    <3>1. k - 1 \in 3 .. Len(stack) /\ k \in 3 .. Len(stack) + 1
      BY <1>4, <2>3
    <3>2. stack'[k] = stack[k - 1] /\ stack'[k - 1] = stack[k - 2]
      BY <1>3, <1>4, <3>1
    <3> QED BY <1>4, <3>1, <3>2 DEF StackInv, ResumeBehindDirective
  <2> QED BY <2>1, <2>2, <2>3
<1> QED BY <1>6, <1>7, <1>9 DEF StackInv

(* The file at the top is closed and popped; the others stay as they are.   *)
LEMMA EndFileInv ==
  ASSUME StackInv, EndFile
  PROVE  StackInv'
<1>1. /\ stack # << >> /\ stack \in Seq(Frames(files))
      /\ fds = Len(stack) /\ fds \in 0 .. FdLimit
  BY DEF StackInv, TypeOK, FilesClosed, Frames, EndFile
<1>2. /\ stack' \in Seq(Frames(files))
      /\ Len(stack') = Len(stack) - 1
      /\ \A k \in 1 .. Len(stack) - 1 : stack'[k] = stack[k + 1]
      /\ Len(stack) \in Nat \ {0}
  BY <1>1, StackParts DEF EndFile
<1>3. fds' = Len(stack') /\ fds' \in 0 .. FdLimit
  BY <1>1, <1>2, SourceAssumption DEF EndFile
<1>4. status' \in {"running", "ended"} /\ (status' = "running" => stack' # << >>)
  BY DEF EndFile
<1>5. TypeOK'
  BY <1>2, <1>3, <1>4 DEF StackInv, TypeOK, Frames, EndFile
<1>6. ResumeBehindDirective'
  <2> SUFFICES ASSUME NEW k \in 2 .. Len(stack) - 1
               PROVE  /\ stack'[k].pos > 1
                      /\ files[stack'[k].file][stack'[k].pos - 1].kind = "include"
                      /\ files[stack'[k].file][stack'[k].pos - 1].arg = stack'[k - 1].file
    BY <1>2 DEF ResumeBehindDirective, EndFile
  <2>1. k + 1 \in 2 .. Len(stack) /\ k - 1 \in 1 .. Len(stack) - 1
    BY <1>2
  <2>2. stack'[k] = stack[k + 1] /\ stack'[k - 1] = stack[k]
    BY <1>2, <2>1
  <2> QED BY <2>1, <2>2 DEF StackInv, ResumeBehindDirective
<1> QED BY <1>3, <1>5, <1>6 DEF StackInv, FilesClosed

(* Every step of the scanner keeps the invariant. *)
LEMMA StepInv == StackInv /\ [Next]_srcvars => StackInv'
<1> SUFFICES ASSUME StackInv, [Next]_srcvars PROVE StackInv'
  OBVIOUS
<1>1. CASE Word \/ Skip \/ Junk \/ Begin \/ OpenFails
  BY <1>1, ConsumeInv
  DEF Word, Skip, Junk, Begin, OpenFails, Matches, StackInv, TypeOK
<1>2. ASSUME NEW f \in DOMAIN files, OpenFile(f) PROVE StackInv'
  BY <1>2, OpenFileInv
<1>3. CASE EndFile
  BY <1>3, EndFileInv
<1>4. CASE UNCHANGED srcvars
  BY <1>4 DEF srcvars, StackInv, TypeOK, FilesClosed, ResumeBehindDirective
<1> QED BY <1>1, <1>2, <1>3, <1>4 DEF Next, Silent

(* The stack of files and the descriptors, whatever the files include.      *)
THEOREM StackCorrect == Spec => []StackInv
  BY InitInv, StepInv, PTL DEF Spec

(* The stack is made of frames of files that exist, and no more of them are *)
(* open than the process may have (push_file_buffer, pop_file_buffer).      *)
THEOREM SourceTypeCorrect == Spec => []TypeOK
<1>1. StackInv => TypeOK
  BY DEF StackInv
<1> QED BY <1>1, StackCorrect, PTL

(* Exactly the files on the stack are open (open_file, the rule for the     *)
(* end of a file).                                                          *)
THEOREM NoFileLeaks == Spec => []FilesClosed
<1>1. StackInv => FilesClosed
  BY DEF StackInv
<1> QED BY <1>1, StackCorrect, PTL

(* Every includer will be resumed behind the directive of the file above    *)
(* it, at any depth (open_file, yy_switch_to_buffer).                       *)
THEOREM ResumedRight == Spec => []ResumeBehindDirective
<1>1. StackInv => ResumeBehindDirective
  BY DEF StackInv
<1> QED BY <1>1, StackCorrect, PTL

-------------------------------------------------------------------------------
(* The places of the newlines in front of p, as LinesRight counts them. *)
Newlines(t, p) == {x \in 1 .. p - 1 : t[x].kind = "newline"}

LineRight(fr) == fr.line = 1 + Cardinality(Newlines(files[fr.file], fr.pos))

(* A newline that is passed counts, and nothing else does. *)
LEMMA NewlinesGrow ==
  ASSUME NEW t, NEW p \in Nat \ {0}
  PROVE  /\ Cardinality(Newlines(t, p)) \in Nat
         /\ Cardinality(Newlines(t, p + 1)) =
              Cardinality(Newlines(t, p)) + (IF t[p].kind = "newline" THEN 1 ELSE 0)
<1>1. IsFiniteSet(1 .. p - 1)
  BY FS_Interval
<1>2. IsFiniteSet(Newlines(t, p))
  BY <1>1, FS_Subset DEF Newlines
<1>3. Cardinality(Newlines(t, p)) \in Nat
  BY <1>2, FS_CardinalityType
<1>4. p \notin Newlines(t, p)
  BY DEF Newlines
<1>5. CASE t[p].kind = "newline"
  <2>1. Newlines(t, p + 1) = Newlines(t, p) \union {p}
    BY <1>5 DEF Newlines
  <2> QED BY <1>2, <1>3, <1>4, <1>5, <2>1, FS_AddElement
<1>6. CASE t[p].kind # "newline"
  <2>1. Newlines(t, p + 1) = Newlines(t, p)
    BY <1>6 DEF Newlines
  <2> QED BY <1>3, <1>6, <2>1
<1> QED BY <1>3, <1>5, <1>6

LEMMA NewFrameLine == \A f : LineRight(Frame(f))
<1>1. \A t : Newlines(t, 1) = {}
  BY DEF Newlines
<1> QED BY <1>1, FS_EmptySet DEF LineRight, Frame

(* The line is counted when a lexeme is consumed. *)
LEMMA ConsumedLine ==
  ASSUME StackInv, stack # << >>, LineRight(stack[1])
  PROVE  LineRight(Consumed)
<1>1. Top = stack[1] /\ Top.pos \in Nat \ {0} /\ Top.line \in Nat \ {0}
  BY ConsumedFrame DEF StackInv, Frames
<1>2. /\ Consumed.file = Top.file /\ Consumed.pos = Top.pos + 1
      /\ Consumed.line = Top.line + (IF files[Top.file][Top.pos].kind = "newline" THEN 1 ELSE 0)
  BY <1>1 DEF Consumed, Lexeme, Buffer
<1> DEFINE c == Cardinality(Newlines(files[Top.file], Top.pos))
<1>3. /\ c \in Nat
      /\ Cardinality(Newlines(files[Top.file], Top.pos + 1))
           = c + (IF files[Top.file][Top.pos].kind = "newline" THEN 1 ELSE 0)
  BY <1>1, NewlinesGrow
<1>4. Top.line = 1 + c
  BY <1>1 DEF LineRight
<1> HIDE DEF c
<1> QED BY <1>2, <1>3, <1>4 DEF LineRight

LinesInv == \A k \in 1 .. Len(stack) : LineRight(stack[k])

(* The top frame is counted on, or put aside with the line it has reached.  *)
LEMMA LinesStep == StackInv /\ LinesInv /\ [Next]_srcvars => LinesInv'
<1> SUFFICES ASSUME StackInv, LinesInv, [Next]_srcvars PROVE LinesInv'
  OBVIOUS
<1>1. CASE UNCHANGED srcvars
  BY <1>1 DEF srcvars, LinesInv, LineRight
<1>2. CASE Next
  <2>1. stack # << >> /\ stack \in Seq(Frames(files)) /\ Len(stack) \in Nat \ {0}
    <3>1. stack # << >> /\ stack \in Seq(Frames(files))
      BY <1>2 DEF StackInv, TypeOK, Frames, Next, Silent, Word, Skip, Junk, Begin,
                  OpenFile, OpenFails, EndFile, Matches
    <3> QED BY <3>1, StackParts
  <2>2. files' = files
    BY <1>2 DEF Next, Silent, Word, Skip, Junk, Begin, OpenFile, OpenFails, EndFile
  <2>3. LineRight(stack[1]) /\ LineRight(Consumed)
    BY <2>1, ConsumedLine DEF LinesInv
  <2>4. CASE Consume
    <3>1. /\ Len(stack') = Len(stack)
          /\ stack'[1] = Consumed
          /\ \A k \in 2 .. Len(stack) : stack'[k] = stack[k]
      BY <2>1, <2>4, ConsumedFrame, ReplaceTop DEF StackInv, Consume
    <3>2. ASSUME NEW k \in 1 .. Len(stack') PROVE LineRight(stack[k])'
      <4>1. k = 1 \/ k \in 2 .. Len(stack)
        BY <2>1, <3>1
      <4>2. stack'[k] = Consumed \/ stack'[k] = stack[k]
        BY <3>1, <4>1
      <4> QED BY <2>1, <2>2, <2>3, <3>1, <4>1, <4>2 DEF LinesInv, LineRight
    <3> QED BY <3>2 DEF LinesInv
  <2>5. ASSUME NEW f \in DOMAIN files, OpenFile(f) PROVE LinesInv'
    <3>1. Frame(f) \in Frames(files)
      BY DEF Frame, Frames
    <3>2. /\ Len(stack') = Len(stack) + 1
          /\ stack'[1] = Frame(f)
          /\ stack'[2] = Consumed
          /\ \A k \in 3 .. Len(stack) + 1 : stack'[k] = stack[k - 1]
      BY <2>1, <2>5, <3>1, ConsumedFrame, PushOnTop DEF StackInv, OpenFile
    <3>3. ASSUME NEW k \in 1 .. Len(stack') PROVE LineRight(stack[k])'
      <4>1. k = 1 \/ k = 2 \/ (k \in 3 .. Len(stack) + 1 /\ k - 1 \in 1 .. Len(stack))
        BY <2>1, <3>2
      <4>2. CASE k = 1
        <5>1. LineRight(Frame(f))
          BY NewFrameLine
        <5> QED BY <2>2, <3>2, <4>2, <5>1 DEF LineRight
      <4>3. CASE k = 2
        BY <2>2, <2>3, <3>2, <4>3 DEF LineRight
      <4>4. CASE k \in 3 .. Len(stack) + 1 /\ k - 1 \in 1 .. Len(stack)
        BY <2>2, <3>2, <4>4 DEF LinesInv, LineRight
      <4> QED BY <4>1, <4>2, <4>3, <4>4
    <3> QED BY <3>3 DEF LinesInv
  <2>6. CASE EndFile
    <3>1. /\ Len(stack') = Len(stack) - 1
          /\ \A k \in 1 .. Len(stack) - 1 : stack'[k] = stack[k + 1]
      BY <2>1, <2>6, StackParts DEF EndFile
    <3>2. ASSUME NEW k \in 1 .. Len(stack') PROVE LineRight(stack[k])'
      <4>1. k \in 1 .. Len(stack) - 1 /\ k + 1 \in 1 .. Len(stack)
        BY <2>1, <3>1
      <4> QED BY <2>2, <3>1, <4>1 DEF LinesInv, LineRight
    <3> QED BY <3>2 DEF LinesInv
  <2>7. Consume \/ (\E f \in DOMAIN files : OpenFile(f)) \/ EndFile
    BY <1>2 DEF Next, Silent, Word, Skip, Junk, Begin, OpenFails
  <2> QED BY <2>4, <2>5, <2>6, <2>7
<1> QED BY <1>1, <1>2

(* Every file on the stack has the line it is read at, in comments, across  *)
(* includes and after them (update_numbers, push_file_buffer).              *)
THEOREM LinesCounted == Spec => []LinesRight
<1>1. Init => LinesInv
  <2> SUFFICES ASSUME Init PROVE LinesInv
    OBVIOUS
  <2>1. Len(stack) = 1 /\ stack[1] = Frame(Main)
    BY DEF Init
  <2>2. LineRight(Frame(Main))
    BY NewFrameLine
  <2>3. ASSUME NEW k \in 1 .. Len(stack) PROVE LineRight(stack[k])
    <3>1. k = 1
      BY <2>1
    <3> QED BY <2>1, <2>2, <3>1
  <2> QED BY <2>3 DEF LinesInv
<1>2. StackInv /\ LinesInv => LinesRight
  <2> SUFFICES ASSUME StackInv, LinesInv, NEW k \in DOMAIN stack
               PROVE  LineRight(stack[k])
    BY DEF LinesRight, LineRight, Newlines
  <2>1. DOMAIN stack = 1 .. Len(stack)
    BY DEF StackInv, TypeOK
  <2> QED BY <2>1 DEF LinesInv
<1> QED BY <1>1, <1>2, LinesStep, StackCorrect, PTL DEF Spec

-------------------------------------------------------------------------------
(* The stack as one text.  What follows is about any files fs, whose texts  *)
(* are sequences over one set of lexemes.                                   *)
Letters(fs) == UNION {{fs[f][k] : k \in DOMAIN fs[f]} : f \in DOMAIN fs}

Readable(fs) == \A f \in DOMAIN fs : fs[f] \in Seq(Letters(fs))

From(fs, fr) == SubSeq(fs[fr.file], fr.pos, Len(fs[fr.file]))

Unread(fs, st) == [k \in DOMAIN st |-> From(fs, st[k])]

Rest(fs, st) == FlattenSeq(Unread(fs, st))

LEMMA ProgramTexts == \A fs \in Programs : Readable(fs)
<1> SUFFICES ASSUME NEW fs \in Programs, NEW f \in DOMAIN fs
             PROVE  fs[f] \in Seq(Letters(fs))
  BY DEF Readable
<1> DEFINE R == {fs[f][k] : k \in DOMAIN fs[f]}
<1>1. fs[f] \in Seq(R)
  BY SourceAssumption
<1>2. R \subseteq Letters(fs)
  BY DEF Letters
<1> HIDE DEF R
<1> QED BY <1>1, <1>2, SeqMonotonic

(* What a frame has still to be read: lexeme after lexeme, and then nothing. *)
LEMMA FromSteps ==
  ASSUME NEW fs, Readable(fs), NEW fr \in Frames(fs)
  PROVE  /\ From(fs, fr) \in Seq(Letters(fs))
         /\ fr.pos > Len(fs[fr.file]) => From(fs, fr) = << >>
         /\ fr.pos <= Len(fs[fr.file]) =>
              /\ fs[fr.file][fr.pos] \in Letters(fs)
              /\ \A gr : gr.file = fr.file /\ gr.pos = fr.pos + 1 =>
                   From(fs, fr) = <<fs[fr.file][fr.pos]>> \o From(fs, gr)
<1> DEFINE t == fs[fr.file]
           p == fr.pos
<1>1. t \in Seq(Letters(fs)) /\ p \in Nat \ {0} /\ Len(t) \in Nat
  <2>1. fr.file \in DOMAIN fs /\ p \in Nat \ {0}
    BY DEF Frames
  <2>2. t \in Seq(Letters(fs))
    BY <2>1 DEF Readable
  <2> QED BY <2>1, <2>2, LenProperties
<1>2. From(fs, fr) = SubSeq(t, p, Len(t))
  BY DEF From
<1>3. \A gr : gr.file = fr.file /\ gr.pos = p + 1 => From(fs, gr) = SubSeq(t, p + 1, Len(t))
  BY DEF From
<1> HIDE DEF t, p
<1>4. \A k \in p .. Len(t) : t[k] \in Letters(fs)
  <2>1. \A k \in p .. Len(t) : k \in 1 .. Len(t)
    BY <1>1
  <2> QED BY <1>1, <2>1, ElementOfSeq
<1>5. SubSeq(t, p, Len(t)) \in Seq(Letters(fs))
  BY <1>1, <1>4, SubSeqProperties
<1>6. p > Len(t) => SubSeq(t, p, Len(t)) = << >>
  BY <1>1, SubSeqEmpty
<1>7. ASSUME p <= Len(t)
      PROVE  SubSeq(t, p, Len(t)) = <<t[p]>> \o SubSeq(t, p + 1, Len(t))
  <2>1. p \in 1 .. Len(t) /\ Len(t) \in p .. Len(t)
    BY <1>1, <1>7
  <2> QED BY <1>1, <2>1, SubSeqRecursiveFirst
<1>8. p <= Len(t) => t[p] \in Letters(fs)
  BY <1>1, <1>4
<1> QED BY <1>2, <1>3, <1>5, <1>6, <1>7, <1>8 DEF t, p

(* A file that was just opened has all of its text to be read. *)
LEMMA FromBegin ==
  ASSUME NEW fs, Readable(fs), NEW f \in DOMAIN fs
  PROVE  From(fs, Frame(f)) = fs[f]
<1>1. fs[f] \in Seq(Letters(fs))
  BY DEF Readable
<1>2. SubSeq(fs[f], 1, Len(fs[f])) = fs[f]
  BY <1>1, SubSeqFull
<1> QED BY <1>2 DEF From, Frame

(* A frame on top puts what it has to be read in front. *)
LEMMA RestOfPush ==
  ASSUME NEW fs, Readable(fs), NEW fr \in Frames(fs), NEW st \in Seq(Frames(fs))
  PROVE  /\ Rest(fs, st) \in Seq(Letters(fs))
         /\ Rest(fs, <<fr>> \o st) = From(fs, fr) \o Rest(fs, st)
<1> DEFINE Lex == Seq(Letters(fs))
<1>1. From(fs, fr) \in Lex
  BY FromSteps
<1>2. Len(st) \in Nat /\ DOMAIN st = 1 .. Len(st)
  BY LenProperties
<1>3. ASSUME NEW k \in 1 .. Len(st) PROVE From(fs, st[k]) \in Lex
  <2>1. st[k] \in Frames(fs)
    BY <1>3, ElementOfSeq
  <2> QED BY <2>1, FromSteps
<1> HIDE DEF Lex
<1>4. Unread(fs, st) \in Seq(Lex) /\ Len(Unread(fs, st)) = Len(st)
  BY <1>2, <1>3 DEF Unread
<1>5. /\ <<fr>> \o st \in Seq(Frames(fs)) /\ Len(<<fr>> \o st) = Len(st) + 1
      /\ (<<fr>> \o st)[1] = fr
      /\ \A k \in 1 .. Len(st) : (<<fr>> \o st)[k + 1] = st[k]
  OBVIOUS
<1>6. Unread(fs, <<fr>> \o st) = <<From(fs, fr)>> \o Unread(fs, st)
  <2> DEFINE a == Unread(fs, <<fr>> \o st)
             b == <<From(fs, fr)>> \o Unread(fs, st)
  <2>1. DOMAIN (<<fr>> \o st) = 1 .. Len(st) + 1
    BY <1>5
  <2>2. a = [k \in 1 .. Len(st) + 1 |-> From(fs, (<<fr>> \o st)[k])]
    BY <2>1 DEF Unread
  <2>3. \A k \in 1 .. Len(st) : Unread(fs, st)[k] = From(fs, st[k])
    BY <1>2 DEF Unread
  <2>4. /\ b \in Seq(Lex) /\ Len(b) = Len(st) + 1 /\ b[1] = From(fs, fr)
        /\ \A k \in 1 .. Len(st) : b[k + 1] = Unread(fs, st)[k]
    BY <1>1, <1>4
  <2>5. b = [k \in 1 .. Len(st) + 1 |-> b[k]]
    BY <2>4
  <2> HIDE DEF b
  <2>6. ASSUME NEW k \in 1 .. Len(st) + 1 PROVE From(fs, (<<fr>> \o st)[k]) = b[k]
    <3>1. CASE k = 1
      BY <1>5, <2>4, <3>1
    <3>2. CASE k # 1
      <4> DEFINE j == k - 1
      <4>1. j \in 1 .. Len(st) /\ k = j + 1
        BY <1>2, <3>2
      <4> HIDE DEF j
      <4> QED BY <1>5, <2>3, <2>4, <4>1
    <3> QED BY <3>1, <3>2
  <2> QED BY <2>2, <2>5, <2>6 DEF b
<1>7. /\ FlattenSeq(Unread(fs, st)) \in Seq(Letters(fs))
      /\ FlattenSeq(<<From(fs, fr)>> \o Unread(fs, st)) = From(fs, fr) \o FlattenSeq(Unread(fs, st))
  BY <1>1, <1>4, FlattenCons DEF Lex
<1> QED BY <1>6, <1>7 DEF Rest

LEMMA RestOfNothing == \A fs : Rest(fs, << >>) = << >>
<1>1. \A fs : Unread(fs, << >>) = << >>
  BY DEF Unread
<1> QED BY <1>1, FlattenEmpty DEF Rest

(* A text with a lexeme in front. *)
LEMMA HeadAndTail ==
  ASSUME NEW S, NEW x \in S, NEW u \in Seq(S)
  PROVE  <<x>> \o u # << >> /\ Head(<<x>> \o u) = x /\ Tail(<<x>> \o u) = u
  OBVIOUS

-------------------------------------------------------------------------------
(* The text that T!Next is about. *)
Text == FlattenSeq([k \in DOMAIN stack |-> Remains(stack[k])])

LEMMA TextIsRest == Text = Rest(files, stack) /\ Text' = Rest(files', stack')
  BY DEF Text, Rest, Unread, From, Remains

(* The stack is not empty: its first frame is what is read first. *)
LEMMA TextOfStack ==
  ASSUME StackInv, Readable(files), stack # << >>
  PROVE  /\ Tail(stack) \in Seq(Frames(files))
         /\ Top \in Frames(files) /\ Consumed \in Frames(files)
         /\ Text = From(files, Top) \o Rest(files, Tail(stack))
         /\ From(files, Consumed) \in Seq(Letters(files))
         /\ Rest(files, Tail(stack)) \in Seq(Letters(files))
<1>1. stack \in Seq(Frames(files))
  BY DEF StackInv, TypeOK, Frames
<1>2. Tail(stack) \in Seq(Frames(files)) /\ stack = <<Top>> \o Tail(stack)
  BY <1>1 DEF Top
<1>3. Top \in Frames(files) /\ Consumed \in Frames(files)
  BY ConsumedFrame DEF StackInv
<1>4. /\ Rest(files, Tail(stack)) \in Seq(Letters(files))
      /\ Rest(files, <<Top>> \o Tail(stack)) = From(files, Top) \o Rest(files, Tail(stack))
  BY <1>2, <1>3, RestOfPush
<1>5. From(files, Consumed) \in Seq(Letters(files))
  BY <1>3, FromSteps
<1> QED BY <1>2, <1>3, <1>4, <1>5, TextIsRest

(* The next lexeme of the top frame is the first of the text. *)
LEMMA TextAtLexeme ==
  ASSUME StackInv, Readable(files), stack # << >>, Top.pos <= Len(Buffer)
  PROVE  /\ Text # << >> /\ Head(Text) = Lexeme
         /\ Tail(Text) = From(files, Consumed) \o Rest(files, Tail(stack))
<1> DEFINE u == From(files, Consumed)
           w == Rest(files, Tail(stack))
<1>1. /\ Text = From(files, Top) \o w
      /\ u \in Seq(Letters(files)) /\ w \in Seq(Letters(files))
      /\ Top \in Frames(files)
  BY TextOfStack
<1>2. Consumed.file = Top.file /\ Consumed.pos = Top.pos + 1
  BY ConsumedFrame DEF StackInv
<1>3. Lexeme \in Letters(files) /\ From(files, Top) = <<Lexeme>> \o u
  BY <1>1, <1>2, FromSteps DEF Lexeme, Buffer
<1> HIDE DEF u, w
<1>4. <<Lexeme>> \in Seq(Letters(files))
  BY <1>3
<1>5. Text = <<Lexeme>> \o (u \o w) /\ u \o w \in Seq(Letters(files))
  BY <1>1, <1>3, <1>4, ConcatAssociative, ConcatProperties
<1> QED BY <1>3, <1>5, HeadAndTail DEF u, w

(* A lexeme is consumed, and the text goes on behind it. *)
LEMMA ConsumeText ==
  ASSUME StackInv, Readable(files), stack # << >>, Top.pos <= Len(Buffer),
         Consume, UNCHANGED files
  PROVE  Text' = Tail(Text)
<1>1. /\ Tail(stack) \in Seq(Frames(files)) /\ Consumed \in Frames(files)
  BY TextOfStack
<1>2. Rest(files, <<Consumed>> \o Tail(stack)) = From(files, Consumed) \o Rest(files, Tail(stack))
  BY <1>1, RestOfPush
<1> QED BY <1>2, TextAtLexeme, TextIsRest DEF Consume

(* A directive is replaced by the text of its file. *)
LEMMA OpenText ==
  ASSUME StackInv, Readable(files), NEW f \in DOMAIN files, OpenFile(f)
  PROVE  Text' = files[f] \o Tail(Text)
<1>1. stack # << >> /\ Top.pos <= Len(Buffer) /\ files' = files
  BY DEF OpenFile, Matches, StackInv, TypeOK
<1>2. Tail(stack) \in Seq(Frames(files)) /\ Consumed \in Frames(files)
  BY <1>1, TextOfStack
<1>3. Frame(f) \in Frames(files)
  BY DEF Frame, Frames
<1>4. <<Consumed>> \o Tail(stack) \in Seq(Frames(files))
  BY <1>2
<1>5. <<Frame(f), Consumed>> \o Tail(stack) = <<Frame(f)>> \o (<<Consumed>> \o Tail(stack))
  BY <1>2, <1>3
<1>6. /\ Rest(files, <<Frame(f)>> \o (<<Consumed>> \o Tail(stack)))
           = From(files, Frame(f)) \o Rest(files, <<Consumed>> \o Tail(stack))
      /\ Rest(files, <<Consumed>> \o Tail(stack))
           = From(files, Consumed) \o Rest(files, Tail(stack))
  BY <1>2, <1>3, <1>4, RestOfPush
<1>7. From(files, Frame(f)) = files[f]
  BY FromBegin
<1> QED BY <1>1, <1>5, <1>6, <1>7, TextAtLexeme, TextIsRest DEF OpenFile

(* A file that was read to its end adds nothing to the text. *)
LEMMA EndText ==
  ASSUME StackInv, Readable(files), EndFile
  PROVE  Text' = Text /\ (Tail(stack) = << >> => Text = << >>)
<1>1. stack # << >> /\ Top.pos > Len(Buffer) /\ files' = files
  BY DEF EndFile, StackInv, TypeOK
<1>2. /\ Top \in Frames(files) /\ Text = From(files, Top) \o Rest(files, Tail(stack))
      /\ Rest(files, Tail(stack)) \in Seq(Letters(files))
  BY <1>1, TextOfStack
<1>3. From(files, Top) = << >>
  BY <1>1, <1>2, FromSteps DEF Buffer
<1>4. Text = Rest(files, Tail(stack))
  BY <1>2, <1>3, ConcatEmptySeq
<1> QED BY <1>1, <1>4, TextIsRest, RestOfNothing DEF EndFile

(* Every step of the scanner is a step on the one text, or none. *)
LEMMA InclusionStep ==
  ASSUME StackInv, Readable(files), [Next]_srcvars
  PROVE  [T!Next]_(T!vars)
<1>0. ASSUME NEW kinds, Matches(kinds)
      PROVE  /\ stack # << >> /\ Top.pos <= Len(Buffer) /\ status = "running"
             /\ Text # << >> /\ Head(Text) = Lexeme /\ Lexeme.kind \in kinds
             /\ Consume /\ UNCHANGED files => Text' = Tail(Text)
  <2>1. stack # << >> /\ Top.pos <= Len(Buffer) /\ status = "running" /\ Lexeme.kind \in kinds
    BY <1>0 DEF Matches, Lexeme, StackInv, TypeOK
  <2> QED BY <2>1, TextAtLexeme, ConsumeText
<1>1. CASE Word
  <2>1. Matches({"word", "close"})
    BY <1>1 DEF Word
  <2>2. T!Give
    BY <1>0, <1>1, <2>1 DEF Word, T!Give, T!Take, T!InText, Text
  <2> QED BY <2>2 DEF T!Next
<1>2. CASE Skip
  <2>1. T!Drop
    BY <1>0, <1>2 DEF Skip, T!Drop, T!Take, T!InText, Text
  <2> QED BY <2>1 DEF T!Next
<1>3. CASE Junk
  <2>1. T!Drop
    BY <1>0, <1>3 DEF Junk, T!Drop, T!Take, T!InText, Text
  <2> QED BY <2>1 DEF T!Next
<1>4. CASE Begin
  <2>1. T!Switch
    BY <1>0, <1>4 DEF Begin, T!Switch, T!Take, T!InText, Text
  <2> QED BY <2>1 DEF T!Next
<1>5. ASSUME NEW f \in DOMAIN files, OpenFile(f) PROVE T!Next
  <2>1. Matches({"include"}) /\ Lexeme.arg = f
    BY <1>5 DEF OpenFile
  <2>2. Text' = files[f] \o Tail(Text)
    BY <1>5, OpenText
  <2>3. T!Splice
    BY <1>0, <1>5, <2>1, <2>2 DEF OpenFile, T!Splice, T!Take, T!InText, Text
  <2> QED BY <2>3 DEF T!Next
<1>6. CASE OpenFails
  <2>1. Matches({"include"})
    BY <1>6 DEF OpenFails
  <2>2. T!GiveUp
    BY <1>0, <1>6, <2>1 DEF OpenFails, T!GiveUp, T!Take, T!InText, Text
  <2> QED BY <2>2 DEF T!Next
<1>7. CASE EndFile
  <2>1. Text' = Text /\ (Tail(stack) = << >> => Text = << >>)
    BY <1>7, EndText
  <2>2. CASE Tail(stack) = << >>
    <3>1. T!End
      BY <1>7, <2>1, <2>2 DEF EndFile, T!End, Text
    <3> QED BY <3>1 DEF T!Next
  <2>3. CASE Tail(stack) # << >>
    BY <1>7, <2>1, <2>3 DEF EndFile, T!vars, Text
  <2> QED BY <2>2, <2>3
<1>8. CASE UNCHANGED srcvars
  BY <1>8 DEF srcvars, T!vars, Remains
<1> QED BY <1>1, <1>2, <1>3, <1>4, <1>5, <1>6, <1>7, <1>8 DEF Next, Silent

(* The scanner begins with the text of the file of the command line. *)
LEMMA InclusionInit == Init => T!Init
<1> SUFFICES ASSUME Init PROVE T!Init
  OBVIOUS
<1>1. Readable(files) /\ Main \in DOMAIN files /\ StackInv /\ stack # << >>
  BY ProgramTexts, InitInv, SourceAssumption DEF Init
<1>2. Text = From(files, Top) \o Rest(files, Tail(stack)) /\ Top \in Frames(files)
  BY <1>1, TextOfStack
<1>3. Top = Frame(Main) /\ Tail(stack) = << >>
  BY DEF Init, Top
<1>4. From(files, Top) = files[Main] /\ From(files, Top) \in Seq(Letters(files))
  BY <1>1, <1>2, <1>3, FromBegin, FromSteps
<1>5. Text = files[Main]
  BY <1>2, <1>3, <1>4, RestOfNothing, ConcatEmptySeq
<1> QED BY <1>1, <1>5 DEF Init, T!Init, Text

(* What the parser gets is the one text in which the directives are          *)
(* replaced by the texts of their files, for all source files, any nesting   *)
(* of them and any limit of open files (open_file, push_file_buffer and the  *)
(* rule for the end of a file).                                              *)
THEOREM InclusionImplemented == Spec => ImplementsInclusion
<1>1. Init => Readable(files)
  BY ProgramTexts DEF Init
<1>2. Readable(files) /\ [Next]_srcvars => Readable(files)'
  BY DEF srcvars, Next, Silent, Word, Skip, Junk, Begin, OpenFile, OpenFails, EndFile
<1>3. Spec => []Readable(files)
  BY <1>1, <1>2, PTL DEF Spec
<1>4. StackInv /\ Readable(files) /\ [Next]_srcvars => [T!Next]_(T!vars)
  BY InclusionStep
<1> QED BY <1>3, <1>4, InclusionInit, StackCorrect, PTL DEF Spec, ImplementsInclusion, T!Spec

-------------------------------------------------------------------------------
(* The parser takes the scanner's own steps, or leaves it alone. *)
LEMMA ScannerSteps == [AsmNext]_vars => [Next]_srcvars
<1> SUFFICES ASSUME [AsmNext]_vars PROVE [Next]_srcvars
  OBVIOUS
<1>1. CASE ShiftData \/ BeginArray \/ BeginArrayFails \/ Initialized \/ InitializedList \/ NoEffect \/ SyntaxError
  BY <1>1 DEF ShiftData, BeginArray, BeginArrayFails, Initialized, InitializedList, NoEffect,
              SyntaxError, Statement, Next
<1>2. CASE ReduceData \/ ArrayElement \/ ArrayDone \/ OutOfMemory \/ EndOfInput \/ Dump
  BY <1>2 DEF ReduceData, ArrayElement, ArrayDone, OutOfMemory, EndOfInput, Dump
<1>3. CASE InvalidCharacter
  BY <1>3 DEF InvalidCharacter, Next, Silent
<1>4. CASE Scan
  BY <1>4 DEF Scan, Next, Silent
<1>5. CASE ScanFails
  BY <1>5 DEF ScanFails, Next, Silent
<1>6. CASE UNCHANGED vars
  BY <1>6 DEF vars
<1> QED
  BY <1>1, <1>2, <1>3, <1>4, <1>5, <1>6 DEF AsmNext

(* The assembler drives the scanner as SourceStack says: all that holds of  *)
(* the stack of files alone holds of it in the assembler (run_parser).      *)
THEOREM AssemblerScans == AsmSpec => Spec
<1>1. AsmInit => Init
  BY DEF AsmInit
<1> QED BY <1>1, ScannerSteps, PTL DEF AsmSpec, Spec

(* In the assembler, too, exactly the files on the stack are open and every *)
(* includer is resumed behind its directive (open_file).                    *)
THEOREM AssemblerStack == AsmSpec => []StackInv
  BY AssemblerScans, StackCorrect, PTL

(* And the words it gets are those of the one text in which the directives   *)
(* are replaced by their files (run_parser, open_file).                      *)
THEOREM AssemblerInclusion == AsmSpec => ImplementsInclusion
  BY AssemblerScans, InclusionImplemented, PTL

-------------------------------------------------------------------------------
(* add_symbol does not touch a name that is there. *)
LEMMA AddSymbolKeeps ==
  ASSUME NEW name, NEW length, NEW place, AddSymbol(name, length, place)
  PROVE  \A n \in DOMAIN symtab : n \in DOMAIN symtab' /\ symtab'[n] = symtab[n]
BY DEF AddSymbol

(* It binds no more than the one name, to what it was given. *)
LEMMA AddSymbolAdds ==
  ASSUME NEW name, NEW length \in Nat, NEW place \in Nat,
         AddSymbol(name, length, place),
         \A n \in DOMAIN symtab : symtab[n] \in [length : Nat, index : Nat]
  PROVE  \A n \in DOMAIN symtab' : symtab'[n] \in [length : Nat, index : Nat]
BY DEF AddSymbol

(* A name means to the end what it meant when it was first defined: no      *)
(* step of the parser changes a binding (add_symbol, insert_hashtable).     *)
THEOREM BindingsKept == AsmSpec => FirstBindingKept
<1>1. ASSUME [AsmNext]_vars
      PROVE  \A n \in DOMAIN symtab : n \in DOMAIN symtab' /\ symtab'[n] = symtab[n]
  <2>1. CASE ReduceData
    BY <2>1, AddSymbolKeeps DEF ReduceData
  <2>2. CASE Initialized
    BY <2>2, AddSymbolKeeps DEF Initialized
  <2>3. CASE InitializedList
    BY <2>3, AddSymbolKeeps DEF InitializedList
  <2>4. CASE ArrayDone
    BY <2>4, AddSymbolKeeps DEF ArrayDone
  <2>5. CASE UNCHANGED symtab
    BY <2>5
  <2> QED
    BY <1>1, <2>1, <2>2, <2>3, <2>4, <2>5
    DEF AsmNext, ShiftData, BeginArray, ArrayElement, BeginArrayFails, OutOfMemory, NoEffect,
        InvalidCharacter, SyntaxError, EndOfInput, Dump, Scan, ScanFails, vars, asmvars
<1> QED BY <1>1, PTL DEF AsmSpec, FirstBindingKept

-------------------------------------------------------------------------------
(* The types, and that the files are those of the program: a list in the    *)
(* text has a number of constants.                                          *)
AsmInv == TypeOK /\ AsmTypeOK /\ files \in Programs

LEMMA AsmInitInv == AsmInit => AsmInv
<1> SUFFICES ASSUME AsmInit PROVE AsmInv
  OBVIOUS
<1>1. TypeOK /\ files \in Programs
  BY InitInv DEF AsmInit, StackInv, Init
<1>2. slots \in 0 .. Memory /\ i \in 0 .. bound /\ bound \in Nat
  BY MemoryAssumption DEF AsmInit
<1>3. AsmTypeOK
  BY <1>2 DEF AsmInit, AsmTypeOK
<1> QED
  BY <1>1, <1>3 DEF AsmInit, AsmInv

(* The size of a list that is scanned is a number; a statement is not NONE. *)
LEMMA StatementArg ==
  ASSUME TypeOK, files \in Programs, NEW op, Statement(op)
  PROVE  /\ Lexeme.arg # NONE
         /\ op = "list" => Lexeme.arg.size \in Nat
<1>1. stack # << >> /\ Top \in Frames(files)
  BY ConsumedFrame DEF Statement, Word, Matches, TypeOK
<1>2. Top.file \in DOMAIN files /\ Top.pos \in Nat \ {0}
  BY <1>1 DEF Frames
<1>3. Len(Buffer) \in Nat /\ Top.pos <= Len(Buffer)
  BY <1>2, ListAssumption DEF Buffer, Statement, Word, Matches
<1>4. Top.pos \in 1 .. Len(Buffer)
  BY <1>2, <1>3
<1>5. Lexeme.kind = "word" /\ Lexeme.arg.op = op
  BY DEF Statement
<1> QED
  BY <1>2, <1>4, <1>5, ListAssumption DEF Buffer, Lexeme

(* Every step of the parser keeps the invariant. *)
LEMMA AsmStepInv == AsmInv /\ TypeOK' /\ [AsmNext]_vars => AsmInv'
<1> SUFFICES ASSUME AsmInv, TypeOK', [AsmNext]_vars PROVE AsmInv'
  OBVIOUS
<1> USE MemoryAssumption
<1>0. files' = files
  BY ScannerSteps DEF Next, Silent, Word, Skip, Junk, Begin, OpenFile, OpenFails,
     EndFile, srcvars
<1>1. /\ slots' \in 0 .. Memory /\ data_index' \in Nat
      /\ i' \in 0 .. bound' /\ bound' \in Nat
  <2>1. CASE ReduceData
    BY <2>1 DEF ReduceData, AsmInv, AsmTypeOK
  <2>2. CASE BeginArray
    <3>1. bound' \in Nat \ {0} /\ i' = 1
      BY <2>2 DEF BeginArray
    <3>2. slots \in 0 .. Memory /\ slots < Memory /\ slots' = slots + 1 /\ data_index' = slots
      BY <2>2 DEF BeginArray, AsmInv, AsmTypeOK
    <3> QED BY <3>1, <3>2
  <2>3. CASE ArrayElement
    BY <2>3 DEF ArrayElement, AsmInv, AsmTypeOK
  <2>4. CASE ArrayDone
    BY <2>4 DEF ArrayDone, AsmInv, AsmTypeOK
  <2>5. CASE UNCHANGED <<slots, data_index, i, bound>>
    BY <2>5 DEF AsmInv, AsmTypeOK
  <2> QED
    BY <2>1, <2>2, <2>3, <2>4, <2>5
    DEF AsmNext, ShiftData, BeginArrayFails, OutOfMemory, Initialized, InitializedList, NoEffect,
        InvalidCharacter, SyntaxError, EndOfInput, Dump, Scan, ScanFails, vars, asmvars
<1>2. data_ptrs' \in Nat
  <2>1. CASE InitializedList
    BY <2>1, StatementArg DEF InitializedList, AsmInv, AsmTypeOK
  <2>2. CASE UNCHANGED data_ptrs
    BY <2>2 DEF AsmInv, AsmTypeOK
  <2> QED
    BY <2>1, <2>2
    DEF AsmNext, ShiftData, ReduceData, BeginArray, ArrayElement, ArrayDone, BeginArrayFails,
        OutOfMemory, Initialized, NoEffect, InvalidCharacter, SyntaxError, EndOfInput, Dump,
        Scan, ScanFails, vars, asmvars
<1>3. errors' \in Nat
  <2>1. CASE errors' = errors \/ errors' = errors + 1
    BY <2>1 DEF AsmInv, AsmTypeOK
  <2> QED
    BY <2>1
    DEF AsmNext, ShiftData, ReduceData, BeginArray, ArrayElement, ArrayDone, BeginArrayFails,
        OutOfMemory, Initialized, InitializedList, NoEffect, InvalidCharacter, SyntaxError,
        EndOfInput, Dump, Scan, ScanFails, vars, asmvars
<1>4. \A n \in DOMAIN symtab' : symtab'[n] \in [length : Nat, index : Nat]
  <2>1. \A n \in DOMAIN symtab : symtab[n] \in [length : Nat, index : Nat]
    BY DEF AsmInv, AsmTypeOK
  <2>2. CASE ReduceData
    <3>1. slots \in Nat
      BY DEF AsmInv, AsmTypeOK
    <3> QED BY <2>1, <2>2, <3>1, AddSymbolAdds DEF ReduceData
  <2>3. CASE Initialized
    BY <2>1, <2>3, AddSymbolAdds DEF Initialized, AsmInv, AsmTypeOK
  <2>4. CASE InitializedList
    BY <2>1, <2>4, AddSymbolAdds DEF InitializedList, AsmInv, AsmTypeOK
  <2>5. CASE ArrayDone
    <3>1. bound \in Nat /\ data_index \in Nat
      BY DEF AsmInv, AsmTypeOK
    <3> QED BY <2>1, <2>5, <3>1, AddSymbolAdds DEF ArrayDone
  <2>6. CASE UNCHANGED symtab
    BY <2>1, <2>6
  <2> QED
    BY <2>2, <2>3, <2>4, <2>5, <2>6
    DEF AsmNext, ShiftData, BeginArray, ArrayElement, BeginArrayFails, OutOfMemory, NoEffect,
        InvalidCharacter, SyntaxError, EndOfInput, Dump, Scan, ScanFails, vars, asmvars
<1>5. parse' \in {"parsing", "looping", "accepted", "rejected",
                  "exit0", "fatal", "crashed"}
  <2>1. parse \in {"parsing", "looping", "accepted", "rejected",
                   "exit0", "fatal", "crashed"}
    BY DEF AsmInv, AsmTypeOK
  <2> QED
    BY <2>1
    DEF AsmNext, ShiftData, ReduceData, BeginArray, ArrayElement, ArrayDone, BeginArrayFails,
        OutOfMemory, Initialized, InitializedList, NoEffect, InvalidCharacter, SyntaxError,
        EndOfInput, Dump, Scan, ScanFails, vars, asmvars
<1> QED
  BY <1>0, <1>1, <1>2, <1>3, <1>4, <1>5 DEF AsmInv, AsmTypeOK

(* What AsmInv says, for all programs and memories. *)
LEMMA AsmCorrect == AsmSpec => []AsmInv
<1>1. AsmSpec => []TypeOK
  BY AssemblerScans, SourceTypeCorrect, PTL
<1> QED BY <1>1, AsmInitInv, AsmStepInv, PTL DEF AsmSpec

(* The data segment stays in memory, and every symbol is a length and an    *)
(* index (add_symbol, append_data_buffer).                                  *)
THEOREM AsmTypeCorrect == AsmSpec => []AsmTypeOK
<1>1. AsmInv => AsmTypeOK
  BY DEF AsmInv
<1> QED BY <1>1, AsmCorrect, PTL

-------------------------------------------------------------------------------
(* The lexemes of the files. *)
Texts(fs) == {fs[f][k] : f \in DOMAIN fs, k \in Nat}

OwnInv ==
  /\ AsmInv
  /\ out \in Seq(Texts(files))
  /\ OnlyPlain => parse # "looping"
  /\ SymbolsOwnItems

(* What the parser got so far grows by one lexeme or not at all. *)
LEMMA OutGrows ==
  ASSUME TypeOK, out \in Seq(Texts(files)), [Next]_srcvars
  PROVE  /\ files' = files
         /\ out' \in Seq(Texts(files))
         /\ Len(out) <= Len(out')
         /\ \A k \in 1 .. Len(out) : out'[k] = out[k]
<1>1. CASE UNCHANGED <<files, out>>
  BY <1>1
<1>2. CASE /\ status = "running" /\ UNCHANGED files
           /\ out' = Append(out, Lexeme)
  <2>1. stack # << >> /\ Top \in Frames(files)
    BY <1>2, ConsumedFrame DEF TypeOK
  <2>2. Lexeme \in Texts(files)
    BY <2>1 DEF Lexeme, Buffer, Texts, Frames
  <2> QED BY <1>2, <2>2
<1> QED
  BY <1>1, <1>2 DEF Next, Silent, Word, Skip, Junk, Begin, OpenFile, OpenFails,
     EndFile, Matches, srcvars

(* Once there was another definition, there was one. *)
LEMMA PlainBefore ==
  ASSUME TypeOK, out \in Seq(Texts(files)), [Next]_srcvars, OnlyPlain'
  PROVE  OnlyPlain
BY OutGrows DEF OnlyPlain

(* A statement that is shifted is the last lexeme the parser got. *)
LEMMA NotPlain ==
  ASSUME out \in Seq(Texts(files)), NEW op \in {"array", "init", "list"},
         Statement(op)
  PROVE  ~ OnlyPlain'
<1>1. out' = Append(out, Lexeme) /\ Lexeme.kind = "word" /\ Lexeme.arg.op = op
  BY DEF Statement, Word
<1>2. Len(out') \in DOMAIN out' /\ out'[Len(out')] = Lexeme
  BY <1>1
<1> QED BY <1>1, <1>2 DEF OnlyPlain

LEMMA OwnInitInv == AsmInit => OwnInv
<1> SUFFICES ASSUME AsmInit PROVE OwnInv
  OBVIOUS
<1>1. out \in Seq(Texts(files))
  BY DEF AsmInit, Init
<1>2. SymbolsOwnItems
  BY DEF AsmInit, SymbolsOwnItems
<1>3. parse # "looping"
  BY DEF AsmInit
<1> QED BY <1>1, <1>2, <1>3, AsmInitInv DEF OwnInv

(* Every step of the parser keeps the items of the symbols apart. *)
LEMMA OwnStepInv == OwnInv /\ AsmInv' /\ [AsmNext]_vars => OwnInv'
<1> SUFFICES ASSUME OwnInv, AsmInv', [AsmNext]_vars PROVE OwnInv'
  OBVIOUS
<1>1. TypeOK /\ out \in Seq(Texts(files)) /\ [Next]_srcvars
  BY ScannerSteps DEF OwnInv, AsmInv
<1>2. out' \in Seq(Texts(files))'
  BY <1>1, OutGrows
<1>3. SymbolsOwnItems'
  <2> SUFFICES ASSUME OnlyPlain'
               PROVE  /\ \A n \in DOMAIN symtab' : symtab'[n].index < slots'
                      /\ \A n, m \in DOMAIN symtab' :
                           symtab'[n].index = symtab'[m].index => n = m
    BY DEF SymbolsOwnItems
  <2>1. OnlyPlain
    BY <1>1, PlainBefore
  <2>2. /\ \A n \in DOMAIN symtab : symtab[n].index < slots
        /\ \A n, m \in DOMAIN symtab : symtab[n].index = symtab[m].index => n = m
    BY <2>1 DEF OwnInv, SymbolsOwnItems
  <2>3. /\ slots \in Nat
        /\ \A n \in DOMAIN symtab : symtab[n].index \in Nat
    BY MemoryAssumption DEF OwnInv, AsmInv, AsmTypeOK
  <2>4. CASE ReduceData
    <3>1. slots' = slots + 1
          /\ (\/ symtab' = symtab
              \/ /\ DOMAIN symtab' = DOMAIN symtab \union {held.name}
                 /\ held.name \notin DOMAIN symtab
                 /\ symtab'[held.name].index = slots
                 /\ \A n \in DOMAIN symtab : symtab'[n] = symtab[n])
      BY <2>4 DEF ReduceData, AddSymbol
    <3> QED BY <2>2, <2>3, <3>1
  <2>5. CASE ArrayElement \/ ArrayDone
    BY <2>1, <2>5 DEF ArrayElement, ArrayDone, OwnInv
  <2>6. CASE BeginArray
    BY <1>1, <2>6, NotPlain DEF BeginArray
  <2>7. CASE Initialized
    BY <1>1, <2>7, NotPlain DEF Initialized
  <2>8. CASE InitializedList
    BY <1>1, <2>8, NotPlain DEF InitializedList
  <2>9. CASE UNCHANGED <<symtab, slots>>
    BY <2>2, <2>9
  <2> QED
    BY <2>4, <2>5, <2>6, <2>7, <2>8, <2>9
    DEF AsmNext, ShiftData, BeginArrayFails, OutOfMemory, NoEffect,
        InvalidCharacter, SyntaxError, EndOfInput, Dump, Scan, ScanFails, vars, asmvars
<1>4. OnlyPlain' => parse' # "looping"
  <2> SUFFICES ASSUME OnlyPlain' PROVE parse' # "looping"
    OBVIOUS
  <2>1. parse # "looping"
    BY <1>1, PlainBefore DEF OwnInv
  <2>2. CASE BeginArray
    BY <1>1, <2>2, NotPlain DEF BeginArray
  <2> QED
    BY <2>1, <2>2
    DEF AsmNext, ShiftData, ReduceData, ArrayElement, ArrayDone, BeginArrayFails,
        OutOfMemory, Initialized, InitializedList, NoEffect, InvalidCharacter, SyntaxError,
        EndOfInput, Dump, Scan, ScanFails, vars, asmvars
<1> QED BY <1>2, <1>3, <1>4 DEF OwnInv

(* In a program of plain definitions every name has an item of its own in   *)
(* the data segment, whatever the program and its files are (add_symbol,    *)
(* append_data_buffer).                                                     *)
THEOREM SymbolsApart == AsmSpec => []SymbolsOwnItems
<1>1. OwnInv => SymbolsOwnItems
  BY DEF OwnInv
<1> QED BY <1>1, OwnInitInv, OwnStepInv, AsmCorrect, PTL DEF AsmSpec

-------------------------------------------------------------------------------
(* The places of the statements data NAME, and how the symbols and the data *)
(* segment go with a set R of them.                                         *)
DataIn(o) == {k \in DOMAIN o : o[k].kind = "word" /\ o[k].arg.op = "data"}

First(R, o, k) == \A j \in R : j < k => o[j].arg.name # o[k].arg.name

Agree(R, o, st, sl) ==
  /\ R \subseteq DataIn(o)
  /\ IsFiniteSet(R) /\ sl = Cardinality(R)
  /\ DOMAIN st = {o[k].arg.name : k \in R}
  /\ \A k \in R : First(R, o, k) =>
       st[o[k].arg.name].index = Cardinality({j \in R : j < k})

(* The last statement data NAME waits. *)
Waits(l) == l \in DataIn(out) /\ held = out[l].arg /\ \A k \in DataIn(out) : k <= l

TextInv ==
  /\ AsmInv /\ out \in Seq(Texts(files))
  /\ OnlyPlain =>
       /\ parse # "looping"
       /\ Agree(Reduced, out, symtab, slots)
       /\ held # NONE => \E l \in Nat : Waits(l)

LEMMA AgreeAddresses == TextInv => AddressesFollowText
BY DEF TextInv, AddressesFollowText, Agree, First

LEMMA AllReduced == held = NONE => Reduced = DataIn(out)
BY DEF Reduced, DataIn, IsData

LEMMA AllButLast ==
  ASSUME NEW S, NEW o \in Seq(S), NEW l \in Nat, l \in DataIn(o), \A k \in DataIn(o) : k <= l
  PROVE  {k \in DataIn(o) : \E j \in k + 1 .. Len(o) : j \in DataIn(o)} = DataIn(o) \ {l}
<1>1. DOMAIN o = 1 .. Len(o) /\ Len(o) \in Nat
  OBVIOUS
<1>2. ASSUME NEW k \in DataIn(o), k # l PROVE l \in k + 1 .. Len(o)
  <2>1. k \in 1 .. Len(o) /\ l \in 1 .. Len(o) /\ k <= l
    BY <1>1 DEF DataIn
  <2> QED BY <1>1, <1>2, <2>1
<1>3. \A j \in l + 1 .. Len(o) : j \notin DataIn(o)
  <2>1. \A j \in l + 1 .. Len(o) : ~ (j <= l)
    BY <1>1
  <2> QED BY <2>1
<1> QED BY <1>2, <1>3

LEMMA OneWaits ==
  ASSUME NEW S, out \in Seq(S), held # NONE, NEW l \in Nat, Waits(l)
  PROVE  Reduced = DataIn(out) \ {l}
<1>1. DOMAIN out = 1 .. Len(out) /\ Len(out) \in Nat
  OBVIOUS
<1>2. Reduced = {k \in DataIn(out) : \E j \in k + 1 .. Len(out) : j \in DataIn(out)}
  <2>1. ASSUME NEW k \in DOMAIN out, NEW j \in k + 1 .. Len(out) PROVE j \in DOMAIN out
    BY <1>1
  <2> QED BY <2>1 DEF Reduced, DataIn, IsData
<1> QED BY <1>2, AllButLast DEF Waits

LEMMA OneWaitsLater ==
  ASSUME NEW S, out' \in Seq(S), held' # NONE, NEW l \in Nat, Waits(l)'
  PROVE  Reduced' = DataIn(out') \ {l}
<1>1. DOMAIN out' = 1 .. Len(out') /\ Len(out') \in Nat
  OBVIOUS
<1>2. Reduced' = {k \in DataIn(out') : \E j \in k + 1 .. Len(out') : j \in DataIn(out')}
  <2>1. ASSUME NEW k \in DOMAIN out', NEW j \in k + 1 .. Len(out') PROVE j \in DOMAIN out'
    BY <1>1
  <2> QED BY <2>1 DEF Reduced, DataIn, IsData
<1> QED BY <1>2, AllButLast DEF Waits

(* What the parser got since then changes nothing. *)
LEMMA AgreeLater ==
  ASSUME NEW R, NEW o, NEW o2, NEW st, NEW sl, Agree(R, o, st, sl),
         \A k \in R : k \in DOMAIN o2 /\ o2[k] = o[k]
  PROVE  Agree(R, o2, st, sl)
<1>1. {o2[k].arg.name : k \in R} = {o[k].arg.name : k \in R}
  OBVIOUS
<1>2. \A k \in R : First(R, o2, k) <=> First(R, o, k)
  BY DEF First
<1>3. R \subseteq DataIn(o2)
  BY DEF Agree, DataIn
<1> QED BY <1>1, <1>2, <1>3 DEF Agree

(* The next statement is reduced. *)
LEMMA AgreeNext ==
  ASSUME NEW R, NEW o, NEW st, NEW sl, Agree(R, o, st, sl),
         R \subseteq Nat, NEW l \in DataIn(o), l \in Nat, \A k \in R : k < l,
         NEW st2, NEW name, name = o[l].arg.name,
         \/ name \in DOMAIN st /\ st2 = st
         \/ /\ name \notin DOMAIN st /\ DOMAIN st2 = DOMAIN st \union {name}
            /\ st2[name].index = sl
            /\ \A n \in DOMAIN st : st2[n] = st[n]
  PROVE  Agree(R \union {l}, o, st2, sl + 1)
<1> DEFINE Q == R \union {l}
<1>1. l \notin R
  OBVIOUS
<1>2. IsFiniteSet(Q) /\ Cardinality(Q) = sl + 1
  BY <1>1, FS_AddElement DEF Agree
<1>3. DOMAIN st = {o[k].arg.name : k \in R}
  BY DEF Agree
<1>4. DOMAIN st2 = {o[k].arg.name : k \in Q}
  BY <1>3
<1>5. {j \in Q : j < l} = R
  <2>1. ~ (l < l)
    OBVIOUS
  <2> QED BY <2>1
<1>6. ASSUME NEW k \in R
      PROVE  {j \in Q : j < k} = {j \in R : j < k} /\ (First(Q, o, k) => First(R, o, k))
  <2>1. ~ (l < k)
    BY <1>6
  <2> QED BY <2>1 DEF First
<1>7. ASSUME NEW k \in Q, First(Q, o, k)
      PROVE  st2[o[k].arg.name].index = Cardinality({j \in Q : j < k})
  <2>1. CASE k = l
    <3>1. name \notin DOMAIN st
      BY <1>3, <1>7, <2>1 DEF First
    <3> QED BY <1>5, <2>1, <3>1 DEF Agree
  <2>2. CASE k \in R
    <3>1. o[k].arg.name \in DOMAIN st
      BY <1>3, <2>2
    <3>2. st2[o[k].arg.name] = st[o[k].arg.name]
      BY <3>1
    <3> QED BY <1>6, <1>7, <2>2, <3>2 DEF Agree
  <2> QED BY <2>1, <2>2
<1> QED BY <1>2, <1>4, <1>7 DEF Agree

-------------------------------------------------------------------------------
LEMMA TextInitInv == AsmInit => TextInv
<1> SUFFICES ASSUME AsmInit PROVE TextInv
  OBVIOUS
<1>1. out \in Seq(Texts(files)) /\ out = << >> /\ DOMAIN out = {}
  BY DEF AsmInit, Init
<1>2. Reduced = {}
  BY <1>1 DEF Reduced
<1>3. Agree({}, out, symtab, 0)
  BY <1>1, FS_EmptySet DEF Agree, AsmInit
<1> QED BY <1>1, <1>2, <1>3, AsmInitInv DEF TextInv, AsmInit

(* Something that is no data NAME comes, or nothing. *)
LEMMA NoData ==
  ASSUME TextInv, OnlyPlain, UNCHANGED <<symtab, slots, held>>, NEW S, out \in Seq(S),
         \/ out' = out
         \/ \E x \in S : out' = Append(out, x) /\ ~ (x.kind = "word" /\ x.arg.op = "data")
  PROVE  /\ Agree(Reduced, out, symtab, slots)'
         /\ held' # NONE => \E l \in Nat : Waits(l)'
<1>1. /\ \A k \in DOMAIN out : k \in DOMAIN out' /\ out'[k] = out[k]
      /\ \A k \in DataIn(out') : k \in DOMAIN out
  <2>1. CASE out' = out
    BY <2>1 DEF DataIn
  <2>2. CASE out' # out
    <3>1. PICK x \in S : out' = Append(out, x) /\ ~ (x.kind = "word" /\ x.arg.op = "data")
      BY <2>2
    <3>2. /\ DOMAIN out = 1 .. Len(out) /\ DOMAIN out' = 1 .. Len(out) + 1 /\ Len(out) \in Nat
          /\ \A k \in 1 .. Len(out) : out'[k] = out[k]
          /\ out'[Len(out) + 1] = x
      BY <3>1
    <3>3. \A k \in DOMAIN out : k \in DOMAIN out' /\ out'[k] = out[k]
      BY <3>2
    <3>4. ASSUME NEW k \in DataIn(out') PROVE k \in DOMAIN out
      <4>1. k # Len(out) + 1
        BY <3>1, <3>2 DEF DataIn
      <4>2. k \in 1 .. Len(out) + 1
        BY <3>2 DEF DataIn
      <4> QED BY <3>2, <4>1, <4>2
    <3> QED BY <3>3, <3>4
  <2> QED BY <2>1, <2>2
<1>2. DataIn(out') = DataIn(out)
  BY <1>1 DEF DataIn
<1>3. held' = held /\ symtab' = symtab /\ slots' = slots
  OBVIOUS
<1>4. ASSUME NEW l \in Nat, Waits(l) PROVE Waits(l)'
  <2>1. l \in DOMAIN out
    BY <1>4 DEF Waits, DataIn
  <2> QED BY <1>1, <1>2, <1>3, <1>4, <2>1 DEF Waits
<1>5. held # NONE => \E l \in Nat : Waits(l)
  BY DEF TextInv
<1>6. Reduced' = Reduced
  <2>1. CASE held = NONE
    <3>1. Reduced = DataIn(out)
      BY <2>1, AllReduced
    <3>2. Reduced' = DataIn(out')
      BY <1>3, <2>1 DEF Reduced, DataIn, IsData
    <3> QED BY <1>2, <3>1, <3>2
  <2>2. CASE held # NONE
    <3>1. PICK l \in Nat : Waits(l)
      BY <1>5, <2>2
    <3>2. Reduced = DataIn(out) \ {l}
      BY <2>2, <3>1, OneWaits
    <3>3. Reduced' = DataIn(out') \ {l}
      <4>1. out' \in Seq(S)
        OBVIOUS
      <4> QED BY <1>3, <1>4, <2>2, <3>1, <4>1, OneWaitsLater
    <3> QED BY <1>2, <3>2, <3>3
  <2> QED BY <2>1, <2>2
<1>7. Agree(Reduced, out, symtab, slots)
  BY DEF TextInv
<1>8. \A k \in Reduced : k \in DOMAIN out
  BY DEF Reduced
<1>9. Agree(Reduced, out', symtab, slots)
  BY <1>1, <1>7, <1>8, AgreeLater
<1> QED BY <1>3, <1>4, <1>5, <1>6, <1>9

(* The statement data NAME is held until it is known what follows. *)
LEMMA Shifted ==
  ASSUME TextInv, OnlyPlain, ShiftData
  PROVE  Agree(Reduced, out, symtab, slots)' /\ \E l \in Nat : Waits(l)'
<1>1. /\ held = NONE /\ symtab' = symtab /\ slots' = slots
      /\ out' = Append(out, Lexeme) /\ held' = Lexeme.arg
      /\ Lexeme.kind = "word" /\ Lexeme.arg.op = "data"
  BY DEF ShiftData, Statement, Word
<1>0. PICK l \in Nat : l = Len(out) + 1
  BY DEF TextInv
<1>2. held' # NONE
  BY <1>1, StatementArg DEF TextInv, AsmInv, ShiftData
<1>3. /\ Len(out) \in Nat /\ DOMAIN out = 1 .. Len(out) /\ DOMAIN out' = 1 .. Len(out) + 1
      /\ out' \in Seq(Texts(files) \union {Lexeme})
      /\ out'[Len(out) + 1] = Lexeme
      /\ \A k \in 1 .. Len(out) : out'[k] = out[k]
  <2>1. out \in Seq(Texts(files) \union {Lexeme})
    BY DEF TextInv
  <2> QED BY <1>1, <2>1
<1>4. DataIn(out') = DataIn(out) \union {l}
  <2>1. l \in DataIn(out')
    BY <1>0, <1>1, <1>3 DEF DataIn
  <2>2. ASSUME NEW k \in DataIn(out') PROVE k \in DataIn(out) \union {l}
    <3>1. k \in 1 .. Len(out) + 1
      BY <1>3 DEF DataIn
    <3>2. k = l \/ k \in 1 .. Len(out)
      BY <1>0, <1>3, <3>1
    <3> QED BY <1>3, <3>2 DEF DataIn
  <2>3. ASSUME NEW k \in DataIn(out) PROVE k \in DataIn(out')
    <3>1. k \in 1 .. Len(out) /\ k \in 1 .. Len(out) + 1
      BY <1>3 DEF DataIn
    <3> QED BY <1>3, <3>1 DEF DataIn
  <2> QED BY <2>1, <2>2, <2>3
<1>5. l \notin DataIn(out) /\ \A k \in DataIn(out') : k <= l
  <2>1. l \notin DOMAIN out /\ \A k \in DOMAIN out' : k <= l
    BY <1>0, <1>3
  <2> QED BY <2>1 DEF DataIn
<1>6. Waits(l)'
  BY <1>0, <1>1, <1>3, <1>4, <1>5 DEF Waits
<1>7. Reduced' = Reduced
  <2>1. Reduced = DataIn(out)
    BY <1>1, AllReduced
  <2>2. Reduced' = DataIn(out') \ {l}
    BY <1>2, <1>3, <1>6, OneWaitsLater
  <2> QED BY <1>4, <1>5, <2>1, <2>2
<1>8. Agree(Reduced, out', symtab, slots)
  <2>1. Agree(Reduced, out, symtab, slots)
    BY DEF TextInv
  <2>2. \A k \in Reduced : k \in DOMAIN out' /\ out'[k] = out[k]
    <3>1. \A k \in DOMAIN out : k \in DOMAIN out' /\ out'[k] = out[k]
      BY <1>3
    <3> QED BY <3>1 DEF Reduced
  <2> QED BY <2>1, <2>2, AgreeLater
<1> QED BY <1>1, <1>6, <1>7, <1>8

(* Then it gets the next item. *)
LEMMA ReducedNow ==
  ASSUME TextInv, OnlyPlain, ReduceData
  PROVE  Agree(Reduced, out, symtab, slots)' /\ held' = NONE
<1>1. /\ held # NONE /\ held' = NONE /\ out' = out /\ slots' = slots + 1
      /\ AddSymbol(held.name, 1, slots)
  BY DEF ReduceData, srcvars
<1>2. PICK l \in Nat : Waits(l)
  BY <1>1 DEF TextInv
<1>3. out \in Seq(Texts(files)) /\ Agree(Reduced, out, symtab, slots)
  BY DEF TextInv
<1>4. Reduced = DataIn(out) \ {l} /\ l \in DataIn(out) /\ held = out[l].arg
  BY <1>1, <1>2, <1>3, OneWaits DEF Waits
<1>5. Reduced' = DataIn(out)
  BY <1>1 DEF Reduced, DataIn, IsData
<1>6. Reduced' = Reduced \union {l}
  BY <1>4, <1>5
<1>7. Reduced \subseteq Nat /\ \A k \in Reduced : k < l
  <2>1. DOMAIN out \subseteq Nat
    BY <1>3
  <2>2. \A k \in DataIn(out) : k \in Nat /\ k <= l
    BY <1>2, <2>1 DEF Waits, DataIn
  <2>3. ASSUME NEW k \in Reduced PROVE k \in Nat /\ k < l
    <3>1. k \in Nat /\ k <= l /\ k # l
      BY <1>4, <2>2
    <3> QED BY <3>1
  <2> QED BY <2>3
<1>8. \/ held.name \in DOMAIN symtab /\ symtab' = symtab
      \/ /\ held.name \notin DOMAIN symtab /\ DOMAIN symtab' = DOMAIN symtab \union {held.name}
         /\ symtab'[held.name].index = slots
         /\ \A n \in DOMAIN symtab : symtab'[n] = symtab[n]
  BY <1>1 DEF AddSymbol
<1>9. Agree(Reduced \union {l}, out, symtab', slots + 1)
  BY <1>3, <1>4, <1>7, <1>8, AgreeNext
<1> QED BY <1>1, <1>6, <1>9

LEMMA TextStepInv == TextInv /\ AsmInv' /\ [AsmNext]_vars => TextInv'
<1> SUFFICES ASSUME TextInv, AsmInv', [AsmNext]_vars PROVE TextInv'
  OBVIOUS
<1>1. TypeOK /\ out \in Seq(Texts(files)) /\ [Next]_srcvars
  BY ScannerSteps DEF TextInv, AsmInv
<1>2. out' \in Seq(Texts(files))'
  BY <1>1, OutGrows
<1> SUFFICES ASSUME OnlyPlain'
             PROVE  /\ parse' # "looping"
                    /\ Agree(Reduced, out, symtab, slots)'
                    /\ held' # NONE => \E l \in Nat : Waits(l)'
  BY <1>2 DEF TextInv
<1>3. OnlyPlain /\ parse # "looping"
  BY <1>1, PlainBefore DEF TextInv
<1>4. CASE ShiftData
  BY <1>3, <1>4, Shifted DEF ShiftData
<1>5. CASE ReduceData
  BY <1>3, <1>5, ReducedNow DEF ReduceData
<1>6. CASE BeginArray
  BY <1>1, <1>6, NotPlain DEF BeginArray
<1>7. CASE BeginArrayFails
  BY <1>1, <1>7, NotPlain DEF BeginArrayFails
<1>8. CASE ArrayElement \/ ArrayDone
  BY <1>3, <1>8 DEF ArrayElement, ArrayDone
<1>9. CASE Initialized
  BY <1>1, <1>9, NotPlain DEF Initialized
<1>10. CASE InitializedList
  BY <1>1, <1>10, NotPlain DEF InitializedList
<1> DEFINE Quiet == \/ out' = out
                    \/ /\ out' = Append(out, Lexeme)
                       /\ ~ (Lexeme.kind = "word" /\ Lexeme.arg.op = "data")
<1>11. CASE UNCHANGED <<symtab, slots, held>> /\ parse' # "looping" /\ Quiet
  <2>1. out \in Seq(Texts(files) \union {Lexeme})
    BY <1>1
  <2> QED BY <1>3, <1>11, <2>1, NoData
<1>12. CASE OutOfMemory \/ EndOfInput \/ Dump \/ UNCHANGED vars
  BY <1>3, <1>11, <1>12 DEF OutOfMemory, EndOfInput, Dump, vars, srcvars, asmvars
<1>13. CASE NoEffect
  <2>1. Quiet
    BY <1>13 DEF NoEffect, Statement, Word
  <2> QED BY <1>3, <1>11, <1>13, <2>1 DEF NoEffect, asmvars
<1>14. CASE InvalidCharacter
  BY <1>3, <1>11, <1>14 DEF InvalidCharacter, Junk
<1>15. CASE SyntaxError
  <2>1. Quiet
    BY <1>15 DEF SyntaxError, Word
  <2> QED BY <1>11, <1>15, <2>1 DEF SyntaxError
<1>16. CASE Scan
  <2>1. Quiet
    BY <1>16 DEF Scan, Skip, Begin, EndFile, OpenFile, Matches, Lexeme
  <2> QED BY <1>3, <1>11, <1>16, <2>1 DEF Scan, asmvars
<1>17. CASE ScanFails
  <2>1. Quiet
    BY <1>17 DEF ScanFails, OpenFails, Matches, Lexeme
  <2> QED BY <1>11, <1>17, <2>1 DEF ScanFails
<1> QED
  BY <1>4, <1>5, <1>6, <1>7, <1>8, <1>9, <1>10, <1>12, <1>13, <1>14, <1>15, <1>16, <1>17
  DEF AsmNext

(* In a program of plain definitions the address of a name is the number of *)
(* definitions in front of its first one, through all the files (open_file, *)
(* the end of a file, add_symbol and append_data_buffer).                   *)
THEOREM AddressesRight == AsmSpec => []AddressesFollowText
  BY TextInitInv, TextStepInv, AgreeAddresses, AsmCorrect, PTL DEF AsmSpec

-------------------------------------------------------------------------------
(* CodeKept byte by byte, with the writes below the length. *)
Kept ==
  /\ \A n \in DOMAIN writes :
       /\ writes[n].at + writes[n].width <= codeLen
       /\ writes[n].at = IF n = 1 THEN 0 ELSE writes[n - 1].at + writes[n - 1].width
       /\ \A k \in 0 .. writes[n].width - 1 : code[writes[n].at + k] = <<writes[n].val, k>>
  /\ codeLen = IF writes = << >> THEN 0
               ELSE writes[Len(writes)].at + writes[Len(writes)].width

CodeInv == CodeTypeOK /\ Kept

(* An item takes two numbers, and a string its bytes as well. *)
Size(e) == IF e.type = STRING_ THEN 2 + e.val ELSE 2

(* The items lie in the file one behind the other. *)
Framed ==
  /\ \A k \in DOMAIN saved :
       /\ saved[k].at + 2 <= Len(file)
       /\ file[saved[k].at + 1] = saved[k].type
       /\ file[saved[k].at + 2] = saved[k].val
       /\ saved[k].at + Size(saved[k]) =
            IF k = Len(saved) THEN Len(file) ELSE saved[k + 1].at
  /\ IF saved = << >> THEN file = << >> ELSE saved[1].at = 0

(* The next item to be loaded begins where the file is read. *)
InStep ==
  /\ loaded = << >> => at = 0
  /\ IF Len(loaded) < Len(saved) THEN at = saved[Len(loaded) + 1].at ELSE at >= Len(file)

FileInv == FileTypeOK /\ Framed /\ InStep /\ LoadsBack

-------------------------------------------------------------------------------
(* The members of the three histories. *)
Call == [at : Nat, width : Width, val : Value]
SavedItem == [type : Numeric \union {STRING_}, val : Nat, at : Nat]
LoadedItem == [type : Numeric \union {STRING_}, val : Nat]

LEMMA Member ==
  ASSUME NEW S, NEW s \in Seq(S), NEW n \in DOMAIN s
  PROVE  s[n] \in S /\ n \in 1 .. Len(s) /\ Len(s) \in Nat
<1>1. DOMAIN s = 1 .. Len(s) /\ Len(s) \in Nat
  BY LenProperties
<1> QED BY <1>1, ElementOfSeq

LEMMA Appended ==
  ASSUME NEW S, NEW s \in Seq(S), NEW e \in S, NEW t, t = Append(s, e)
  PROVE  /\ t \in Seq(S) /\ t # << >>
         /\ Len(s) \in Nat /\ Len(t) = Len(s) + 1
         /\ DOMAIN s = 1 .. Len(s) /\ DOMAIN t = 1 .. Len(s) + 1
         /\ t[Len(s) + 1] = e
         /\ \A n \in 1 .. Len(s) : t[n] = s[n]
<1>1. t \in Seq(S) /\ Len(t) = Len(s) + 1 /\ t # << >>
  BY AppendProperties
<1>2. DOMAIN s = 1 .. Len(s) /\ Len(s) \in Nat /\ DOMAIN t = 1 .. Len(s) + 1
  BY <1>1, LenProperties
<1> QED BY <1>1, <1>2, AppendProperties

LEMMA Concatenated ==
  ASSUME NEW S, NEW s \in Seq(S), NEW t \in Seq(S)
  PROVE  /\ s \o t \in Seq(S) /\ Len(s \o t) = Len(s) + Len(t)
         /\ Len(s) \in Nat /\ Len(t) \in Nat
         /\ \A j \in 1 .. Len(s) : (s \o t)[j] = s[j]
         /\ \A j \in 1 .. Len(t) : (s \o t)[Len(s) + j] = t[j]
<1>1. Len(s) \in Nat /\ Len(t) \in Nat
  BY LenProperties
<1>2. ASSUME NEW j \in 1 .. Len(s) PROVE (s \o t)[j] = s[j]
  <2>1. j \in 1 .. Len(s) + Len(t) /\ j <= Len(s)
    BY <1>1
  <2> QED BY <2>1, ConcatProperties
<1>3. ASSUME NEW j \in 1 .. Len(t) PROVE (s \o t)[Len(s) + j] = t[j]
  <2>1. /\ Len(s) + j \in 1 .. Len(s) + Len(t) /\ ~ (Len(s) + j <= Len(s))
        /\ (Len(s) + j) - Len(s) = j
    BY <1>1
  <2>2. (s \o t)[Len(s) + j] = t[(Len(s) + j) - Len(s)]
    BY <2>1, ConcatProperties
  <2> QED BY <2>1, <2>2
<1> QED BY <1>1, <1>2, <1>3, ConcatProperties

LEMMA Widths == \A w \in Width : w \in Nat
BY CodeAssumption

LEMMA Numbers ==
  ASSUME NEW a \in Nat, NEW w \in Nat, NEW c \in Nat, NEW d \in Nat, a <= c, a + w <= d
  PROVE  /\ \A k \in 0 .. a - 1 : k \in 0 .. d - 1 /\ k < c /\ k \notin a .. a + w - 1
         /\ \A k \in 0 .. w - 1 : /\ a + k \in 0 .. d - 1 /\ (a + k) - a = k
                                  /\ a + k \in a .. a + w - 1
OBVIOUS

LEMMA CodeInitInv == CodeInit => CodeInv
<1> SUFFICES ASSUME CodeInit PROVE CodeInv
  OBVIOUS
<1>1. CodeTypeOK
  BY CodeAssumption DEF CodeInit, CodeTypeOK, Byte
<1>2. Kept
  BY DEF CodeInit, Kept
<1> QED BY <1>1, <1>2 DEF CodeInv

(* What was written can be read. *)
LEMMA KeptIsRead == CodeInv => CodeKept
<1> SUFFICES ASSUME CodeInv PROVE CodeKept
  OBVIOUS
<1>1. ASSUME NEW n \in DOMAIN writes
      PROVE  Read(writes[n].at, writes[n].width)
               = [k \in 0 .. writes[n].width - 1 |-> <<writes[n].val, k>>]
  <2>1. writes \in Seq(Call)
    BY DEF CodeInv, CodeTypeOK, Call
  <2>2. writes[n].at \in Nat /\ writes[n].width \in Nat
    <3>1. writes[n] \in Call
      BY <2>1, Member
    <3>2. writes[n].at \in Nat /\ writes[n].width \in Width
      BY <3>1 DEF Call
    <3> QED BY <3>2, Widths
  <2>3. ASSUME NEW k \in 0 .. writes[n].width - 1
        PROVE  writes[n].at + k < codeCap /\ code[writes[n].at + k] = <<writes[n].val, k>>
    <3>1. writes[n].at + writes[n].width <= codeLen
      BY DEF CodeInv, Kept
    <3>2. codeLen \in Nat /\ codeCap \in Nat /\ codeLen <= codeCap
      BY DEF CodeInv, CodeTypeOK
    <3>3. code[writes[n].at + k] = <<writes[n].val, k>>
      BY DEF CodeInv, Kept
    <3> QED BY <2>2, <3>1, <3>2, <3>3
  <2> QED BY <2>3 DEF Read
<1> QED BY <1>1 DEF CodeInv, Kept, CodeKept

(* The capacity grows, and there is room. *)
LEMMA ResizeFits ==
  ASSUME CodeInv, NEW w \in Width, Resize(w)
  PROVE  codeCap' \in Nat /\ codeCap' >= codeCap /\ codeLen + w <= codeCap'
BY CodeAssumption DEF CodeInv, CodeTypeOK, Resize

(* A write leaves the bytes below the length alone. *)
LEMMA AddCodeInv ==
  ASSUME CodeInv, NEW w \in Width, NEW v \in Value, AddCode(w, v)
  PROVE  CodeInv'
<1> DEFINE new == [at |-> codeLen, width |-> w, val |-> v]
<1>1. /\ codeLen \in Nat /\ codeCap \in Nat /\ codeLen <= codeCap
      /\ w \in Nat /\ w > 0 /\ w <= CodeCap /\ CodeCap <= codeCap
  BY CodeAssumption DEF CodeInv, CodeTypeOK
<1>2. codeCap' \in Nat /\ codeCap' >= codeCap /\ codeLen + w <= codeCap'
  BY ResizeFits DEF AddCode
<1>3. /\ writes' = Append(writes, new) /\ codeLen' = codeLen + w /\ index' = index
      /\ code' = [k \in 0 .. codeCap' - 1 |->
                    IF k \in codeLen .. codeLen + w - 1 THEN <<v, k - codeLen>>
                    ELSE IF k < codeCap THEN code[k] ELSE JUNK]
  BY DEF AddCode, Write
<1>4. /\ writes' \in Seq(Call) /\ writes' # << >>
      /\ Len(writes) \in Nat /\ Len(writes') = Len(writes) + 1
      /\ DOMAIN writes = 1 .. Len(writes) /\ DOMAIN writes' = 1 .. Len(writes) + 1
      /\ writes'[Len(writes) + 1] = new
      /\ \A n \in 1 .. Len(writes) : writes'[n] = writes[n]
  <2>1. writes \in Seq(Call) /\ new \in Call
    BY <1>1 DEF CodeInv, CodeTypeOK, Call
  <2>2. writes' = Append(writes, new)
    BY <1>3
  <2> HIDE DEF new
  <2> QED BY <2>1, <2>2, Appended
<1>5. CodeTypeOK'
  <2>1. \A k \in 0 .. codeCap' - 1 :
          (IF k \in codeLen .. codeLen + w - 1 THEN <<v, k - codeLen>>
           ELSE IF k < codeCap THEN code[k] ELSE JUNK) \in Byte
    BY <1>1, <1>2 DEF CodeInv, CodeTypeOK, Byte
  <2>2. code' \in [0 .. codeCap' - 1 -> Byte]
    BY <1>3, <2>1
  <2>3. /\ codeCap' \in Nat /\ codeCap' >= CodeCap /\ codeLen' \in 0 .. codeCap'
        /\ index' \in 0 .. MaxCode
    BY <1>1, <1>2, <1>3, CodeAssumption DEF CodeInv, CodeTypeOK
  <2> QED BY <1>4, <2>2, <2>3 DEF CodeTypeOK, Call
<1>6. \A k \in 0 .. codeLen - 1 : code'[k] = code[k]
  <2>1. ASSUME NEW k \in 0 .. codeLen - 1 PROVE code'[k] = code[k]
    <3>1. k \in 0 .. codeCap' - 1 /\ k < codeCap /\ k \notin codeLen .. codeLen + w - 1
      BY <1>1, <1>2, Numbers
    <3> QED BY <1>3, <3>1
  <2> QED BY <2>1
<1>7. \A k \in 0 .. w - 1 : code'[codeLen + k] = <<v, k>>
  <2>1. \A k \in 0 .. w - 1 : /\ codeLen + k \in 0 .. codeCap' - 1
                                /\ (codeLen + k) - codeLen = k
                                /\ codeLen + k \in codeLen .. codeLen + w - 1
    BY <1>1, <1>2, Numbers
  <2>2. ASSUME NEW k \in 0 .. w - 1 PROVE code'[codeLen + k] = <<v, k>>
    BY <1>3, <2>1
  <2> QED BY <2>2
<1>8. ASSUME NEW n \in DOMAIN writes'
      PROVE  /\ writes'[n].at + writes'[n].width <= codeLen'
             /\ writes'[n].at = IF n = 1 THEN 0 ELSE writes'[n - 1].at + writes'[n - 1].width
             /\ \A k \in 0 .. writes'[n].width - 1 :
                  code'[writes'[n].at + k] = <<writes'[n].val, k>>
  <2>1. CASE n = Len(writes) + 1
    <3>1. writes'[n].at = codeLen /\ writes'[n].width = w /\ writes'[n].val = v
      BY <1>4, <2>1
    <3>2. codeLen = IF n = 1 THEN 0 ELSE writes'[n - 1].at + writes'[n - 1].width
      <4>1. CASE writes = << >>
        BY <1>4, <2>1, <4>1 DEF CodeInv, Kept
      <4>2. CASE writes # << >>
        <5>1. writes \in Seq(Call)
          BY DEF CodeInv, CodeTypeOK, Call
        <5>2. Len(writes) # 0
          BY <4>2, <5>1, EmptySeq
        <5>3. n # 1 /\ n - 1 = Len(writes) /\ n - 1 \in 1 .. Len(writes)
          BY <1>4, <2>1, <5>2
        <5> QED BY <1>4, <4>2, <5>3 DEF CodeInv, Kept
      <4> QED BY <4>1, <4>2
    <3>3. writes'[n].at + writes'[n].width <= codeLen'
      BY <1>1, <1>3, <3>1
    <3>4. \A k \in 0 .. writes'[n].width - 1 : code'[writes'[n].at + k] = <<writes'[n].val, k>>
      BY <1>7, <3>1
    <3> QED BY <3>1, <3>2, <3>3, <3>4
  <2>2. CASE n # Len(writes) + 1
    <3>1. n \in 1 .. Len(writes) /\ (n # 1 => n - 1 \in 1 .. Len(writes))
      BY <1>4, <2>2
    <3>2. n \in DOMAIN writes /\ writes'[n] = writes[n] /\ (n # 1 => writes'[n - 1] = writes[n - 1])
      BY <1>4, <3>1
    <3>3. writes[n].at \in Nat /\ writes[n].width \in Nat
      <4>1. writes \in Seq(Call)
        BY DEF CodeInv, CodeTypeOK, Call
      <4>2. writes[n] \in Call
        BY <3>2, <4>1, Member
      <4>3. writes[n].at \in Nat /\ writes[n].width \in Width
        BY <4>2 DEF Call
      <4> QED BY <4>3, Widths
    <3>4. /\ writes[n].at + writes[n].width <= codeLen
          /\ writes[n].at = IF n = 1 THEN 0 ELSE writes[n - 1].at + writes[n - 1].width
          /\ \A k \in 0 .. writes[n].width - 1 : code[writes[n].at + k] = <<writes[n].val, k>>
      BY <3>2 DEF CodeInv, Kept
    <3>5. ASSUME NEW k \in 0 .. writes[n].width - 1
          PROVE  code'[writes[n].at + k] = <<writes[n].val, k>>
      <4>1. writes[n].at + k \in 0 .. codeLen - 1
        BY <1>1, <3>3, <3>4
      <4> QED BY <1>6, <3>4, <4>1
    <3>6. writes[n].at + writes[n].width <= codeLen'
      BY <1>1, <1>3, <3>3, <3>4
    <3> QED BY <3>2, <3>4, <3>5, <3>6
  <2> QED BY <2>1, <2>2
<1>9. codeLen' = writes'[Len(writes')].at + writes'[Len(writes')].width /\ writes' # << >>
  BY <1>1, <1>3, <1>4
<1>10. Kept'
  BY <1>8, <1>9 DEF Kept
<1> QED BY <1>5, <1>10 DEF CodeInv

(* Reading moves the index and nothing else. *)
LEMMA CodeReadInv ==
  ASSUME CodeInv, index' \in 0 .. MaxCode, UNCHANGED <<code, codeLen, codeCap, writes>>
  PROVE  CodeInv'
BY DEF CodeInv, CodeTypeOK, Kept

LEMMA CodeStepInv == CodeInv /\ [CodeNext]_codeVars => CodeInv'
<1> SUFFICES ASSUME CodeInv, [CodeNext]_codeVars PROVE CodeInv'
  OBVIOUS
<1>1. index \in 0 .. MaxCode /\ MaxCode \in Nat /\ \A w \in Width : w \in Nat
  BY CodeAssumption DEF CodeInv, CodeTypeOK
<1>2. ASSUME NEW w \in Width, ReadCode(w) PROVE CodeInv'
  BY <1>1, <1>2, CodeReadInv DEF ReadCode
<1>3. CASE ResetCodeIndex
  BY <1>1, <1>3, CodeReadInv DEF ResetCodeIndex
<1>4. ASSUME NEW j \in 0 .. MaxCode, SetCodeIndex(j) PROVE CodeInv'
  BY <1>1, <1>4, CodeReadInv DEF SetCodeIndex
<1>5. CASE UNCHANGED codeVars
  BY <1>1, <1>5, CodeReadInv DEF codeVars
<1> QED BY <1>2, <1>3, <1>4, <1>5, AddCodeInv DEF CodeNext

-------------------------------------------------------------------------------
LEMMA FileInitInv == FileInit => FileInv
BY DEF FileInit, FileInv, FileTypeOK, Framed, InStep, LoadsBack

LEMMA ItemFields ==
  ASSUME NEW item \in Item
  PROVE  item.type \in Numeric \union {STRING_} /\ item.type \in Nat /\ item.val \in Nat
<1>1. CASE item \in [type : Numeric, val : Number]
  <2>1. item.type \in Numeric /\ item.val \in Number
    BY <1>1
  <2>2. item.type \in Nat
    BY <2>1 DEF Numeric, INTEGER, UNSIGNED, FLOAT
  <2> QED BY <2>1, <2>2, ItemAssumption
<1>2. CASE item \in [type : {STRING_}, val : 0 .. MaxString]
  <2>1. item.type = STRING_ /\ item.val \in 0 .. MaxString
    BY <1>2
  <2> QED BY <2>1, ItemAssumption DEF STRING_
<1>3. AsUnsigned \in [Number -> Number]
  BY ItemAssumption
<1>4. CASE item \in [type : {INTEGER, UNSIGNED}, val : Number]
  BY <1>1, <1>4 DEF Numeric
<1>5. CASE item \in [type : {FLOAT}, val : {AsUnsigned[f] : f \in Number}]
  <2>1. item \in [type : Numeric, val : Number]
    BY <1>3, <1>5 DEF Numeric
  <2> QED BY <1>1, <2>1
<1> QED BY <1>2, <1>4, <1>5 DEF Item

(* Something is saved behind what is in the file. *)
LEMMA SaveInv ==
  ASSUME FileInv, NEW item \in Item, NEW bytes \in Seq(Raw),
         Writing, Len(bytes) = IF item.type = STRING_ THEN item.val ELSE 0,
         file' = file \o (<<item.type, item.val>> \o bytes),
         saved' = Append(saved, Placed(item)), UNCHANGED <<at, loaded>>
  PROVE  FileInv'
<1> DEFINE cells == <<item.type, item.val>> \o bytes
<1> DEFINE C == Nat \union Raw
<1>1. item.type \in Numeric \union {STRING_} /\ item.type \in Nat /\ item.val \in Nat
  BY ItemFields
<1>2. /\ cells \in Seq(C) /\ Len(cells) = Size(item)
      /\ cells[1] = item.type /\ cells[2] = item.val
  <2> DEFINE head == <<item.type, item.val>>
  <2>1. /\ head \in Seq(C) /\ Len(head) = 2
        /\ head[1] = item.type /\ head[2] = item.val
    BY <1>1
  <2>2. bytes \in Seq(C) /\ cells = head \o bytes
    OBVIOUS
  <2>3. 2 + Len(bytes) = Size(item)
    BY DEF Size
  <2> HIDE DEF head, C, cells
  <2>4. head \o bytes \in Seq(C) /\ Len(head \o bytes) = Len(head) + Len(bytes)
    BY <2>1, <2>2, Concatenated
  <2>5. \A j \in 1 .. Len(head) : (head \o bytes)[j] = head[j]
    BY <2>1, <2>2, Concatenated
  <2> QED BY <2>1, <2>2, <2>3, <2>4, <2>5
<1>3. /\ file \in Seq(C) /\ Len(file) \in Nat
      /\ saved \in Seq(SavedItem)
      /\ Len(saved) \in Nat /\ DOMAIN saved = 1 .. Len(saved)
  BY DEF FileInv, FileTypeOK, SavedItem
<1>4. /\ file' \in Seq(C)
      /\ Len(file') = Len(file) + Size(item)
      /\ \A k \in 1 .. Len(file) : file'[k] = file[k]
      /\ file'[Len(file) + 1] = item.type /\ file'[Len(file) + 2] = item.val
      /\ Size(item) \in Nat /\ Size(item) >= 2
  <2>1. Size(item) \in Nat /\ Size(item) >= 2
    BY <1>1 DEF Size
  <2>2. file' = file \o cells
    OBVIOUS
  <2> HIDE DEF cells, C
  <2>3. /\ file \o cells \in Seq(C) /\ Len(file \o cells) = Len(file) + Len(cells)
        /\ \A k \in 1 .. Len(file) : (file \o cells)[k] = file[k]
        /\ \A k \in 1 .. Len(cells) : (file \o cells)[Len(file) + k] = cells[k]
    <3>1. file \in Seq(C) /\ cells \in Seq(C)
      BY <1>2, <1>3
    <3> QED BY <3>1, Concatenated
  <2>4. 1 \in 1 .. Len(cells) /\ 2 \in 1 .. Len(cells)
    BY <1>2, <2>1
  <2> QED BY <1>2, <2>1, <2>2, <2>3, <2>4
<1> HIDE DEF cells, C
<1>5. Placed(item) = [type |-> item.type, val |-> item.val, at |-> Len(file)]
  BY DEF Placed
<1>6. /\ saved' \in Seq(SavedItem) /\ saved' # << >>
      /\ Len(saved') = Len(saved) + 1 /\ DOMAIN saved' = 1 .. Len(saved) + 1
      /\ saved'[Len(saved) + 1] = Placed(item)
      /\ \A k \in 1 .. Len(saved) : saved'[k] = saved[k]
  <2>1. Placed(item) \in SavedItem
    BY <1>1, <1>3, <1>5 DEF SavedItem
  <2> QED BY SMTT(60), <1>3, <2>1, Appended
<1>7. FileTypeOK'
  BY <1>4, <1>6 DEF FileInv, FileTypeOK, SavedItem, C
<1>8. ASSUME NEW k \in DOMAIN saved'
      PROVE  /\ saved'[k].at + 2 <= Len(file')
             /\ file'[saved'[k].at + 1] = saved'[k].type
             /\ file'[saved'[k].at + 2] = saved'[k].val
             /\ saved'[k].at + Size(saved'[k]) =
                  IF k = Len(saved') THEN Len(file') ELSE saved'[k + 1].at
  <2>1. CASE k = Len(saved) + 1
    <3>1. /\ saved'[k].at = Len(file) /\ saved'[k].type = item.type
          /\ saved'[k].val = item.val /\ k = Len(saved')
      BY <1>3, <1>5, <1>6, <2>1
    <3>2. Size(saved'[k]) = Size(item)
      BY <3>1 DEF Size
    <3> QED BY <1>3, <1>4, <3>1, <3>2
  <2>2. CASE k # Len(saved) + 1
    <3>1. k \in 1 .. Len(saved)
      BY <1>3, <1>6, <2>2
    <3>2. saved'[k] = saved[k] /\ k # Len(saved')
      BY <1>3, <1>6, <2>2, <3>1
    <3>3. saved[k].at \in Nat /\ Size(saved[k]) \in Nat
      <4>1. saved[k] \in SavedItem
        BY <1>3, <3>1, Member
      <4>2. saved[k].at \in Nat /\ saved[k].val \in Nat
        BY <4>1 DEF SavedItem
      <4> QED BY <4>2 DEF Size
    <3>4. /\ saved[k].at + 2 <= Len(file)
          /\ file[saved[k].at + 1] = saved[k].type
          /\ file[saved[k].at + 2] = saved[k].val
          /\ saved[k].at + Size(saved[k]) =
               IF k = Len(saved) THEN Len(file) ELSE saved[k + 1].at
      BY <1>3, <3>1 DEF FileInv, Framed
    <3>5. saved'[k + 1].at = IF k = Len(saved) THEN Len(file) ELSE saved[k + 1].at
      <4>1. CASE k = Len(saved)
        BY <1>5, <1>6, <4>1
      <4>2. CASE k # Len(saved)
        <5>1. k + 1 \in 1 .. Len(saved)
          BY <1>3, <3>1, <4>2
        <5> QED BY <1>6, <4>2, <5>1
      <4> QED BY <4>1, <4>2
    <3>6. saved[k].at + 2 <= Len(file')
      <4>1. Len(file') \in Nat /\ Len(file) <= Len(file')
        BY <1>3, <1>4
      <4> QED BY <1>3, <3>3, <3>4, <4>1
    <3>7. file'[saved[k].at + 1] = saved[k].type /\ file'[saved[k].at + 2] = saved[k].val
      <4>1. saved[k].at + 1 \in 1 .. Len(file)
        BY SMTT(60), <1>3, <3>3, <3>4
      <4>2. saved[k].at + 2 \in 1 .. Len(file)
        BY SMTT(60), <1>3, <3>3, <3>4
      <4> QED BY <1>4, <3>4, <4>1, <4>2
    <3> QED BY <3>2, <3>4, <3>5, <3>6, <3>7
  <2> QED BY <2>1, <2>2
<1>9. saved'[1].at = 0
  <2>1. CASE saved = << >>
    BY <1>5, <1>6, <2>1 DEF FileInv, Framed
  <2>2. CASE saved # << >>
    <3>1. Len(saved) # 0
      BY <1>3, <2>2, EmptySeq
    <3>2. saved'[1] = saved[1]
      BY <1>3, <1>6, <3>1
    <3> QED BY <2>2, <3>2 DEF FileInv, Framed
  <2> QED BY <2>1, <2>2
<1>10. Framed'
  BY <1>6, <1>8, <1>9 DEF Framed
<1>11. loaded = << >> /\ Len(loaded) = 0 /\ at = 0
  BY DEF Writing, FileInv, InStep
<1>12. InStep'
  BY <1>3, <1>6, <1>9, <1>11 DEF InStep
<1>13. LoadsBack'
  BY <1>11 DEF LoadsBack
<1> QED BY <1>7, <1>10, <1>12, <1>13 DEF FileInv

-------------------------------------------------------------------------------
(* The item that comes is the next one that was saved, or a zero. *)
LEMMA NextItem ==
  ASSUME FileInv
  PROVE  IF Len(loaded) < Len(saved)
           THEN LET e == saved[Len(loaded) + 1]
                IN  /\ Cell(at) = e.type /\ Cell(at + 1) = e.val
                    /\ e.type \in Numeric \union {STRING_} /\ e.val \in Nat
                    /\ at + Size(e) = IF Len(loaded) + 1 < Len(saved)
                                        THEN saved[Len(loaded) + 2].at ELSE Len(file)
           ELSE Cell(at) = 0 /\ Cell(at + 1) = 0
<1>1. /\ Len(loaded) \in Nat /\ Len(saved) \in Nat /\ at \in Nat /\ Len(file) \in Nat
      /\ DOMAIN saved = 1 .. Len(saved)
      /\ saved \in Seq(SavedItem)
  BY DEF FileInv, FileTypeOK, SavedItem
<1>2. CASE Len(loaded) < Len(saved)
  <2> DEFINE k == Len(loaded) + 1
  <2>1. k \in 1 .. Len(saved) /\ at = saved[k].at
    BY <1>1, <1>2 DEF FileInv, InStep
  <2>2. saved[k].type \in Numeric \union {STRING_} /\ saved[k].val \in Nat
    <3>1. saved[k] \in SavedItem
      BY <1>1, <2>1, Member
    <3> QED BY <3>1 DEF SavedItem
  <2>3. /\ at + 2 <= Len(file) /\ file[at + 1] = saved[k].type /\ file[at + 2] = saved[k].val
        /\ at + Size(saved[k]) = IF k = Len(saved) THEN Len(file) ELSE saved[k + 1].at
    BY <1>1, <2>1 DEF FileInv, Framed
  <2>4. /\ at < Len(file) /\ at + 1 < Len(file) /\ (at + 1) + 1 = at + 2
        /\ k + 1 = Len(loaded) + 2 /\ (k = Len(saved) <=> ~ (Len(loaded) + 1 < Len(saved)))
    <3>1. at + 2 <= Len(file)
      BY <2>3
    <3>2. at < Len(file) /\ at + 1 < Len(file) /\ (at + 1) + 1 = at + 2
      BY <1>1, <3>1
    <3>3. k + 1 = Len(loaded) + 2 /\ (k = Len(saved) <=> ~ (Len(loaded) + 1 < Len(saved)))
      <4>1. ASSUME NEW a \in Nat, NEW b \in Nat, a < b
            PROVE  (a + 1) + 1 = a + 2 /\ (a + 1 = b <=> ~ (a + 1 < b))
        BY <4>1
      <4> QED BY <1>1, <1>2, <4>1
    <3> QED BY <3>2, <3>3
  <2>5. Cell(at) = saved[k].type /\ Cell(at + 1) = saved[k].val
    BY <2>3, <2>4 DEF Cell
  <2> QED BY <1>2, <2>2, <2>3, <2>4, <2>5
<1>3. CASE ~ (Len(loaded) < Len(saved))
  <2>1. at >= Len(file)
    BY <1>3 DEF FileInv, InStep
  <2>2. ~ (at < Len(file)) /\ ~ (at + 1 < Len(file))
    BY <1>1, <2>1
  <2> QED BY <1>3, <2>2 DEF Cell
<1> QED BY <1>2, <1>3

LEMMA LoadInv ==
  ASSUME FileInv, NEW val \in Nat, NEW size \in Nat, Cell(at) \in Numeric \union {STRING_},
         IF Cell(at) = STRING_ THEN val <= Cell(at + 1) /\ size = 2 + Cell(at + 1)
                               ELSE val = Cell(at + 1) /\ size = 2,
         loaded' = Append(loaded, [type |-> Cell(at), val |-> val]),
         at' = at + size, UNCHANGED <<file, saved>>
  PROVE  FileInv'
<1> DEFINE n == Len(loaded)
<1>1. /\ n \in Nat /\ Len(saved) \in Nat /\ at \in Nat /\ Len(file) \in Nat
      /\ DOMAIN loaded = 1 .. n
      /\ loaded \in Seq(LoadedItem)
  BY DEF FileInv, FileTypeOK, LoadedItem
<1>2. /\ loaded' \in Seq(LoadedItem)
      /\ Len(loaded') = n + 1 /\ DOMAIN loaded' = 1 .. n + 1
      /\ loaded'[n + 1] = [type |-> Cell(at), val |-> val]
      /\ \A k \in 1 .. n : loaded'[k] = loaded[k]
  <2>1. [type |-> Cell(at), val |-> val] \in LoadedItem
    BY DEF LoadedItem
  <2> QED BY <1>1, <2>1, Appended
<1>3. FileTypeOK'
  BY <1>1, <1>2 DEF FileInv, FileTypeOK, LoadedItem
<1>4. Framed'
  BY DEF FileInv, Framed, Size
<1>5. InStep'
  <2>1. loaded' # << >>
    BY <1>1, <1>2
  <2>2. CASE n < Len(saved)
    <3>1. size = Size(saved[n + 1])
      BY <2>2, NextItem DEF Size
    <3>2. at' = IF n + 1 < Len(saved) THEN saved[n + 2].at ELSE Len(file)
      BY <2>2, <3>1, NextItem
    <3> QED BY <1>1, <1>2, <2>1, <2>2, <3>2 DEF InStep
  <2>3. CASE ~ (n < Len(saved))
    BY <1>1, <1>2, <2>1, <2>3 DEF FileInv, InStep
  <2> QED BY <2>2, <2>3
<1>6. ASSUME NEW k \in DOMAIN loaded'
      PROVE  IF k > Len(saved) THEN loaded'[k] = [type |-> INTEGER, val |-> 0]
             ELSE /\ loaded'[k].type = saved[k].type
                  /\ IF saved[k].type = STRING_ THEN loaded'[k].val <= saved[k].val
                     ELSE loaded'[k].val = saved[k].val
  <2>1. CASE k = n + 1
    <3>1. CASE n < Len(saved)
      BY <1>1, <1>2, <2>1, <3>1, NextItem
    <3>2. CASE ~ (n < Len(saved))
      BY <1>1, <1>2, <2>1, <3>2, NextItem DEF INTEGER, STRING_
    <3> QED BY <3>1, <3>2
  <2>2. CASE k # n + 1
    BY <1>1, <1>2, <2>2 DEF FileInv, LoadsBack
  <2> QED BY <2>1, <2>2
<1>7. LoadsBack'
  BY <1>6 DEF LoadsBack
<1> QED BY <1>3, <1>4, <1>5, <1>7 DEF FileInv

LEMMA FileStepInv == FileInv /\ [FileNext]_fileVars => FileInv'
<1> SUFFICES ASSUME FileInv, [FileNext]_fileVars PROVE FileInv'
  OBVIOUS
<1>1. ASSUME NEW item \in Item, SaveNumber(item) PROVE FileInv'
  <2>1. item.type # STRING_ /\ Writing
    BY <1>1 DEF SaveNumber, Numeric, INTEGER, UNSIGNED, FLOAT, STRING_
  <2>2. << >> \in Seq(Raw) /\ Len(<< >>) = 0
    OBVIOUS
  <2>3. file' = file \o (<<item.type, item.val>> \o << >>)
    BY <1>1 DEF SaveNumber
  <2>4. saved' = Append(saved, Placed(item)) /\ UNCHANGED <<at, loaded>>
    BY <1>1 DEF SaveNumber
  <2>5. item.type # STRING_ => Len(<< >>) = IF item.type = STRING_ THEN item.val ELSE 0
    BY <2>2
  <2> QED BY <2>1, <2>2, <2>3, <2>4, <2>5, SaveInv
<1>2. ASSUME NEW item \in Item, NEW bytes \in [1 .. item.val -> Raw], SaveString(item, bytes)
      PROVE  FileInv'
  <2>1. item.val \in Nat
    BY ItemFields
  <2>2. bytes \in Seq(Raw)
    BY <2>1
  <2>5. Len(bytes) = item.val /\ item.type = STRING_
    BY <1>2 DEF SaveString
  <2>3. file' = file \o (<<item.type, item.val>> \o bytes)
    <3>1. file \in Seq(Nat \union Raw)
      BY DEF FileInv, FileTypeOK
    <3> QED BY <1>2, <2>2, <3>1 DEF SaveString
  <2>4. Writing /\ saved' = Append(saved, Placed(item)) /\ UNCHANGED <<at, loaded>>
    BY <1>2 DEF SaveString
  <2> QED BY <2>2, <2>3, <2>4, <2>5, SaveInv
<1>3. Cell(at + 1) \in Nat
  BY NextItem
<1>4. CASE LoadNumber
  <2>1. Cell(at) # STRING_ /\ Cell(at) \in Numeric
    BY <1>4 DEF LoadNumber, Numeric, INTEGER, UNSIGNED, FLOAT, STRING_
  <2>2. /\ loaded' = Append(loaded, [type |-> Cell(at), val |-> Cell(at + 1)])
        /\ at' = at + 2 /\ UNCHANGED <<file, saved>>
    BY <1>4 DEF LoadNumber
  <2> QED BY <1>3, <2>1, <2>2, LoadInv
<1>5. CASE LoadString
  <2>1. PICK n \in 0 .. Cell(at + 1) : loaded' = Append(loaded, [type |-> STRING_, val |-> n])
    BY <1>5 DEF LoadString
  <2>2. Cell(at) = STRING_ /\ at' = at + 2 + Cell(at + 1) /\ UNCHANGED <<file, saved>>
    BY <1>5 DEF LoadString
  <2>3. at \in Nat
    BY DEF FileInv, FileTypeOK
  <2>4. n \in Nat /\ n <= Cell(at + 1) /\ 2 + Cell(at + 1) \in Nat
        /\ at' = at + (2 + Cell(at + 1))
    BY <1>3, <2>1, <2>2, <2>3
  <2>5. loaded' = Append(loaded, [type |-> Cell(at), val |-> n])
    BY <2>1, <2>2
  <2> QED BY <2>2, <2>4, <2>5, LoadInv
<1>6. CASE UNCHANGED fileVars
  BY <1>6 DEF fileVars, FileInv, FileTypeOK, Framed, InStep, LoadsBack, Size
<1> QED BY <1>1, <1>2, <1>4, <1>5, <1>6 DEF FileNext

-------------------------------------------------------------------------------
LEMMA CodeInvariant == CodeSpec => []CodeInv
<1> QED BY CodeInitInv, CodeStepInv, PTL DEF CodeSpec

LEMMA FileInvariant == FileSpec => []FileInv
<1> QED BY FileInitInv, FileStepInv, PTL DEF FileSpec

(* The length stays within the capacity, which only grows, and every place  *)
(* of the buffer is a byte (RESIZE of code_buffer.c).                       *)
THEOREM CodeTypeCorrect == CodeSpec => []CodeTypeOK
<1>1. CodeInv => CodeTypeOK
  BY DEF CodeInv
<1> QED BY <1>1, CodeInvariant, PTL

(* What was written stays where it was written, however the buffer grows    *)
(* (RESIZE of code_buffer.c).                                               *)
THEOREM WritesKept == CodeSpec => []CodeKept
<1> QED BY KeptIsRead, CodeInvariant, PTL

(* The items come back in order and with their types, numbers with their    *)
(* bits (save_data_item, load_data_item).                                   *)
THEOREM ItemsLoadBack == FileSpec => []LoadsBack
<1>1. FileInv => LoadsBack
  BY DEF FileInv
<1> QED BY <1>1, FileInvariant, PTL
================================================================================
