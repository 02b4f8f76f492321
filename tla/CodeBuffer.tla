------------------------------- MODULE CodeBuffer -------------------------------
(***************************************************************************)
(* The code segment: src/src/vm_common/code_buffer.c.  The writes of 1, 2, *)
(* 4 and 8 bytes differ in their width only, and so do the reads.  A byte  *)
(* is the number of a byte in the value it is a part of.                   *)
(***************************************************************************)
EXTENDS RawMemory, Integers, Sequences

CONSTANTS
  Width,    \* how many bytes a call writes or reads
  Value,    \* what is written
  CodeCap,  \* the capacity of a new buffer
  MaxCode   \* bound: how many bytes are written or read one after the other

ASSUME CodeAssumption ==
  /\ CodeCap \in Nat \ {0}
  /\ Width \subseteq 1 .. CodeCap
  /\ MaxCode \in Nat

VARIABLES
  code,     \* code->code
  codeLen,  \* code->len
  codeCap,  \* code->cap
  index,    \* code->index
  writes    \* history: the calls that wrote, with the place they wrote to

codeVars == <<code, codeLen, codeCap, index, writes>>

Byte == (Value \X Nat) \union {JUNK}

(* create_code_buffer; when there is a buffer it does nothing. *)
CodeInit ==
  /\ code = [k \in 0 .. CodeCap - 1 |-> JUNK]
  /\ codeLen = 0
  /\ codeCap = CodeCap
  /\ index = 0
  /\ writes = << >>

-------------------------------------------------------------------------------
(* RESIZE: the capacity is doubled until there is room for w bytes more. *)
Resize(w) ==
  LET need == codeLen + w
  IN  \E c \in codeCap .. codeCap + 2 * need :
        /\ need <= c
        /\ c = codeCap \/ c < 2 * need
        /\ \E d \in 0 .. need : c = codeCap * 2 ^ d
        /\ codeCap' = c

(* What the calls write once there is room. *)
Write(w, v) ==
  /\ code' = [k \in 0 .. codeCap' - 1 |->
                IF k \in codeLen .. codeLen + w - 1 THEN <<v, k - codeLen>>
                ELSE IF k < codeCap THEN code[k] ELSE JUNK]
  /\ codeLen' = codeLen + w
  /\ writes' = Append(writes, [at |-> codeLen, width |-> w, val |-> v])
  /\ UNCHANGED index

(* Variant: the larger buffer is a new one. *)
AddCodeFresh(w, v) ==
  /\ codeLen + w <= MaxCode
  /\ Resize(w)
  /\ code' = [k \in 0 .. codeCap' - 1 |->
                IF k \in codeLen .. codeLen + w - 1 THEN <<v, k - codeLen>>
                ELSE IF k < codeCap /\ codeCap' = codeCap THEN code[k] ELSE JUNK]
  /\ codeLen' = codeLen + w
  /\ writes' = Append(writes, [at |-> codeLen, width |-> w, val |-> v])
  /\ UNCHANGED index

(* add_code_char, add_code_short, add_code_int, add_code_long *)
AddCode(w, v) ==
  /\ codeLen + w <= MaxCode
  /\ Resize(w)
  /\ Write(w, v)

(* The bytes a read gets: there is no test against the length, and the     *)
(* test of the reads by index looks at the first byte only.                *)
Read(i, w) == [k \in 0 .. w - 1 |-> IF i + k < codeCap THEN code[i + k] ELSE JUNK]

(* read_code_char and the others *)
ReadCode(w) ==
  /\ index + w <= MaxCode
  /\ index' = index + w
  /\ UNCHANGED <<code, codeLen, codeCap, writes>>

(* reset_code_index *)
ResetCodeIndex ==
  /\ index' = 0
  /\ UNCHANGED <<code, codeLen, codeCap, writes>>

(* set_code_index, which ends the program for a place that is not written. *)
SetCodeIndex(i) ==
  /\ i < codeLen
  /\ index' = i
  /\ UNCHANGED <<code, codeLen, codeCap, writes>>

CodeNext ==
  \/ \E w \in Width, v \in Value : AddCode(w, v)
  \/ \E w \in Width : ReadCode(w)
  \/ ResetCodeIndex
  \/ \E i \in 0 .. MaxCode : SetCodeIndex(i)

CodeSpec == CodeInit /\ [][CodeNext]_codeVars

-------------------------------------------------------------------------------
CodeTypeOK ==
  /\ codeCap \in Nat /\ codeCap >= CodeCap
  /\ codeLen \in 0 .. codeCap
  /\ index \in 0 .. MaxCode
  /\ code \in [0 .. codeCap - 1 -> Byte]
  /\ writes \in Seq([at : Nat, width : Width, val : Value])

(* What was written can be read at the place that was the length before,    *)
(* whatever was written since and however often the buffer has grown, and   *)
(* the writes lie one behind the other up to the length (code_buffer.c:11). *)
CodeKept ==
  /\ \A n \in DOMAIN writes :
       LET w == writes[n]
       IN  /\ Read(w.at, w.width) = [k \in 0 .. w.width - 1 |-> <<w.val, k>>]
           /\ w.at = IF n = 1 THEN 0 ELSE writes[n - 1].at + writes[n - 1].width
  /\ codeLen = IF writes = << >> THEN 0
               ELSE writes[Len(writes)].at + writes[Len(writes)].width
================================================================================
