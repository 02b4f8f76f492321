------------------------------ MODULE StringBuffer ------------------------------
(***************************************************************************)
(* The strings of the program: src/src/common/string_buffer.c.  A string   *)
(* has a length of its own, len, and ends at the first NUL in its buffer;  *)
(* the calls of the C library in here go by the second.                    *)
(*                                                                         *)
(* A string owns the bytes 0 .. cap - 1, and two of the calls write at     *)
(* other places: strays says on which side.  The place cap, the first one  *)
(* behind, is in buffer as well: both allocators of the build, malloc and  *)
(* GC_malloc, leave a byte there in a block of 8 * 2^n bytes and keep it   *)
(* in a realloc, so that what is written there can be read again.  The     *)
(* place in front is not the string's, and nothing here takes a value from *)
(* it: strip_space tests it, and then its own index.                       *)
(***************************************************************************)
EXTENDS RawMemory, Integers, Sequences

CONSTANTS
  Char,     \* the characters
  Space,    \* those isspace accepts
  Upper,    \* toupper
  NUL,      \* the character 0
  Pieces,   \* what is appended: sequences of characters
  InitCap,  \* the capacity of a new string
  MaxText   \* bound: how long a string may get

ASSUME StringAssumption ==
  /\ Space \subseteq Char
  /\ Upper \in [Char -> Char]
  /\ NUL \notin Char /\ JUNK \notin Char /\ NUL # JUNK
  /\ Pieces \subseteq Seq(Char)
  /\ InitCap \in Nat \ {0}
  /\ MaxText \in Nat

VARIABLES
  buffer,  \* buf->buffer
  len,     \* buf->len
  cap,     \* buf->cap
  strays   \* history: the sides of the block on which a call has written

stringVars == <<buffer, len, cap, strays>>

(* create_string(NULL): the memory comes zeroed. *)
StringInit ==
  /\ buffer = [k \in 0 .. InitCap |-> NUL]
  /\ len = 0
  /\ cap = InitCap
  /\ strays = {}

-------------------------------------------------------------------------------
(* strlen *)
StrLen(b) == CHOOSE n \in DOMAIN b : b[n] = NUL /\ \A k \in 0 .. n - 1 : b[k] # NUL

(* What a reader gets. *)
Text == [k \in 1 .. StrLen(buffer) |-> buffer[k - 1]]

(* A capacity that is doubled until there is room. *)
Room(from, need) ==
  {c \in from .. from + 2 * need :
     /\ need <= c
     /\ c = from \/ c < 2 * need
     /\ \E d \in 0 .. need : c = from * 2 ^ d}

Kept(k) == IF k <= cap THEN buffer[k] ELSE JUNK

(* A call writes at these places. *)
WritesAt(places) ==
  strays' = strays
              \union {side \in {"front"} : \E k \in places : k < 0}
              \union {side \in {"behind"} : \E k \in places : k >= cap'}

(* Variant: room is not made for the NUL. *)
AppendStringTight(t) ==
  /\ len + Len(t) <= MaxText
  /\ cap' \in Room(cap, Len(t) + len)
  /\ LET end == StrLen(buffer)
     IN  /\ buffer' = [k \in 0 .. cap' |->
                         IF k \in end .. end + Len(t) - 1 THEN t[k - end + 1]
                         ELSE IF k = end + Len(t) THEN NUL
                         ELSE Kept(k)]
         /\ len' = end + Len(t)
         /\ WritesAt(end .. end + Len(t))

(* append_string: room is made for len, and strcat appends at the NUL.      *)
AppendString(t) ==
  /\ len + Len(t) <= MaxText
  /\ cap' \in Room(cap, Len(t) + len + 1)
  /\ LET end == StrLen(buffer)
     IN  /\ buffer' = [k \in 0 .. cap' |->
                         IF k \in end .. end + Len(t) - 1 THEN t[k - end + 1]
                         ELSE IF k = end + Len(t) THEN NUL
                         ELSE Kept(k)]
         /\ len' = end + Len(t)
         /\ WritesAt(end .. end + Len(t))

(* Variant: no room is made at all. *)
AppendCharUnchecked(ch) ==
  /\ len < MaxText
  /\ cap' = cap
  /\ buffer' = [k \in 0 .. cap' \union {len + 1} |->
                  IF k = len THEN ch ELSE IF k = len + 1 THEN NUL ELSE Kept(k)]
  /\ len' = len + 1
  /\ WritesAt({len, len + 1})

(* Variant: the larger buffer is a new one. *)
AppendCharFresh(ch) ==
  /\ len < MaxText
  /\ cap' = IF len + 1 > cap THEN 2 * cap ELSE cap
  /\ buffer' = [k \in 0 .. cap' |->
                  IF k = len THEN ch ELSE IF k = len + 1 THEN NUL
                  ELSE IF cap' > cap THEN JUNK ELSE buffer[k]]
  /\ len' = len + 1
  /\ WritesAt({len, len + 1})

(* append_string_char: it writes at len, and makes room for the character   *)
(* only.                                                                    *)
AppendChar(ch) ==
  /\ len < MaxText
  /\ cap' = IF len + 1 > cap THEN 2 * cap ELSE cap
  /\ buffer' = [k \in 0 .. cap' |->
                  IF k = len THEN ch ELSE IF k = len + 1 THEN NUL ELSE Kept(k)]
  /\ len' = len + 1
  /\ WritesAt({len, len + 1})

(* Variant: the characters stay. *)
ClearLength ==
  /\ len' = 0
  /\ UNCHANGED <<buffer, cap, strays>>

(* clear_string *)
Clear ==
  /\ buffer' = [buffer EXCEPT ![0] = NUL]
  /\ len' = 0
  /\ UNCHANGED cap
  /\ WritesAt({0})

(* The trailing spaces become NULs, and what begins at the first character  *)
(* that is no space is moved to the front.                                  *)
StripSpaces(b) ==
  LET n == StrLen(b)
      IsEnd(e) == \A k \in e .. n - 1 : b[k] \in Space
      end == CHOOSE e \in 0 .. n : IsEnd(e) /\ (e = 0 \/ ~ IsEnd(e - 1))
      IsStart(s) == \A k \in 0 .. s - 1 : b[k] \in Space
      start == CHOOSE s \in 0 .. end : IsStart(s) /\ (s = end \/ ~ IsStart(s + 1))
      cut == [k \in DOMAIN b |-> IF k \in end .. n THEN NUL ELSE b[k]]
  IN  [k \in DOMAIN b |-> IF k <= end - start THEN cut[start + k] ELSE cut[k]]

(* strip_space: len stays as it was. *)
StripSpace ==
  /\ buffer' = StripSpaces(buffer)
  /\ UNCHANGED <<len, cap>>
  /\ WritesAt(0 .. StrLen(buffer))

(* What is left of the first characters of s when every move of strip_char  *)
(* has taken one occurrence of ch out.                                      *)
Squeezed(s, ch) ==
  LET left[k \in 0 .. Len(s)] ==
        IF k = 0 THEN << >> ELSE IF s[k] = ch THEN left[k - 1] ELSE Append(left[k - 1], s[k])
  IN  left[Len(s)]

(* strip_char *)
StripChar(ch) ==
  LET b == StripSpaces(buffer)
      kept == Squeezed([k \in 1 .. StrLen(b) |-> b[k - 1]], ch)
  IN  /\ buffer' = [k \in DOMAIN b |->
                      IF k < Len(kept) THEN kept[k + 1]
                      ELSE IF k <= StrLen(b) THEN NUL ELSE b[k]]
      /\ len' = Len(kept)
      /\ UNCHANGED cap
      /\ WritesAt(0 .. StrLen(buffer))

(* Variant: the character in front stays. *)
StripEndsBack ==
  LET b == StripSpaces(buffer)
      n == StrLen(b)
  IN  /\ buffer' = [k \in DOMAIN b |-> IF k = n - 1 THEN NUL ELSE b[k]]
      /\ UNCHANGED <<len, cap>>
      /\ WritesAt(0 .. StrLen(buffer) \union {n - 1})

(* strip_ends; of a blank text nothing is left, and the NUL is written in    *)
(* front of the buffer.                                                     *)
StripEnds ==
  LET b == StripSpaces(buffer)
      n == StrLen(b)
      cut == [k \in DOMAIN b |-> IF k = n - 1 THEN NUL ELSE b[k]]
  IN  /\ buffer' = [k \in DOMAIN b |-> IF k < n - 1 THEN cut[k + 1] ELSE cut[k]]
      /\ UNCHANGED <<len, cap>>
      /\ WritesAt(0 .. StrLen(buffer) \union {n - 1})

(* upcase; downcase is the same with another table. *)
Upcase ==
  /\ buffer' = [k \in DOMAIN buffer |-> IF k < StrLen(buffer) THEN Upper[buffer[k]] ELSE buffer[k]]
  /\ UNCHANGED <<len, cap>>
  /\ WritesAt(0 .. StrLen(buffer) - 1)

(* copy_string, and the copy is used from here on. *)
Copy ==
  LET n == StrLen(buffer)
  IN  /\ cap' \in Room(InitCap, n + 1)
      /\ buffer' = [k \in 0 .. cap' |->
                      IF k < n THEN buffer[k]
                      ELSE IF k = n \/ cap' = InitCap THEN NUL ELSE JUNK]
      /\ len' = n
      /\ WritesAt(0 .. n)

StringNext ==
  \/ \E t \in Pieces : AppendString(t)
  \/ \E c \in Char : AppendChar(c) \/ StripChar(c)
  \/ AppendChar(NUL)
  \/ Clear \/ StripSpace \/ StripEnds \/ Upcase \/ Copy

StringSpec == StringInit /\ [][StringNext]_stringVars

-------------------------------------------------------------------------------
StringTypeOK ==
  /\ cap \in Nat /\ cap >= InitCap
  /\ len \in Nat
  /\ buffer \in [0 .. cap -> Char \union {NUL, JUNK}]
  /\ strays \subseteq {"front", "behind"}

(* The text ends within len, and len within the bytes of the string, so     *)
(* that the room that is made for len is enough.  Only when a call has      *)
(* written behind the bytes, len may be the place there (string_buffer.c:54,*)
(* 94).                                                                     *)
Terminated ==
  /\ len <= cap /\ \E n \in 0 .. len : buffer[n] = NUL
  /\ "behind" \notin strays => len < cap

(* Whatever was called before, a reader gets the text that the calls make,  *)
(* except that append_string_char may lose its character: across growth,    *)
(* with a len that strip_space and strip_ends have left behind, and with    *)
(* NULs in the middle.                                                      *)
T == INSTANCE TextValue WITH text <- Text
ImplementsText == T!Spec

(* append_string_char loses its character exactly when len is not the       *)
(* length of the text, as strip_space and strip_ends leave it: then it is   *)
(* written behind the NUL that ends the text (string_buffer.c:92, 157).     *)
CharAppended ==
  [][\A c \in Char :
       AppendChar(c) => Text' = IF len = Len(Text) THEN Append(Text, c) ELSE Text]_stringVars

(* Two calls write outside of the block, each in one case: the character    *)
(* that fills it has its NUL written behind, and the ends of a blank text   *)
(* are stripped in front.  No room that was made is too small, whatever     *)
(* came before (string_buffer.c:53, 94, 164).                               *)
StraysKnown ==
  [][strays' # strays =>
       \/ len + 1 = cap' /\ \E c \in Char \union {NUL} : AppendChar(c)
       \/ T!Trimmed = << >> /\ StripEnds]_stringVars
================================================================================
