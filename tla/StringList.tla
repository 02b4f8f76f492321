------------------------------ MODULE StringList ------------------------------
(***************************************************************************)
(* Lists of strings: src/src/common/string_list.c.  A string is a sequence *)
(* of symbols, a list a sequence of strings.                               *)
(***************************************************************************)
EXTENDS Integers, SequencesExt

(* The strings between the separators. *)
Fields(str, ch) ==
  LET upto[n \in 0 .. Len(str)] ==
        IF n = 0 THEN << << >> >>
        ELSE IF str[n] = ch THEN Append(upto[n - 1], << >>)
        ELSE Append(Front(upto[n - 1]), Append(Last(upto[n - 1]), str[n]))
  IN  upto[Len(str)]

(* Variant: an empty string has no field. *)
SplitNoEmpty(str, ch) ==
  LET fields == Fields(str, ch)
  IN  IF Last(fields) = << >> THEN Front(fields) ELSE fields

(* split_string stops when nothing follows the last separator.             *)
Split(str, ch) ==
  LET fields == Fields(str, ch)
  IN  IF Len(fields) > 1 /\ Last(fields) = << >> THEN Front(fields) ELSE fields
================================================================================
