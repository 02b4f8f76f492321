-------------------------------- MODULE MCLibrary --------------------------------
(* Strings of up to five characters, from a capacity of two on; arrays of up  *)
(* to four items, of which JUNK and 2 are equal in order, with room for two   *)
(* at first; lists of up to five nodes; two items in a file; five bytes of    *)
(* code.                                                                      *)
EXTENDS Library, SequencesExt

MCChar == {"a", "A", " "}
MCUpper == [c \in MCChar |-> IF c = "a" THEN "A" ELSE c]
MCPieces == BoundedSeq(MCChar, 2)

MCRank == [x \in Element |-> IF x = JUNK THEN 1 ELSE x - 1]
MCSource == {<<2, 1>>, << >>}
MCIndexes == -4 .. 5
MCMinLength == -2

MCAsUnsigned == [n \in Number |-> IF n = 3 THEN 0 ELSE n]
================================================================================
