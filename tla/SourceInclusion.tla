---------------------------- MODULE SourceInclusion ----------------------------
(***************************************************************************)
(* The stack of source files implements the inclusion of texts: what each  *)
(* file on the stack has still to be read, the top of the stack first, is  *)
(* the text that remains.                                                  *)
(***************************************************************************)
EXTENDS SourceStack, SequencesExt

Remains(fr) == SubSeq(files[fr.file], fr.pos, Len(files[fr.file]))

T == INSTANCE TextInclusion
       WITH text <- FlattenSeq([k \in DOMAIN stack |-> Remains(stack[k])])

(* The parser gets what it would get from the one text in which every       *)
(* include directive is replaced by its file (open_file, the rule for the   *)
(* end of a file): nothing twice, nothing lost, in the order of the text.   *)
ImplementsInclusion == T!Spec
================================================================================
