--------------------------------- MODULE Library ---------------------------------
(***************************************************************************)
(* The containers of src/src/common and the segments of                    *)
(* src/src/vm_common, for a client of any one of them.  They share no      *)
(* state and none calls another, so that what holds of each of them alone  *)
(* holds of all of them together.                                          *)
(***************************************************************************)
EXTENDS CodeBuffer, DataItem, StringBuffer, ArrayList, DlList

VARIABLE used  \* the one the client has made

libraryVars == <<used, codeVars, fileVars, stringVars, arrayVars, listVars>>

LibraryInit ==
  /\ used \in {"code", "file", "string", "array", "list"}
  /\ CodeInit /\ FileInit /\ StringInit /\ ArrayInit /\ ListInit

UsesCode == used = "code" /\ CodeNext /\ UNCHANGED <<fileVars, stringVars, arrayVars, listVars>>
UsesFile == used = "file" /\ FileNext /\ UNCHANGED <<codeVars, stringVars, arrayVars, listVars>>
UsesString == used = "string" /\ StringNext /\ UNCHANGED <<codeVars, fileVars, arrayVars, listVars>>
UsesArray == used = "array" /\ ArrayNext /\ UNCHANGED <<codeVars, fileVars, stringVars, listVars>>
UsesList == used = "list" /\ ListNext /\ UNCHANGED <<codeVars, fileVars, stringVars, arrayVars>>

LibraryNext ==
  /\ UsesCode \/ UsesFile \/ UsesString \/ UsesArray \/ UsesList
  /\ UNCHANGED used

LibrarySpec == LibraryInit /\ [][LibraryNext]_libraryVars
================================================================================
