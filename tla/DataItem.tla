-------------------------------- MODULE DataItem --------------------------------
(***************************************************************************)
(* The items of the data segment and the file they are kept in:            *)
(* src/src/vm_common/data_item.c.  Of a string only the length is kept: it *)
(* is all that is left of it in a file.                                    *)
(***************************************************************************)
EXTENDS Integers, Sequences

CONSTANTS
  Raw,        \* the bytes of a file that are no part of a number
  Nul,        \* the byte 0 among them
  Number,     \* the bits of a number
  AsUnsigned, \* the bits of a float to those of the unsigned it converts to
  MaxString,  \* bound: how long a string is
  MaxItems    \* bound: how many items are saved, and how many more are loaded

ASSUME ItemAssumption ==
  /\ Nul \in Raw /\ Raw \cap Nat = {}
  /\ Number \subseteq Nat
  /\ 0 \in Number
  /\ AsUnsigned \in [Number -> Number]
  /\ MaxString \in Nat
  /\ MaxItems \in Nat

(* data_type_t *)
INTEGER == 0
UNSIGNED == 1
FLOAT == 2
STRING_ == 3

Numeric == {INTEGER, UNSIGNED, FLOAT}

(* What the create_*_item make.  create_fval_item stores its argument in    *)
(* uval, so that a float is converted to an unsigned number.                *)
Item ==
  [type : {INTEGER, UNSIGNED}, val : Number]
    \union [type : {FLOAT}, val : {AsUnsigned[f] : f \in Number}]
    \union [type : {STRING_}, val : 0 .. MaxString]

VARIABLES
  file,    \* the file: numbers, and the bytes of strings
  at,      \* how much of it has been read
  saved,   \* history: the items that were saved, and where each begins
  loaded   \* the items that were loaded

fileVars == <<file, at, saved, loaded>>

FileInit ==
  /\ file = << >>
  /\ at = 0
  /\ saved = << >>
  /\ loaded = << >>

-------------------------------------------------------------------------------
Placed(item) == [type |-> item.type, val |-> item.val, at |-> Len(file)]

Writing == loaded = << >> /\ Len(saved) < MaxItems

(* save_data_item of a string: len bytes are written, from the place where  *)
(* the structure holds the address of the characters: any bytes.            *)
SaveString(item, bytes) ==
  /\ Writing
  /\ item.type = STRING_ /\ Len(bytes) = item.val
  /\ file' = file \o <<STRING_, item.val>> \o bytes
  /\ saved' = Append(saved, Placed(item))
  /\ UNCHANGED <<at, loaded>>

(* save_data_item of a number *)
SaveNumber(item) ==
  /\ Writing
  /\ item.type \in Numeric
  /\ file' = file \o <<item.type, item.val>>
  /\ saved' = Append(saved, Placed(item))
  /\ UNCHANGED <<at, loaded>>

(* What fread finds: the memory it reads into was zeroed, and stays so at   *)
(* the end of the file.                                                     *)
Cell(k) == IF k < Len(file) THEN file[k + 1] ELSE 0

Reading == Len(loaded) <= MaxItems

(* load_data_item of a number *)
LoadNumber ==
  /\ Reading
  /\ Cell(at) \in Numeric
  /\ loaded' = Append(loaded, [type |-> Cell(at), val |-> Cell(at + 1)])
  /\ at' = at + 2
  /\ UNCHANGED <<file, saved>>

(* A string of the len bytes from k on ends at the first NUL. *)
IsText(k, len, n) ==
  /\ \A j \in 0 .. n - 1 : Cell(k + j) # Nul
  /\ n = len \/ Cell(k + n) = Nul

(* Variant: the NUL is read as well. *)
LoadStringNul ==
  /\ Reading
  /\ Cell(at) = STRING_
  /\ \E n \in 0 .. Cell(at + 1) :
       /\ IsText(at + 2, Cell(at + 1), n)
       /\ loaded' = Append(loaded, [type |-> STRING_, val |-> n])
  /\ at' = at + 2 + Cell(at + 1) + 1
  /\ UNCHANGED <<file, saved>>

(* load_data_item of a string *)
LoadString ==
  /\ Reading
  /\ Cell(at) = STRING_
  /\ \E n \in 0 .. Cell(at + 1) :
       /\ IsText(at + 2, Cell(at + 1), n)
       /\ loaded' = Append(loaded, [type |-> STRING_, val |-> n])
  /\ at' = at + 2 + Cell(at + 1)
  /\ UNCHANGED <<file, saved>>

FileNext ==
  \/ \E item \in Item : SaveNumber(item)
  \/ \E item \in Item : \E bytes \in [1 .. item.val -> Raw] : SaveString(item, bytes)
  \/ LoadNumber
  \/ LoadString

FileSpec == FileInit /\ [][FileNext]_fileVars

-------------------------------------------------------------------------------
FileTypeOK ==
  /\ file \in Seq(Nat \union Raw)
  /\ at \in Nat
  /\ saved \in Seq([type : Numeric \union {STRING_}, val : Nat, at : Nat])
  /\ loaded \in Seq([type : Numeric \union {STRING_}, val : Nat])

(* The items come back in the order and with the types they were saved      *)
(* with, numbers with their bits; a string comes back as anything that is   *)
(* no longer than it was, and does not shift what follows it.  Behind the   *)
(* last one there are only zeros (data_item.c:75, 85).                      *)
LoadsBack ==
  \A k \in DOMAIN loaded :
    IF k > Len(saved) THEN loaded[k] = [type |-> INTEGER, val |-> 0]
    ELSE /\ loaded[k].type = saved[k].type
         /\ IF saved[k].type = STRING_ THEN loaded[k].val <= saved[k].val
            ELSE loaded[k].val = saved[k].val
================================================================================
