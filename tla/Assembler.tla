------------------------------- MODULE Assembler -------------------------------
(***************************************************************************)
(* The assembler: the parser of src/src/assembler/parser.y on top of the   *)
(* scanner and its stack of files (SourceStack), with the symbol table of  *)
(* symbols.c and the data segment of vm_common/data_buffer.c.              *)
(*                                                                         *)
(* A word of the program is a whole statement, a record with a field op:   *)
(*   data   data NAME                 one data element                     *)
(*   array  data NAME [ size ]        several of them                      *)
(*   init   data NAME = constant      one, initialized                     *)
(*   list   data NAME = { size constants }                                 *)
(*   label  NAME :                                                         *)
(*   use    an instruction with NAME as an operand                         *)
(*   bad    what no rule of the grammar accepts                            *)
(*                                                                         *)
(* The symbol table is used through insert_hashtable only, and is the map  *)
(* of Dictionary, which HashTable implements.  The items of the data       *)
(* segment all have the value 0 here, so it is their number alone that     *)
(* counts.                                                                 *)
(***************************************************************************)
EXTENDS SourceStack

CONSTANTS
  NONE,    \* no statement
  Memory,  \* how many data items the heap can hold
  Address  \* the addresses of items, as far as they are told apart

(* No item is at the address 0. *)
ASSUME MemoryAssumption == Memory \in Nat /\ Address \subseteq Nat \ {0}

(* A list has a number of constants, and NONE is no statement. *)
ASSUME ListAssumption ==
  \A p \in Programs : \A f \in DOMAIN p :
    /\ Len(p[f]) \in Nat
    /\ \A k \in 1 .. Len(p[f]) :
         p[f][k].kind = "word" =>
           /\ p[f][k].arg # NONE
           /\ p[f][k].arg.op = "list" => p[f][k].arg.size \in Nat

VARIABLES
  symtab,      \* sym_table: from names to [length, index]
  slots,       \* len_ptr_list(data): the items of the data segment
  data_index,  \* data_index
  data_ptrs,   \* the length of data_ptrs
  held,        \* the statement that is parsed, but not yet reduced
  i,           \* the index of the loop of an array definition
  bound,       \* what it is compared with: the address of the size's item
  errors,      \* errors
  parse        \* "parsing", "looping", "accepted", "rejected", and then
               \* "exit0", "fatal" or "crashed"

asmvars == <<symtab, slots, data_index, data_ptrs, held, i, bound, errors, parse>>
vars == <<srcvars, asmvars>>

AsmInit ==
  /\ Init
  /\ symtab = << >>
  /\ slots = 0
  /\ data_index = 0
  /\ data_ptrs = 0
  /\ held = NONE
  /\ i = 0
  /\ bound = 0
  /\ errors = 0
  /\ parse = "parsing"

-------------------------------------------------------------------------------
(* Variant: a second definition replaces the first. *)
AddSymbolReplacing(name, length, index) ==
  symtab' = [n \in DOMAIN symtab \union {name} |->
               IF n = name THEN [length |-> length, index |-> index] ELSE symtab[n]]

(* add_symbol: the answer of insert_hashtable is not looked at, so that a   *)
(* second definition of a name is dropped.                                  *)
AddSymbol(name, length, index) ==
  symtab' = IF name \in DOMAIN symtab THEN symtab
            ELSE [n \in DOMAIN symtab \union {name} |->
                    IF n = name THEN [length |-> length, index |-> index]
                                ELSE symtab[n]]

(* The scanner returns the next statement, and the parser has shifted it.   *)
Statement(op) ==
  /\ parse = "parsing"
  /\ held = NONE
  /\ Word
  /\ Lexeme.kind = "word"
  /\ Lexeme.arg.op = op

(* data NAME: it is reduced only when the parser has seen what follows.     *)
ShiftData ==
  /\ Statement("data")
  /\ held' = Lexeme.arg
  /\ UNCHANGED <<symtab, slots, data_index, data_ptrs, i, bound, errors, parse>>

(* What comes next can follow a statement: a statement, or the end.         *)
FollowsStatement ==
  \/ status = "ended"
  \/ /\ cond = "INITIAL"
     /\ \/ Matches({"include"})
        \/ Matches({"word"}) /\ Lexeme.arg.op # "bad"

(* Variant: the symbol gets the length of the segment. *)
ReduceDataLate ==
  /\ parse = "parsing"
  /\ held # NONE
  /\ FollowsStatement
  /\ slots < Memory
  /\ slots' = slots + 1
  /\ AddSymbol(held.name, 1, slots')
  /\ held' = NONE
  /\ UNCHANGED <<srcvars, data_index, data_ptrs, i, bound, errors, parse>>

(* Variant: the allocation is not checked. *)
ReduceDataUnchecked ==
  /\ parse = "parsing"
  /\ held # NONE
  /\ FollowsStatement
  /\ slots' = slots + 1
  /\ AddSymbol(held.name, 1, slots)
  /\ held' = NONE
  /\ UNCHANGED <<srcvars, data_index, data_ptrs, i, bound, errors, parse>>

(* var_def: DATA NAME. *)
ReduceData ==
  /\ parse = "parsing"
  /\ held # NONE
  /\ FollowsStatement
  /\ slots < Memory
  /\ slots' = slots + 1
  /\ AddSymbol(held.name, 1, slots)
  /\ held' = NONE
  /\ UNCHANGED <<srcvars, data_index, data_ptrs, i, bound, errors, parse>>

(* var_def: DATA NAME '[' index_constant ']', up to its loop, which is      *)
(* bounded by $4: not the size, but the address of the item that holds it.  *)
BeginArray ==
  /\ Statement("array")
  /\ slots < Memory
  /\ data_index' = slots
  /\ slots' = slots + 1
  /\ held' = Lexeme.arg
  /\ i' = 1
  /\ bound' \in Address
  /\ parse' = "looping"
  /\ UNCHANGED <<symtab, data_ptrs, errors>>

(* The first item of the array does not fit in memory. *)
BeginArrayFails ==
  /\ Statement("array")
  /\ slots = Memory
  /\ parse' = "fatal"
  /\ UNCHANGED <<symtab, slots, data_index, data_ptrs, held, i, bound, errors>>

(* One iteration of the loop. *)
ArrayElement ==
  /\ parse = "looping"
  /\ i < bound
  /\ slots < Memory
  /\ slots' = slots + 1
  /\ i' = i + 1
  /\ UNCHANGED <<srcvars, symtab, data_index, data_ptrs, held, bound, errors, parse>>

(* Behind the loop: the symbol gets the address for its length. *)
ArrayDone ==
  /\ parse = "looping"
  /\ i = bound
  /\ AddSymbol(held.name, bound, data_index)
  /\ held' = NONE
  /\ i' = 0
  /\ bound' = 0
  /\ parse' = "parsing"
  /\ UNCHANGED <<srcvars, slots, data_index, data_ptrs, errors>>

(* _mem_alloc: FATAL when there is no memory for an item. *)
OutOfMemory ==
  /\ slots = Memory
  /\ \/ parse = "looping" /\ i < bound
     \/ parse = "parsing" /\ held # NONE /\ FollowsStatement
  /\ parse' = "fatal"
  /\ UNCHANGED <<srcvars, symtab, slots, data_index, data_ptrs, held, i, bound, errors>>

(* var_def: DATA NAME '=' var_constant.  No item is appended: the symbol    *)
(* gets the index the last array definition has left.                       *)
Initialized ==
  /\ Statement("init")
  /\ AddSymbol(Lexeme.arg.name, 1, data_index)
  /\ UNCHANGED <<slots, data_index, data_ptrs, held, i, bound, errors, parse>>

(* var_def: DATA NAME '=' '{' var_constant_list '}'.  The constants go to   *)
(* data_ptrs, which is never emptied; data_count stays 0.                   *)
InitializedList ==
  /\ Statement("list")
  /\ data_ptrs' = data_ptrs + Lexeme.arg.size
  /\ AddSymbol(Lexeme.arg.name, 0, data_index)
  /\ UNCHANGED <<slots, data_index, held, i, bound, errors, parse>>

(* Labels and instructions: nothing is stored, no operand is looked up.     *)
NoEffect ==
  /\ Statement("label") \/ Statement("use")
  /\ UNCHANGED asmvars

(* yyerror is called by the scanner: the parser goes on and knows nothing.  *)
InvalidCharacter ==
  /\ parse = "parsing"
  /\ Junk
  /\ errors' = errors + 1
  /\ UNCHANGED <<symtab, slots, data_index, data_ptrs, held, i, bound, parse>>

(* yyerror, and yyparse returns: the grammar has no error production.       *)
SyntaxError ==
  /\ parse = "parsing"
  /\ Word
  /\ Lexeme.kind = "word" => Lexeme.arg.op = "bad"
  /\ errors' = errors + 1
  /\ parse' = "rejected"
  /\ UNCHANGED <<symtab, slots, data_index, data_ptrs, held, i, bound>>

(* Variant: the end of the input is expected behind a statement only. *)
EndOfModule ==
  /\ parse = "parsing"
  /\ status = "ended"
  /\ held = NONE
  /\ out # << >>
  /\ parse' = "accepted"
  /\ UNCHANGED <<srcvars, symtab, slots, data_index, data_ptrs, held, i, bound, errors>>

(* The end of the input: a module is at least one statement. *)
EndOfInput ==
  /\ parse = "parsing"
  /\ status = "ended"
  /\ held = NONE
  /\ \/ /\ out # << >>
        /\ parse' = "accepted"
        /\ UNCHANGED errors
     \/ /\ out = << >>
        /\ parse' = "rejected"
        /\ errors' = errors + 1
  /\ UNCHANGED <<srcvars, symtab, slots, data_index, data_ptrs, held, i, bound>>

(* run_parser behind yyparse: dump_sym_table reads sym_table, which is NULL *)
(* as long as no symbol was added; then main returns 0.                     *)
Dump ==
  /\ parse \in {"accepted", "rejected"}
  /\ parse' = IF DOMAIN symtab = {} THEN "crashed" ELSE "exit0"
  /\ UNCHANGED <<srcvars, symtab, slots, data_index, data_ptrs, held, i, bound, errors>>

(* The scanner goes on by itself; a file is opened only when the include    *)
(* rule is reduced, behind the statement before it.                         *)
Scan ==
  /\ parse = "parsing"
  /\ \/ Skip \/ Begin \/ EndFile
     \/ held = NONE /\ \E f \in DOMAIN files : OpenFile(f)
  /\ UNCHANGED asmvars

(* open_file's FATAL ends the program. *)
ScanFails ==
  /\ parse = "parsing"
  /\ held = NONE
  /\ OpenFails
  /\ parse' = "fatal"
  /\ UNCHANGED <<symtab, slots, data_index, data_ptrs, held, i, bound, errors>>

AsmNext ==
  \/ ShiftData \/ ReduceData
  \/ BeginArray \/ BeginArrayFails \/ ArrayElement \/ ArrayDone
  \/ OutOfMemory
  \/ Initialized \/ InitializedList
  \/ NoEffect
  \/ InvalidCharacter \/ SyntaxError \/ EndOfInput \/ Dump
  \/ Scan \/ ScanFails

AsmSpec == AsmInit /\ [][AsmNext]_vars

(* One thread of control: the program takes its next step. *)
FairAsmSpec == AsmSpec /\ WF_vars(AsmNext)

-------------------------------------------------------------------------------
AsmTypeOK ==
  /\ \A n \in DOMAIN symtab : symtab[n] \in [length : Nat, index : Nat]
  /\ slots \in 0 .. Memory
  /\ data_index \in Nat /\ data_ptrs \in Nat /\ errors \in Nat
  /\ i \in 0 .. bound /\ bound \in Nat
  /\ parse \in {"parsing", "looping", "accepted", "rejected",
                "exit0", "fatal", "crashed"}

(* A binding is never changed: what the name meant when an earlier          *)
(* statement was assembled is what it means to the end (add_symbol).        *)
FirstBindingKept ==
  [][\A n \in DOMAIN symtab : n \in DOMAIN symtab' /\ symtab'[n] = symtab[n]]_vars

(* So far the parser got no definition but data NAME. *)
OnlyPlain ==
  \A k \in DOMAIN out :
    out[k].kind = "word" => out[k].arg.op \notin {"array", "init", "list"}

(* With plain definitions only, each name has an item, and one of its own   *)
(* (add_symbol, append_data_buffer).                                        *)
SymbolsOwnItems ==
  OnlyPlain =>
    /\ \A n \in DOMAIN symtab : symtab[n].index < slots
    /\ \A n, m \in DOMAIN symtab : symtab[n].index = symtab[m].index => n = m

(* The statements data NAME that are reduced, by their place in the text.   *)
IsData(k) == out[k].kind = "word" /\ out[k].arg.op = "data"
Reduced ==
  {k \in DOMAIN out :
     IsData(k) /\ (held # NONE => \E j \in k + 1 .. Len(out) : IsData(j))}

(* With plain definitions only, across all included files, the index of a   *)
(* name is the number of definitions before its first one in the text       *)
(* (open_file, the end of a file, add_symbol and append_data_buffer).       *)
AddressesFollowText ==
  OnlyPlain =>
    /\ DOMAIN symtab = {out[k].arg.name : k \in Reduced}
    /\ \A k \in Reduced :
         (\A j \in Reduced : j < k => out[j].arg.name # out[k].arg.name)
           => symtab[out[k].arg.name].index = Cardinality({j \in Reduced : j < k})

(* The program stops, whatever the input. *)
AsmEnds == <>(parse \in {"exit0", "fatal", "crashed"})

(* README.md:50: "This directive causes one or more memory store items to   *)
(* be created."                                                             *)
NewSymbolHasItem == [][symtab' # symtab => slots' > slots]_vars

(* parser.y:166 calls the array definition "several uninitialized data      *)
(* elements" and parser.y:167 traces its size as their number: the segment  *)
(* gets no more of them than the definition asks for.                       *)
ArrayHasItsSize == parse = "looping" => slots - data_index <= held.size
================================================================================
