# A TLA+ verification of simple-vm

simple-vm is a toy virtual machine with an assembler. In the version modelled here
the assembler reads its input, follows its include files, parses it and builds a
symbol table and a data segment; instructions are parsed and nothing is emitted
for them, and the machine itself exists only as a description in `src/README.md`.
All the code is single-threaded C; the collector under `src/src/common/gc` is a
vendored library. What makes it hard is state that outlives the place where it was
set: start conditions across files, a global index left by another rule, tombstones,
a flag `is_sorted`, static pointers that survive a destroy call.

Paths below are relative to `src/src/` unless they begin with `src/`.

## 1. Inventory

| component | state | operations | module | what makes it correct |
|---|---|---|---|---|
| hash table, `common/hash.c` | buckets, capacity, count, tombstones | insert, find, exists, remove, growing | `HashTable`, `Dictionary` | a key is stored once, is where the probe looks, every probe ends, growing loses nothing |
| scanner, `assembler/scanner.l`; file stack, `assembler/file_io.c` | start condition, buffers, stack of open files, line numbers | match, begin and end a comment, open a file, end a file | `SourceStack`, `TextInclusion`, `SourceInclusion` | including a file is splicing its text in; every opened file is closed once; line numbers are right; scanning ends |
| parser, `assembler/parser.y`, `main.c` | the statement on its stack, `data_index`, `data_ptrs`, `errors` | one per kind of statement, `yyerror`, the end of the input, the dumps | `Assembler` | addresses follow the text; a definition creates its items; the program ends |
| symbol table, `assembler/symbols.c` | a hash table | `add_symbol`, `get_symbol`, dump | `Assembler` on `Dictionary` | a binding never changes |
| data segment, `vm_common/data_buffer.c`, `data_item.c` | a pointer list of typed items | append, add and get by type, save, load, destroy | the number of items in `Assembler`; items and their file in `DataItem` | what is read back is what was added |
| pointer list, `common/pointer_list.c` | buffer, length, capacity, `is_sorted` | append, index, pop, peek, iterate, sort, find, copy | `PointerList`, `PointerStack` | it is a stack; a list that counts as sorted is in order; a search finds what is there |
| code buffer, `vm_common/code_buffer.c` | bytes, length, capacity, read index | add and read 1, 2, 4, 8 bytes, read at an index, set the index | `CodeBuffer` | what was written is read back, over growth |
| string buffer, `common/string_buffer.c` | characters, `len`, `cap` | append, clear, strip, convert | `StringBuffer`, `TextValue` | there is a terminator within `len`; nothing is written outside of the block; the text is what the calls make |
| string list, `common/string_list.c` | a pointer list | split, add if new, append a list | `StringList` (splitting, appending a list) | splitting and joining agree |
| command line, `common/cmdline.c` | option table, cursor, values | define options, parse, look up | `Cmdline`, `OptionGrammar` | the options get what the grammar of the comments gives them, however arguments are combined; parsing ends; what the program looks up is there |
| array, `common/array.c` | buffer of items, length, capacity | insert, append, delete, swap, push, pop, sort, find | `ArrayList`, `ItemSequence` | it is a sequence, in which a search finds what is there |
| linked list, `common/dl_list.c` | first, last, current | insert, append, prepend, delete, move, iterate | `DlList`, `CursorList` | the two directions agree; it is a sequence with a cursor |
| file finder, `common/fileio.c` | search path, a static buffer | `find_file` | a file is found or not, in `SourceStack` | - |
| trace, `common/trace.c` | stack of verbosities, depth | push, pop, output | not modelled (section 6) | what was pushed is popped |
| allocator, `common/alloc.c` | - | allocate or `FATAL` | `OutOfMemory` in `Assembler` | - |
| instruction encoding, `vm_common/vm_lists.h` | enumerations | - | not modelled | - |
| template program, `main/main.c`; build files, scripts, documents | - | - | not modelled | - |
| garbage collector, `common/gc` | vendored | - | not modelled | - |

How they interact. `main` reads the command line and calls `run_parser`, which opens
the file of the command line and runs `yyparse`. The parser calls the scanner for each
token; the scanner works on the top of `file_stack`. The include rule of the parser
calls `open_file`, which puts the scanner on another buffer *between two tokens*; the
scanner's rule for the end of a file pops it again. The definition rules append to the
data segment (a pointer list) and add a symbol (the hash table). There are no threads,
no callbacks from outside but the comparison functions, and no state on disk, so no
crash recovery; failure means a missing file, too many open files, no memory, or an
error in the program text.

## 2. The modules

### HashTable: `common/hash.c`

`table`, `cap`, `count`, `tombstones` are the members of `hash_table_t`. A bucket is
`NULL`, a live node, or a node whose key is `NULL` (a tombstone). `Hash` is an arbitrary
function: nothing depends on the strings or on FNV. `Probe` is the probe sequence of
`find_slot` with its two widths (the step falls back to 1 after `cap` probes),
`FindSlot` the slot it answers with. Each call is an action, except that an insertion
which grows the table is `BeginRehash`, one `RehashBucket` for each old bucket and
`EndRehash`, with `old`, `oldcap`, `i` the locals of `rehash_table` and `pending` the
insertion that waits. `IsLoaded` is the test `count * 1.75 >= cap` in integers. Two specifications:
`GrowOnlySpec` has the calls the programs in `src/` make (nothing there removes a key),
`Spec` the whole interface of `hash.h`.

`Dictionary` is the abstract specification of a table without removals: a set of bindings, where
an insertion never replaces, and the answer of each call. `ImplementsDictionary` maps the table to it
through `Bindings`, the nodes of the new table together with those of the old one that the loop has
not yet moved. A call of the table is recorded with its key and its datum, and `CallsAgree` asks of
the step that ends it to be the dictionary's step *for that key and datum*, so that a lookup that
misses, or that answers with another key's datum, is seen.

### SourceStack: `assembler/scanner.l`, `assembler/file_io.c`

A file is a sequence of lexemes (word, junk, newline, `//`, `/*`, `*/`, include
directive); spelling, literals and columns are abstracted. `stack` is `file_stack` with
the position in each buffer and the line number; `cond` is the scanner's start
condition; `fds` counts open files up to `FdLimit`. `OpenFile` is `open_file` with
`push_file_buffer`, `EndFile` the rule for the end of a file. In the code that rule does
not reset the start condition, and `MAX_INCL` is defined (scanner.l:13) and never used,
so what stops files that include each other is `fopen` failing: `OpenFails`.

`TextInclusion` is the abstract specification: one text, in which a directive is
replaced by the text of the file. `SourceInclusion` holds the mapping: the remaining
text is what each file on the stack has still to be read, the top first.

### Assembler: `assembler/parser.y`, `symbols.c`, `main.c`, `vm_common/data_buffer.c`

It extends `SourceStack`; each of its actions contains one action of the scanner or
leaves the scanner alone. A word of the text is a whole statement. `symtab` is the
dictionary, `slots` the length of the data segment. The parser reduces `data NAME` only
when it has seen that the next token can follow it: `ShiftData` and `ReduceData` are
separate actions with `held` between them, and the scanner's silent steps (comments, the
end of a file) come in between. The include rule needs no lookahead, so
an include is an action of the scanner alone, once nothing is held. `ArrayElement` is
one iteration of the loop of an array definition and `ArrayDone` what is behind the loop, whose bound
is the *address* of the item that holds the size (parser.y:169). `bound` takes any of `Address`, some of
which the index reaches and some of which memory does not.
`Dump` is the end of `run_parser`, which reads `sym_table->cap` also when there is no
symbol table. `InvalidCharacter` is the scanner's call of `yyerror`, `SyntaxError` the
parser's, after which `yyparse` returns (there is no error production).

### PointerList: `common/pointer_list.c`

`buffer` is a function on `0 .. cap - 1`, with `NULL` where memory was zeroed and `JUNK`
where `realloc` left what it found. Sorting (a bubble sort) and searching (a binary
search) take one step per comparison; the rest are one action each. `Rank` stands for
the comparison function. `PointerStack` is the abstract specification: a sequence with
push and pop at its end; looking returns anything, sorting exchanges two neighbours
that are in the wrong order.

### Cmdline: `common/cmdline.c`, `split_string` of `common/string_list.c`

`args` is the list of entries that `add_cmdline` made, behind which `store_environment`
appends the environment; `cmds` and `cmds_idx` are the arguments and the cursor. One
step is one turn of the loop of `parse_cmdline`, or one letter of the loop of
`parse_short_option`, with `str` and `idx` its locals; there is one action for each way
through the three parsers. An argument is a sequence of symbols, where a name or a value is
one symbol. `status` tells how parsing ends: the callbacks of both programs in `src/`
are `cmdline_help` and `cmdline_vers`, which exit. "crashed" is the read through `NULL`
at cmdline.c:379; "undefined" is the argument `-`, where the end of the string matches the
first entry without a letter and the loop reads behind it. The model stops at both.

`OptionGrammar` is the reference: what a command line means according to the comments
of `cmdline.c`, as a sequence of settings that is computed from the arguments alone,
without a cursor or a table that changes. `ParsesAsDocumented` compares the two when
parsing has ended, and `OnlyErrorsKill` asks of a line that gets to "crashed" or "undefined" that the
grammar refuses it. Both leave out the lines that give a value to a long switch
(`Plain`): `--abc=something` is a syntax error by the comment (cmdline.c:411), which is what the grammar
says, and the code accepts it (477). `AcceptedIsCorrect` is the claim without that exception, and it is
violated (section 4).

The environment is read through a buffer of fixed size: `InBuffer` cuts a variable that does not fit,
and as `strncpy` then writes no NUL, the entry goes on with `Behind`, what the stack may hold there.

### StringBuffer: `common/string_buffer.c`

`buffer`, `len`, `cap` are the members of `string_t`. A string has two ends: `len`, and the
first NUL, by which the C library goes. Some calls use the one, some the other, and
`strip_space` and `strip_ends` move the NUL only; the model keeps both, with the NUL
characters that `append_string_char` accepts. A string owns the places `0 .. cap - 1`, and two calls
write elsewhere: `append_string_char` puts its terminator at `cap` when the string is filled exactly, and
`strip_ends` of a blank text puts one at -1. `strays` records each side that was written to, and
`StraysKnown` says that these are the only cases. What is written at `cap` can be read
again, since the allocators of the build round a block up and leave a byte there (the comment at the head of the module);
of the place in front the model keeps no value, as no call takes one from it. `TextValue` is the abstract
specification: a text that each call changes as its name says. Where `len` is behind the
NUL, `append_string_char` puts its character where no reader sees it: that is a stutter of
the text, and `CharAppended` says when it cannot happen.

### CodeBuffer, DataItem: `vm_common/code_buffer.c`, `vm_common/data_item.c`

What `run_parser` creates for the machine. `CodeBuffer` has the writes and reads of 1, 2, 4
and 8 bytes as one action each with a width; a byte is "byte k of value v", so that
a byte lost, shifted or overwritten shows. `DataItem` has the items and their file,
a sequence of numbers and raw bytes. `save_data_item` of a string writes `len` bytes from
the address of the pointer to its characters (data_item.c:75), that is any bytes: what comes
back is a string no longer than the saved one, and what matters is that it does not shift
the items behind it. A float is stored as the unsigned number it converts to (data_item.c:46, `AsUnsigned`).

### ArrayList: `common/array.c`

`items`, `length`, `capacity`, `is_sorted`, `comp` are the members of `array_t`; bytes are copied
an item at a time. Calls are made with any index of `Indexes`, and `Refused`, `WriteIndex` and
`ReadIndex` do what the two normalizations do: only an index above the length ends the
program. A call that is refused, that would write outside of the buffer (a negative index
below the beginning; an exchange with the place `capacity`), or that calls a comparison function that is
`NULL`, sets `fault`, behind which nothing is modelled. A deletion from an empty array is not refused, and makes the length
-1, which the model follows down to `MinLength`. `SortArray` is the bubble sort of the code: `Compared`
is one comparison, `Sweep` the inner loop, `SortedItems` the outer one; `Search` is the loop of the binary search.
Both are one step, since no other code runs in between.

`ItemSequence` is the abstract specification: a sequence in which an exchange swaps two items and no
others, and sorting permutes the items into order. `CallsOfSequence` says of each call, by its name and its
index, that it is carried out and which step of the sequence it makes: with an index that names an item, or, where
items are put in or taken away, the end (`InRange`, `OfItem`). Two calls are left out, where what the code does is no
step of a sequence: a call on an array whose length has become negative, and an
exchange with the place behind the last item, which the code accepts and which takes in whatever is
there; the comment (array.c:276) would have it exchange the last one. A deletion at the length takes away the last item.

### DlList: `common/dl_list.c`

`next` and `prev` are functions on the nodes of the list, `first`, `last`, `crnt` its members,
`mark` the state of an iteration, between whose steps the list may change. A read of a member
of `NULL` sets `crashed` to "null": deleting the only node does it, and so does moving off an
end. A step of an iteration whose node was deleted since reads freed memory (dl_list.c:131) and sets it to "freed". A
deleted node may also come again at the same address, and then the iteration goes on from there.
`CursorList` is the abstract specification: a sequence, a current node, an iteration; its `Insert` is that
of the comment, "insert after the current node". `CallsOfList` asks of each call that does not crash the step of its
name, but for an insertion at a first node, which the code makes in front of it; that
exception is the finding of `DlInsert`.

### Library

The containers and segments above share no state and call nothing of each other. `Library` has them side by
side for a client that uses one of them, so that one run explores each of them alone, and not their product.

### Names beginning with a variant

An operator with the comment "Variant:" stands before the definition it varies
(`StopsIfFree`, `FindAtHome`, `EndFileOpen`, ...). It is that definition with a
plausible mistake in it, and no specification uses it: `PROJECT.json` ("mutants") pairs
each with the property that must notice the mistake.

## 3. The runs

| run | states | checks | question |
|---|---|---|---|
| `HashGrowOnly` | 59,643 | `TypeOK NoDuplicateKeys Reachable FindSlotEnds CountExact ImplementsDictionary` | does the table lose, double or misplace a key, inside the rehash loop too; does it answer each call as a dictionary |
| `HashFullApi` | 115,052 | `CountCoversLive StoredIsFound` | what is left of that when keys are removed |
| `SourceStack` | 193,040 | `TypeOK FilesClosed LinesRight ResumeBehindDirective ImplementsInclusion ScanEnds` | is including splicing, for nested, circular, missing includes and comments across files |
| `Assembler` | 694,887 | `AsmTypeOK SymbolsOwnItems AddressesFollowText FirstBindingKept AsmEnds` | every kind of statement over two files, errors, a missing file, memory running out: do addresses follow the text, do bindings stay, does the program end |
| `AsmInitialized` | violation | `NewSymbolHasItem` | an initialized definition creates no item |
| `AsmArray` | violation | `ArrayHasItsSize` | an array definition makes more items than its size |
| `PointerList` | 534,292 | `TypeOK SortedIsInOrder FindsWhatIsThere LoopsEnd ImplementsStack` | do sorting and searching end and do they do what they say; is the list a stack |
| `Cmdline` | 183,714 | `TypeOK ParsesAsDocumented OnlyErrorsKill ReadersFindStrings ParseEnds` | is every command line parsed to its end and to what the comments say, with repeated, combined, missing and empty arguments; do only lines in error crash; are the strings there that the program reads |
| `CmdMissing` | violation | `MissingArgumentReported` | a short option without its argument crashes the parser |
| `CmdSwitchValue` | violation | `AcceptedIsCorrect` | a long switch with a value is accepted |
| `Library` | 79,594 | `CodeKept LoadsBack` | is what was written to the code buffer read where it was written, over growth; do saved items come back in order and with their types, numbers with their bits and strings as something no longer, and zeros at the end of the file |
| | | `StringTypeOK Terminated ImplementsText CharAppended StraysKnown` | does a string stay terminated, is its text what the calls make, whatever `len` is left at, and which calls write outside of its block |
| | | `ArrayTypeOK ImplementsArray` | with indexes from both ends, in range and out of it, is the array the sequence its calls make, and does a search find what is there |
| | | `Linked ImplementsList` | do the two directions agree, and is the list a sequence with a cursor, also during an iteration |
| `DlInsert` | violation | `InsertedAfterCurrent` | an insertion at a first node comes in front of it |

Deadlock checking is off where the program or the model stops: when the
assembler has ended, when the scanner has ended, when the command line is parsed, and in the hash table runs that
reach `MaxCap` while loaded (an insertion there would have to grow beyond the bound), and in `Library`
when the file is written and read up to its bounds, the array has a fault or the doubly linked list has crashed.

### Bounds, and why they are enough

* Hash table: `InitCap = 4` as in the code, `MaxCap` 16 (8 with removals): the table
  grows twice (once). The keys, five or four of the six of `MCHashTable`, are chosen so that at each capacity some collide,
  some have a step that does not reach every slot (which is when the fall-back to
  step 1 matters) and some a step that does. `IncMask` is 4 for 16, so that the
  replacement of a zero step occurs at these capacities. `Floor` caps the tombstone counter
  from below; the code lets it sink (`find_slot` decrements it on lookups), and only its
  being too low or not matters.
* Source files: two files, up to three and up to two lexemes, with every directive
  (itself, the other, none) in every position, and at most three open files. Every
  pair of adjacent steps on two levels of the stack occurs, circular inclusion runs into the
  limit, and comments cross a file boundary in both directions.
* Assembler: the same shape of texts with statements on two names; memory for four
  items (six in `AsmInitialized`), so that it runs out in some behaviours and
  not in others, also exactly when an array begins; array bounds of 2 and 9, one below the memory and one above.
* Pointer list: capacities 1, 2, 4, at most four pointers (the second growth, and the
  first position where a binary search takes three steps), two of the three pointers equal
  in order.
* Command line: an option of each kind of the two programs and of the test program at the
  end of `cmdline.c` (a value with a default, a switch, a list without a default, a callback, a divider, a
  required anonymous item); 24 arguments, among them one for each branch of the three
  parsers; lines of up to three of them, so that an option can take the next
  argument, whatever that is, and be given again; no environment, or one with names like
  those of options, one of them without `=`. A second program without an
  anonymous option is called with lines of up to two arguments, and also with variables that are lists or
  without text, and with some that do not fit into a buffer of six symbols (1024 characters in the code).
* String buffer: a new string has room for two characters (8 in the code), so that it
  grows twice within five, with a terminator at every place relative to the capacity; a
  lower and an upper case letter and a space; pieces of up to two.
* Code and items: widths 1 and 2 in a buffer of two bytes, up to five: a write of two bytes
  comes at an odd length, and exactly at, before and across the capacity. Two items are saved, of
  strings of up to two bytes, NUL among them, and three are loaded, one behind the end.
* Array: up to four items in a buffer that begins with two and is doubled; three items,
  two of them equal in order; an array of two and an empty one are inserted; indexes from -4 to 5, beyond
  both ends of an array of up to three; two deletions from an empty array (`MinLength`).
* Doubly linked list: five nodes, so that there is a node between the current one and either end.

What holds only within these bounds is said in section 5.

### Fairness

All fairness is weak and on steps of one thread of control: `Loop` of the pointer list (a call
that has begun runs on; no call need ever be made), the scanner's `Next` (the parser
asks for a token until the end), `AsmNext` (the program runs) and the `Next` of
`Cmdline` (`parse_cmdline` runs to its end). The code has nothing
to wait for, so that weak fairness of the next step is what the processor gives it.

## 4. Findings

Five disagreements with what the repository says have a run each:

1. `cmdline.c:379` (`CmdMissing`): the message for a short option without its argument reads
   `str`, which is `NULL` by then.
2. `parser.y:176` (`AsmInitialized`): an initialized `data` appends no item and binds its name
   to `data_index`, which only array definitions assign (0 at first), where `src/README.md:50` says
   that it creates items.
3. `parser.y:169` (`AsmArray`): the loop of an array definition compares its index with a pointer, so that
   it makes as many items as memory holds or as the address counts, where lines 166 and 167 speak of as many as its size.
4. `cmdline.c:477` (`CmdSwitchValue`): `--abc=text` for an option that takes no argument is accepted
   and the text dropped, where the comment (411) makes it a syntax error.
5. `dl_list.c:83` (`DlInsert`): an insertion at a first node comes in front of it, where the comment (75)
   says "insert after the current node".

Others were met while modelling. Where the modelled code reaches them the models do as the
code does; they have no run of their own:

* `hash.c:66`: `find_slot` answers with the first tombstone without looking for the key behind
  it. After a removal a key can be stored twice, where `hash.c:148` says "cannot store
  duplicate key". No program in `src/` removes keys.
* `hash.c:85`: the table grows at 4/7 of its capacity, where `hash.c:10` says 3/4.
* `parser.y:399`: a name that is used need not be defined, which `src/README.md:20` asks for.
* `parser.y:364`: the divisions of an index expression test the dividend for zero.
* `pointer_list.c:11`: a negative index is mapped behind the end of the list.
* `cmdline.c:135`: a variable of the environment that fills the buffer is not terminated.
* `data_buffer.c:30`: every item is stored as an UNSIGNED whose value is a type tag.
* `data_item.c:75`: the bytes of the structure are saved, not the characters of the string.
* `array.c:308`: `pop_array` and `peek_array` count bytes, not items, and the item is the old
  top, where the comment says the new one.
* `array.c:229`: deleting in an empty array makes its length -1, and the insertion after that writes in front
  of the buffer; so does a negative index below the length (30), which is not refused.
* `array.c:279`: exchanging with the length takes in what is behind the last item, where the comment (276)
  says "swap at the beginning or the end as approprate"; deleting at the length takes away the last item.
* `dl_list.c:55`: deleting the only node reads through `NULL`; a step of an iteration from a deleted node reads
  freed memory (131).
* `string_buffer.c:164`: `strip_ends` of a blank text writes in front of the buffer, and
  `append_string_char` (94) one byte behind it when the string is filled exactly; behind `strip_space` it loses its character.
* `code_buffer.c:87`: no sequential read is tested against the length, and a read by index for its
  first byte only.
* `trace.c:25`: a second entry of the stack of verbosities is linked to itself.

## 5. What is proved

Seven modules of proofs and `Induction`, on which they rest, all checked by TLAPS, for every
value of the constants that the assumptions of the modules allow:
any hash function, any contents of the files, any memory, any order and any length, any
options, arguments and environment.

**Induction.** The library's theorems on induction take an operator as a parameter, which
the provers cannot instantiate. `NatSetInduction` is induction for a *set* of numbers, from the
least element that `SmallestElement` finds. A recursive function is
named by a predicate on functions (`IsFields`, `IsSearch`, `ChainOf`, ...), shown to exist
by that induction and then computed one step at a time. `FlattenCons` and `FlattenSnoc` do this for
`FlattenSeq`; the other lemmas say what concatenations and parts of sequences are made of.

**HashTableProofs.** `TypeCorrect` (`Spec => []TypeOK`). For the table that only grows,
`GrowOnlyInv` is inductive: `TypeOK`, no tombstones, `NoDuplicateKeys` and `Reachable`
together. Neither of the last two is inductive alone: a key stored out of reach would be
stored again by the next insertion, and reachability of a new node rests on
its path having no tombstone. From it `KeysUnique`, `KeysReachable`, `CountIsExact`
and `Implements` (the refinement of `Dictionary`, and `CallsAgree`: every step that ends a call is the
dictionary's step for the key and the datum of that call, and every other changes no binding and no answer). For the whole interface `LoadInv` says that the
count covers the live nodes and that, with what the load test leaves free, the table is
never full: `CountSafe` and `ProbesEnd`. `StoredFound` (`StoredIsFound`) needs the types only: the bucket
that ended the probe before the node was put there ends it afterwards. That the second phase of the probe visits every
slot is a lemma on the arithmetic of `Probe`.

**AssemblerProofs**, on the scanner (`SourceStack`), the assembler and the segments.

*The stack of files.* `StackInv` = `TypeOK`, `FilesClosed`, `ResumeBehindDirective`;
the number of open files is bounded by `FdLimit` only because it is the length of
the stack, and a frame may be resumed only because it stands behind its directive.
Lemmas say what replacing the top frame, pushing and popping do to the frames
below. From it `SourceTypeCorrect`, `NoFileLeaks`, `ResumedRight`. `LinesCounted` (`LinesRight`) needs
besides that the newlines in front of a place and of the next one differ by one or none,
which is a lemma on cardinalities. `InclusionImplemented` is the refinement of `TextInclusion`:
the text that remains is flattened from the stack (`FlattenCons`), so that pushing a file is splicing its
text in, and popping one that was read to its end changes nothing.

*The assembler.* `AssemblerScans`: every step of the assembler is a step of the
scanner or leaves it alone (`AsmSpec => Spec`), so that the theorems on the stack hold
in the assembler (`AssemblerStack`, `AssemblerInclusion`). `BindingsKept`: no step changes a binding.
`AsmTypeCorrect`.
`SymbolsApart` (`SymbolsOwnItems`): with plain definitions only, the indices are below the
length of the segment and differ; it rests on what the parser got only growing.
`AddressesRight` (`AddressesFollowText`) is about the same programs: `TextInv` says that the
symbols and the length of the segment agree with the definitions in the text that are reduced, and
that the one that is held is the last of all. It is why the lookahead does no harm.

*The segments.* For the code buffer `CodeInv` = `CodeTypeOK` and `Kept`: each write lies where it
was made, behind the one before it, and below the length. The last is not part of
`CodeKept`, which is not inductive without it: a later write could go over it. For the
file `FileInv` adds to `LoadsBack` that each saved item lies in the file behind the one
before it (`Framed`) and that the next item to be loaded begins where the file is read (`InStep`).
From them `CodeTypeCorrect`, `WritesKept`, `ItemsLoadBack`.

**PointerListProofs.** `ListInv` = `TypeOK`, the locals at rest, `SortedIsInOrder`, the
invariant of the passes of the bubble sort (the tail is in order and not below what
is in front of it) and that of the binary search (an equal item, if there is one, lies
between `low` and `high`). From it `TypeCorrect`, `SortedCorrect` and the action
property `SearchCorrect`. `Implements` is the refinement of `PointerStack`: each call is a
push, a pop, a look or an exchange of neighbours that are in the wrong order.

**StringBufferProofs.** `StringInv` = the types, `len` within the capacity with a NUL *at* it, and
nothing up to it that nobody has written; `RoomInv` adds that `len` is below the capacity as long as nothing was written behind. `Terminated` is not inductive alone: an append at a `len`
without a NUL would leave none. The text is what stands before the first NUL (`StrLenIs`);
one lemma for each call says what it does to the text, that of `strip_char`
by induction along its loop (`LeavesSelect`). From them `StringType`,
`StringTerminated`, `StringStraysKnown`, `StringCharAppended` and the refinement `StringImplementsText`.

**ArrayListProofs.** `ArrayInv` = `ArrayTypeOK` and that the flag `is_sorted` tells the truth, without which
the search would skip the sorting it needs. The sort is proved along its two loops: a run carries the largest
item to its end (`SweepFacts`), each run adds one to the items that are settled (`SettledMore`, `SortedFacts`), and an
exchange of neighbours keeps the number of times an item occurs (`MovedCounts`); that the recursive functions of the
loops exist is `IterationExists`. The binary search is a recursive function on intervals; `ProbeAnswers` is induction on
their width. From them `ArrayTypeCorrect` and `ArrayIsSequence` (`ImplementsArray`).

**DlListProofs.** `ListInv` = `ListTypeOK`, `Linked` and `Ordered`. `Linked` alone allows a node
that is its own neighbour, off the chain from the first node; deleting it would break the links. `Ordered` excludes this
with a relation `behind` on the nodes that `next` follows; each step names its new relation. From it
`ListTypeCorrect` and `LinksAgree`. For `ImplementsList` `Chained` says that a sequence lists the
nodes, each once and in the order of `next`; such a sequence is *the* chain (`ListsChain`), so
that putting a node in or taking one out does the same to both: `ListIsSequence`.

**CmdlineProofs.** `TypeInv` = `TypeOK`, that the call is one of `Calls`, that each element of `args`
stands for the option it was made of, or for a variable of the environment (`StandFor`), and that
`str` is the argument at the cursor without its dash (`InShort`). The assumptions say of a
program what those in `src/` do: `SEEN` is not a flag that a program sets (cmdline.h:28), a default is one string
(`add_cmdline`), the two callbacks have letters (assembler/main.c:11), and what is looked up is an
option that has a string or must be given one. From it `CmdlineTypeCorrect`.
`StringsFound` (`ReadersFindStrings`) needs `ReadInv`: an option that stores its argument and was seen has a
string, and when parsing has ended the required ones were seen.

`ParsingMeansTheGrammar` (`ParsesAsDocumented`) and `CorrectLinesSurvive` (`OnlyErrorsKill`) compare the loops of the parser with the recursions
of the grammar, for the lines that give no value to a long switch (`Plain`; on the others code and comments differ). `Doing` says that the settings of the line are those done, which have brought `args`
to what it is (`Progress`), followed by those pending from the cursor on (`Pending`), and that within
a group of letters the letters that are left decide whether the argument takes the next one. Each
step carries out the first setting that is pending and leaves the others (`ProgressMade`), or ends
parsing where that setting ends the grammar (`DoingStops`). At the end none is pending, so that what was done is the
whole meaning. Below it are lemmas on what one letter, one name and one item mean, on the
recursions of the grammar one step at a time, and on the three lookups (`LookupsAgree`).

**Model-checked only.** Liveness (`ScanEnds`, `AsmEnds`, `LoopsEnd`, `ParseEnds`): the
prover has no rule for fairness here. Every other property of a passing run is a theorem above.
The five properties that the code violates are left to TLC.
The theorems on the containers and segments are stated for the specification of each (`CodeSpec`, `FileSpec`, `StringSpec`,
`ArraySpec`, `ListSpec`), of which a behaviour of `Library` makes the steps of one.

## 6. What is not modelled

Spelling and conversion of words and literals; column numbers and the wording of
messages; the kinds of instruction (all 380 lines of them store nothing); the search path;
what freeing does (under the collector it is invisible to the program, apart from the
static pointer listed as a hazard); the read of `yytext` after its buffer was deleted, of
which only the counted error remains; overflow of `int` counters, which memory forestalls.
The accessors of the data buffer by type and index read what `append_data_buffer` has left, which is
never an item of the type asked for, and nothing calls them. `add_string_list` of the string list has no caller.
The value of an index expression is dropped by the rule above it (parser.y:385). The stack of
verbosities is pushed twice by the assembler in a build with `USE_TRACE` (main.c:18) and never popped.
`convert` of the string buffer makes a new string of appends; inserting an array into itself is left out, and so
is what follows a write outside of an array or a read through `NULL` or of a freed node.

In `PointerList` one iteration runs at a time, and a list is sorted and searched with
one and the same comparison function, as in `string_list.c`.

## 7. Plan

Done, in this order: `HashTable` with `Dictionary` and proofs; `SourceStack` with
`TextInclusion` and proofs; `Assembler` and proofs; `PointerList` with
`PointerStack` and proofs; `Cmdline` with `OptionGrammar`; `StringBuffer` with `TextValue`;
`CodeBuffer` and `DataItem`, with proofs; `ArrayList` with `ItemSequence`; `DlList` with
`CursorList`; then `Induction`, and with it the refinements of `TextInclusion`, `TextValue`, `ItemSequence`
and `CursorList`, and the proofs about the command line, the last of them `ParsingMeansTheGrammar`; then `Library`, with
every index of an array, the loops of its sort, the writes outside of a string and the iteration over a deleted node.

Next, in the models: the data buffer with its accessors, once the assembler stores values
in it, and the emission of code when there is one.
