-------------------------------- MODULE Cmdline --------------------------------
(***************************************************************************)
(* Parsing the command line: src/src/common/cmdline.c.  The loop of        *)
(* parse_cmdline takes one step per argument, that of parse_short_option   *)
(* one per letter.  OptionGrammar tells how arguments are represented, and *)
(* what they should mean.                                                  *)
(***************************************************************************)
EXTENDS OptionGrammar

CONSTANTS
  Calls,     \* how programs may be called: records of their options, the
             \* arguments (without the name) and the environment
  ReadNames, \* the names the programs will look up
  EnvMax,    \* how many symbols fit into the buffer of store_environment
  Behind     \* what the stack may hold behind that buffer, up to a NUL

(* The options are as add_cmdline makes them: none is marked as seen, a     *)
(* default is one string.  The programs give every callback a letter        *)
(* (assembler/main.c:11).                                                   *)
OptionsAssumption(call) ==
  /\ call.options \in Seq(Option)
  /\ \A o \in DOMAIN call.options :
       LET opt == call.options[o]
       IN  /\ "SEEN" \notin opt.type
           /\ opt.value # NULL => Len(opt.value) = 1
           /\ opt.cb => opt.short # NUL

(* What a program looks up is the name of one of its options: a switch, one *)
(* with a default, or one that it requires and that is given a string       *)
(* whenever it is seen.                                                     *)
ReadAssumption(call) ==
  \A name \in ReadNames : \E o \in DOMAIN call.options :
    LET opt == call.options[o]
    IN  /\ opt.name = name
        /\ \A p \in 1 .. o - 1 : call.options[p].name # name
        /\ \/ "SWITCH" \in opt.type
           \/ opt.value # NULL
           \/ /\ "REQD" \in opt.type
              /\ \/ {"ARGS", "LIST"} \intersect opt.type # {}
                 \/ "ANON" \in opt.type /\ opt.short = NUL /\ opt.long = NULL

ASSUME SymbolAssumption ==
  /\ {"0", "1"} \subseteq Symbol /\ NUL \notin Symbol
  /\ NULL \notin String /\ NULL \notin Seq(String)

ASSUME CallsAssumption ==
  \A call \in Calls :
    /\ call.cmds \in Seq(String)
    /\ call.env \in Seq(String)
    /\ OptionsAssumption(call)
    /\ ReadAssumption(call)

ASSUME EnvAssumption == EnvMax \in Nat \ {0} /\ Behind \subseteq String

VARIABLES
  options,   \* the options of the program, in the order it defined them
  cmds,      \* cmds
  env,       \* the environment
  args,      \* cmdline->args: the options, and behind them the environment
  cmds_idx,  \* cmds_idx, the cursor
  str, idx,  \* of parse_short_option; idx is 0 outside of it
  status     \* "defined", "parsing", and how it ends: "parsed", "failed" and
             \* "exited" (both exit(1)), "crashed" (a read through NULL),
             \* "undefined" (a read behind the end of a string)

vars == <<options, cmds, env, args, cmds_idx, str, idx, status>>

(* add_cmdline: a list takes arguments. *)
AddCmdline(opt) ==
  [opt EXCEPT !.type = IF "LIST" \in @ THEN @ \union {"ARGS"} ELSE @]

Init ==
  /\ \E call \in Calls :
       /\ options = call.options
       /\ cmds = call.cmds
       /\ env = call.env
  /\ args = [o \in DOMAIN options |-> AddCmdline(options[o])]
  /\ cmds_idx = 1
  /\ str = << >> /\ idx = 0
  /\ status = "defined"

-------------------------------------------------------------------------------
(* One variable of the environment, and none for a string without "=".     *)
EnvEntry(e) ==
  LET cut == SelectInSeq(e, LAMBDA c : c = "=")
      head == Rest(e, cut + 1)
  IN  IF cut = 0 THEN << >>
      ELSE <<[short |-> NUL, long |-> NULL, name |-> SubSeq(e, 1, cut - 1),
              value |-> IF head # << >> /\ head[1] = ":" THEN <<head>>
                                                         ELSE Split(head, ":"),
              cb |-> FALSE, type |-> {}]>>

(* strncpy puts no NUL behind a variable that fills the buffer: what is cut *)
(* off is lost, and the string goes on with what is behind the buffer.      *)
InBuffer(e, behind) ==
  IF Len(e) < EnvMax THEN e ELSE SubSeq(e, 1, EnvMax) \o behind

(* store_environment *)
Environment(behind) ==
  FlattenSeq([k \in DOMAIN env |-> EnvEntry(InBuffer(env[k], behind[k]))])

(* init_cmd, and the name of the program is passed over. *)
StoreEnvironment ==
  /\ status = "defined"
  /\ \E behind \in [DOMAIN env -> Behind] : args' = args \o Environment(behind)
  /\ status' = "parsing"
  /\ UNCHANGED <<options, cmds, env, cmds_idx, str, idx>>

GetShortOpt(c) == SelectInSeq(args, LAMBDA e : e.short = c)
GetLongOpt(t) == SelectInSeq(args, LAMBDA e : e.long = t)
GetOptByName(t) == SelectInSeq(args, LAMBDA e : e.name = t)
GetAnon == SelectInSeq(args, LAMBDA e : "ANON" \in e.type)

(* add_cmdline_arg *)
WithArg(e, text) ==
  [e EXCEPT !.value =
     IF "LIST" \in e.type THEN (IF @ = NULL THEN << >> ELSE @) \o Split(text, ":")
     ELSE IF @ = NULL THEN <<text>> ELSE ReplaceAt(@, 1, text)]

Seen(e) == [e EXCEPT !.type = @ \union {"SEEN"}]
SetSeen(o) == args' = [args EXCEPT ![o] = Seen(@)]
Give(o, text) == args' = [args EXCEPT ![o] = Seen(WithArg(@, text))]

More == cmds_idx <= Len(cmds)
Arg == cmds[cmds_idx]

(* consume_cmd, n times. *)
Consume(n) == cmds_idx' = Min({cmds_idx + n, Len(cmds) + 1})

-------------------------------------------------------------------------------
Parsing == status = "parsing" /\ UNCHANGED <<options, cmds, env>>
AtArgument == Parsing /\ idx = 0 /\ More /\ UNCHANGED <<str, idx>>

(* Variant: the item counts as seen and is not stored. *)
ListItemUnstored ==
  /\ AtArgument
  /\ ~ IsOption(Arg)
  /\ GetAnon # 0
  /\ SetSeen(GetAnon)
  /\ Consume(1)
  /\ UNCHANGED status

(* parse_list_item *)
ListItem ==
  /\ AtArgument
  /\ ~ IsOption(Arg)
  /\ GetAnon # 0
  /\ Give(GetAnon, Arg)
  /\ Consume(1)
  /\ UNCHANGED status

ListItemUnknown ==
  /\ AtArgument
  /\ ~ IsOption(Arg)
  /\ GetAnon = 0
  /\ status' = "failed"
  /\ UNCHANGED <<args, cmds_idx>>

-------------------------------------------------------------------------------
(* parse_long_option; the copy of the argument is cut at the first "=".     *)
Text == Rest(Arg, 3)
Cut == SelectInSeq(Text, LAMBDA c : c = "=")
LongItem == GetLongOpt(IF Cut = 0 THEN Text ELSE SubSeq(Text, 1, Cut - 1))
AtLong == AtArgument /\ IsLong(Arg)

LongUnknown ==
  /\ AtLong
  /\ LongItem = 0
  /\ status' = "failed"
  /\ UNCHANGED <<args, cmds_idx>>

LongCallback ==
  /\ AtLong
  /\ LongItem # 0 /\ args[LongItem].cb
  /\ status' = "exited"
  /\ UNCHANGED <<args, cmds_idx>>

LongOption == AtLong /\ LongItem # 0 /\ ~ args[LongItem].cb
LongTakesArg == LongOption /\ "ARGS" \in args[LongItem].type

LongNextArg ==
  /\ LongTakesArg
  /\ Cut = 0
  /\ cmds_idx < Len(cmds)
  /\ Give(LongItem, cmds[cmds_idx + 1])
  /\ Consume(2)
  /\ UNCHANGED status

LongMissingArg ==
  /\ LongTakesArg
  /\ Cut = 0
  /\ cmds_idx = Len(cmds)
  /\ SetSeen(LongItem)
  /\ Consume(1)
  /\ status' = "failed"

LongValue ==
  /\ LongTakesArg
  /\ Cut # 0 /\ Cut < Len(Text)
  /\ Give(LongItem, Rest(Text, Cut + 1))
  /\ Consume(1)
  /\ UNCHANGED status

LongEmptyValue ==
  /\ LongTakesArg
  /\ Cut # 0 /\ Cut = Len(Text)
  /\ SetSeen(LongItem)
  /\ status' = "failed"
  /\ UNCHANGED cmds_idx

(* Whatever stands behind an "=" is not looked at. *)
LongSwitch ==
  /\ LongOption
  /\ "ARGS" \notin args[LongItem].type
  /\ SetSeen(LongItem)
  /\ Consume(1)
  /\ UNCHANGED status

-------------------------------------------------------------------------------
(* parse_short_option *)
BeginShort ==
  /\ Parsing
  /\ idx = 0
  /\ More
  /\ IsOption(Arg) /\ ~ IsLong(Arg)
  /\ str' = Tail(Arg)
  /\ idx' = 1
  /\ UNCHANGED <<args, cmds_idx, status>>

Char(n) == IF n <= Len(str) THEN str[n] ELSE NUL
ShortItem == GetShortOpt(Char(idx))
AtLetter == Parsing /\ idx # 0

(* The loop is left: the locals are gone. *)
EndShort == str' = << >> /\ idx' = 0

ShortUnknown ==
  /\ AtLetter
  /\ ShortItem = 0
  /\ status' = "failed"
  /\ EndShort
  /\ UNCHANGED <<args, cmds_idx>>

ShortCallback ==
  /\ AtLetter
  /\ ShortItem # 0 /\ args[ShortItem].cb
  /\ status' = "exited"
  /\ EndShort
  /\ UNCHANGED <<args, cmds_idx>>

ShortOption == AtLetter /\ ShortItem # 0 /\ ~ args[ShortItem].cb
ShortTakesArg == ShortOption /\ idx <= Len(str) /\ "ARGS" \in args[ShortItem].type
ShortIsSwitch == ShortOption /\ idx <= Len(str) /\ "ARGS" \notin args[ShortItem].type

(* The argument is a single dash: the end of the string matches the first   *)
(* option without a letter, and then the string is read behind its end.     *)
ShortPastEnd ==
  /\ ShortOption
  /\ idx > Len(str)
  /\ SetSeen(ShortItem)
  /\ status' = "undefined"
  /\ EndShort
  /\ UNCHANGED cmds_idx

(* The argument is what follows the letter, or what follows "=".            *)
ShortValue ==
  /\ ShortTakesArg
  /\ Char(idx + 1) # NUL
  /\ Give(ShortItem, IF Char(idx + 1) = "=" /\ Char(idx + 2) # NUL
                       THEN Rest(str, idx + 2) ELSE Rest(str, idx + 1))
  /\ Consume(1)
  /\ EndShort
  /\ UNCHANGED status

(* Variant: the argument is not consumed and will be parsed, too. *)
ShortNextArgKept ==
  /\ ShortTakesArg
  /\ Char(idx + 1) = NUL
  /\ cmds_idx < Len(cmds)
  /\ Give(ShortItem, cmds[cmds_idx + 1])
  /\ Consume(1)
  /\ EndShort
  /\ UNCHANGED status

ShortNextArg ==
  /\ ShortTakesArg
  /\ Char(idx + 1) = NUL
  /\ cmds_idx < Len(cmds)
  /\ Give(ShortItem, cmds[cmds_idx + 1])
  /\ Consume(2)
  /\ EndShort
  /\ UNCHANGED status

(* Variant: the last argument is taken for a missing one, too. *)
ShortMissingArgEarly ==
  /\ ShortTakesArg
  /\ Char(idx + 1) = NUL
  /\ cmds_idx + 1 >= Len(cmds)
  /\ SetSeen(ShortItem)
  /\ Consume(1)
  /\ EndShort
  /\ status' = "crashed"

(* str is NULL by now, and the message reads str[idx]. *)
ShortMissingArg ==
  /\ ShortTakesArg
  /\ Char(idx + 1) = NUL
  /\ cmds_idx = Len(cmds)
  /\ SetSeen(ShortItem)
  /\ Consume(1)
  /\ EndShort
  /\ status' = "crashed"

ShortSwitch ==
  /\ ShortIsSwitch
  /\ Char(idx + 1) # NUL
  /\ SetSeen(ShortItem)
  /\ idx' = idx + 1
  /\ UNCHANGED <<str, cmds_idx, status>>

(* Variant: the cursor stays at the argument. *)
ShortLastSwitchKept ==
  /\ ShortIsSwitch
  /\ Char(idx + 1) = NUL
  /\ SetSeen(ShortItem)
  /\ EndShort
  /\ UNCHANGED <<cmds_idx, status>>

ShortLastSwitch ==
  /\ ShortIsSwitch
  /\ Char(idx + 1) = NUL
  /\ SetSeen(ShortItem)
  /\ Consume(1)
  /\ EndShort
  /\ UNCHANGED status

-------------------------------------------------------------------------------
(* Every argument was parsed: are the required options there? *)
CheckRequired ==
  /\ Parsing
  /\ idx = 0
  /\ ~ More
  /\ status' = IF \E o \in DOMAIN args : "REQD" \in args[o].type /\ "SEEN" \notin args[o].type
               THEN "failed" ELSE "parsed"
  /\ UNCHANGED <<args, cmds_idx, str, idx>>

Next ==
  \/ StoreEnvironment
  \/ ListItem \/ ListItemUnknown
  \/ LongUnknown \/ LongCallback \/ LongNextArg \/ LongMissingArg
  \/ LongValue \/ LongEmptyValue \/ LongSwitch
  \/ BeginShort
  \/ ShortUnknown \/ ShortCallback \/ ShortPastEnd \/ ShortValue
  \/ ShortNextArg \/ ShortMissingArg \/ ShortSwitch \/ ShortLastSwitch
  \/ CheckRequired

Spec == Init /\ [][Next]_vars

(* parse_cmdline runs to its end. *)
FairSpec == Spec /\ WF_vars(Next)

(* get_cmd_opt: the string the program gets, NULL when there is no option   *)
(* of that name, and nothing it could read when the option has no strings.  *)
GetCmdOpt(name) ==
  LET o == GetOptByName(name)
  IN  IF o = 0 THEN NULL
      ELSE IF "SWITCH" \in args[o].type
      THEN IF "SEEN" \in args[o].type THEN <<"1">> ELSE <<"0">>
      ELSE IF args[o].value = NULL THEN NULL ELSE args[o].value[1]

-------------------------------------------------------------------------------
TypeOK ==
  /\ options \in Seq(Option) /\ cmds \in Seq(String) /\ env \in Seq(String)
  /\ args \in Seq(Option)
  /\ str \in String
  /\ cmds_idx \in 1 .. Len(cmds) + 1
  /\ idx \in 0 .. Len(str) + 1
  /\ status \in {"defined", "parsing", "parsed", "failed", "exited", "crashed", "undefined"}

(* No argument gives a value to a long option that takes none: of these the *)
(* comments and the code think differently (AcceptedIsCorrect, below).      *)
Plain == \A k \in DOMAIN cmds : ~ GivesSwitchAValue(options, cmds[k])

(* When parse_cmdline comes to one of its ends, the outcome, and the        *)
(* strings and switches of every option, are those the comments of          *)
(* cmdline.c give to the command line, however its arguments are combined   *)
(* (parse_short_option, parse_long_option, parse_list_item,                 *)
(* add_cmdline_arg).                                                        *)
ParsesAsDocumented ==
  Plain /\ status \in {"parsed", "failed", "exited"} =>
    LET settings == Settings(options, cmds)
    IN  /\ Outcome(options, settings) = status
        /\ status = "parsed" =>
             \A o \in DOMAIN options :
               /\ args[o].value = Strings(options, settings, o)
               /\ "SEEN" \in args[o].type <=>
                    \E n \in DOMAIN settings : settings[n].opt = o

(* The reads through NULL (379) and behind the end of a string (parse_short *)
(* _option with a single dash) happen to command lines that are in error,   *)
(* and to no correct one.                                                   *)
OnlyErrorsKill ==
  Plain /\ status \in {"crashed", "undefined"} =>
    Outcome(options, Settings(options, cmds)) = "failed"

(* What the program reads without asking is there when parsing has ended,   *)
(* and it is the option's and not the environment's (get_cmd_opt,           *)
(* parser.y:617, main.c:19).                                                *)
ReadersFindStrings ==
  status = "parsed" =>
    \A name \in ReadNames :
      /\ GetCmdOpt(name) # NULL
      /\ GetOptByName(name) \in DOMAIN options

(* Every command line is parsed to its end: each turn of the loops of       *)
(* parse_cmdline and parse_short_option consumes an argument or a letter.   *)
ParseEnds == <>(status \notin {"defined", "parsing"})

(* cmdline.c:379: an option without its argument is reported, "short        *)
(* command option "-%c" requires argument".                                 *)
MissingArgumentReported == status # "crashed"

(* cmdline.c:407: if "--abc" does not require an arg then "--abc=something  *)
(* is a syntax error", and so is whatever else the comments do not allow:   *)
(* only what they allow is accepted.                                        *)
AcceptedIsCorrect ==
  status = "parsed" => Outcome(options, Settings(options, cmds)) = "parsed"
================================================================================
