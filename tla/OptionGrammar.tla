----------------------------- MODULE OptionGrammar -----------------------------
(***************************************************************************)
(* What a command line means, after the comments of src/src/common/        *)
(* cmdline.c (308-340, 400-418, 481-490): a sequence of settings, each for *)
(* an option of the program.                                               *)
(*                                                                         *)
(* An argument is a sequence of symbols; a symbol is a character, or a run *)
(* of characters that stays together, such as the name of a long option.   *)
(* An option is a record of                                                *)
(*   short  its letter, or NUL         value  its strings, or NULL         *)
(*   long   its long name, or NULL     cb     whether it has a callback    *)
(*   name   what the program calls it  type   a set of flags               *)
(***************************************************************************)
EXTENDS StringList, FiniteSetsExt

CONSTANTS
  Symbol,   \* the symbols of which strings are made
  NULL,     \* no string
  NUL       \* the character 0, which ends a string

(* cmdline_type_t *)
Flag == {"ARGS", "STR", "NUM", "BOOL", "LIST", "ANON", "SWITCH", "REQD", "DIV", "SEEN"}

String == Seq(Symbol)

Option ==
  [short : {NUL} \union Symbol,
   long : {NULL} \union String,
   name : {NULL} \union String,
   value : {NULL} \union (Seq(String) \ {<< >>}),
   cb : BOOLEAN,
   type : SUBSET Flag]

(* Everywhere below, opts are the options of the program, in the order it   *)
(* defined them.                                                           *)
TakesArgument(opts, o) == opts[o].type \intersect {"ARGS", "LIST"} # {}
Rest(s, from) == SubSeq(s, from, Len(s))
WithLetter(opts, c) == {o \in DOMAIN opts : opts[o].short = c}
WithName(opts, t) == {o \in DOMAIN opts : opts[o].long = t}
Lettered(opts, c) == Min(WithLetter(opts, c))

Set(o, text) == [kind |-> "set", opt |-> o, text |-> text]
Switch(o) == [kind |-> "switch", opt |-> o, text |-> << >>]
Fail == [kind |-> "failed", opt |-> 0, text |-> << >>]
Exit == [kind |-> "exited", opt |-> 0, text |-> << >>]

(* The option o takes its argument from the following one. *)
Following(line, k, o) ==
  IF k < Len(line) THEN Set(o, line[k + 1]) ELSE Fail

(* A letter that may stand in front of others. *)
IsPlain(opts, c) ==
  /\ WithLetter(opts, c) # {}
  /\ ~ TakesArgument(opts, Lettered(opts, c))
  /\ ~ opts[Lettered(opts, c)].cb

(* What follows an option that takes an argument is the argument, with or   *)
(* without "=".                                                             *)
LastLetter(opts, line, k, j) ==
  LET o == Lettered(opts, line[k][j])
      text == Rest(line[k], j + 1)
  IN  IF WithLetter(opts, line[k][j]) = {} THEN Fail
      ELSE IF opts[o].cb THEN Exit
      ELSE IF text = << >> THEN Following(line, k, o)
      ELSE Set(o, IF Len(text) > 1 /\ text[1] = "=" THEN Tail(text) ELSE text)

(* "-abc": letters up to the first that is not a plain switch. *)
Letters(opts, line, k, from) ==
  LET a == line[k]
      stop == Min({j \in from .. Len(a) : ~ IsPlain(opts, a[j])} \union {Len(a) + 1})
  IN  [n \in 1 .. stop - from |-> Switch(Lettered(opts, a[from + n - 1]))]
        \o IF stop > Len(a) THEN << >> ELSE <<LastLetter(opts, line, k, stop)>>

(* A dash alone names no option. *)
ShortSettings(opts, line, k) ==
  IF Len(line[k]) = 1 THEN <<Fail>> ELSE Letters(opts, line, k, 2)

(* "--abc something" and "--abc=something"; the latter is a syntax error    *)
(* for an option that takes no argument.                                    *)
LongSetting(opts, line, k) ==
  LET a == Rest(line[k], 3)
      cut == SelectInSeq(a, LAMBDA c : c = "=")
      found == WithName(opts, IF cut = 0 THEN a ELSE SubSeq(a, 1, cut - 1))
  IN  IF found = {} THEN Fail
      ELSE LET o == Min(found)
           IN  IF cut # 0 /\ ~ TakesArgument(opts, o) THEN Fail
               ELSE IF opts[o].cb THEN Exit
               ELSE IF ~ TakesArgument(opts, o) THEN Switch(o)
               ELSE IF cut = 0 THEN Following(line, k, o)
               ELSE IF cut = Len(a) THEN Fail
               ELSE Set(o, Rest(a, cut + 1))

IsOption(a) == a # << >> /\ a[1] = "-"
IsLong(a) == Len(a) > 1 /\ a[1] = "-" /\ a[2] = "-"

(* The argument is the last of these: a value for a long option that takes  *)
(* no argument.                                                             *)
GivesSwitchAValue(opts, a) ==
  LET text == Rest(a, 3)
      cut == SelectInSeq(text, LAMBDA c : c = "=")
      found == WithName(opts, SubSeq(text, 1, cut - 1))
  IN  /\ IsLong(a)
      /\ cut # 0
      /\ found # {}
      /\ ~ TakesArgument(opts, Min(found))

(* What is no option belongs to the first option without a name of its own. *)
ItemSetting(opts, a) ==
  LET anon == {o \in DOMAIN opts : "ANON" \in opts[o].type}
  IN  IF anon = {} THEN Fail ELSE Set(Min(anon), a)

SettingsAt(opts, line, k) ==
  IF IsLong(line[k]) THEN <<LongSetting(opts, line, k)>>
  ELSE IF IsOption(line[k]) THEN ShortSettings(opts, line, k)
  ELSE <<ItemSetting(opts, line[k])>>

(* The argument of a setting is the whole of the next argument. *)
TakesFollowing(opts, line, k) ==
  /\ IsOption(line[k])
  /\ k < Len(line)
  /\ SettingsAt(opts, line, k) # SettingsAt(opts, SubSeq(line, 1, k), k)

Settings(opts, line) ==
  LET from[k \in Nat] ==
        IF k > Len(line) THEN << >>
        ELSE SettingsAt(opts, line, k)
               \o from[IF TakesFollowing(opts, line, k) THEN k + 2 ELSE k + 1]
  IN  from[1]

(* How the program comes out of it: the first setting that stops it does.   *)
Outcome(opts, settings) ==
  LET stops == {n \in DOMAIN settings : settings[n].kind \in {"failed", "exited"}}
      given == {settings[n].opt : n \in DOMAIN settings}
  IN  IF stops # {} THEN settings[Min(stops)].kind
      ELSE IF \E o \in DOMAIN opts : "REQD" \in opts[o].type /\ o \notin given
      THEN "failed" ELSE "parsed"

(* The strings of an option: a list is added to its default, field by       *)
(* field; anything else has the last value it was given.                    *)
Strings(opts, settings, o) ==
  LET texts == [n \in DOMAIN settings |->
                  IF settings[n].kind = "set" /\ settings[n].opt = o
                  THEN <<settings[n].text>> ELSE << >>]
      mine == FlattenSeq(texts)
      default == opts[o].value
  IN  IF mine = << >> THEN default
      ELSE IF "LIST" \in opts[o].type
      THEN (IF default = NULL THEN << >> ELSE default)
             \o FlattenSeq([n \in DOMAIN mine |-> Split(mine[n], ":")])
      ELSE <<Last(mine)>>
================================================================================
