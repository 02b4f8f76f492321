------------------------------- MODULE MCCmdline -------------------------------
(* Command lines of up to three arguments for a table like that of the test *)
(* program at the end of cmdline.c, and of up to two for a program that     *)
(* has no anonymous option.                                                 *)
EXTENDS Cmdline

MCSymbol ==
  {"v", "x", "L", "h", "q", "a", "b", "-", "=", ":", "0", "1",
   "verbosity", "exx", "lst", "help", "files", "PATH", "DBUS", "LONG"}

Entry(short, long, name, value, cb, type) ==
  [short |-> short, long |-> long, name |-> name, value |-> value, cb |-> cb, type |-> type]

TestOptions == <<
  Entry("v", <<"verbosity">>, <<"verbosity">>, << <<"0">> >>, FALSE, {"NUM", "ARGS"}),
  Entry("x", <<"exx">>, <<"exx">>, << <<"0">> >>, FALSE, {"SWITCH"}),
  Entry("L", NULL, <<"lst">>, NULL, FALSE, {"LIST"}),
  Entry("h", <<"help">>, NULL, NULL, TRUE, {}),
  Entry(NUL, NULL, NULL, NULL, FALSE, {"DIV"}),
  Entry(NUL, NULL, <<"files">>, NULL, FALSE, {"REQD", "ANON"}) >>

NamedOptions == <<
  Entry("v", <<"verbosity">>, <<"verbosity">>, << <<"0">> >>, FALSE, {"NUM", "ARGS"}),
  Entry("x", <<"files">>, <<"files">>, NULL, FALSE, {"STR", "ARGS", "REQD"}) >>

Arguments == {
  << >>, <<"a">>, <<"a", ":", "b">>,
  <<"-">>, <<"-", "q">>, <<"-", "h">>,
  <<"-", "x">>, <<"-", "x", "=", "a">>,
  <<"-", "v">>, <<"-", "v", "1">>, <<"-", "v", "=", "1">>, <<"-", "v", "=">>,
  <<"-", "x", "v">>, <<"-", "x", "x", "v", "x">>,
  <<"-", "L">>, <<"-", "L", "a", ":">>, <<"-", "L", "=", ":", "b">>,
  <<"-", "-">>, <<"-", "-", "help">>, <<"-", "-", "exx">>, <<"-", "-", "exx", "=", "1">>,
  <<"-", "-", "verbosity">>, <<"-", "-", "verbosity", "=">>,
  <<"-", "-", "verbosity", "=", "-", "=">> }

Environments == {
  << >>,
  << <<"files", "=", "a">>, <<"verbosity">> >> }

(* Lists, and variables without text. *)
ListEnvironments == {
  << <<"PATH", "=", "a", ":", "b">>, <<"DBUS", "=", ":", "1">>, <<"verbosity", "=">> >> }

(* Variables that do not fit into the buffer of MCEnvMax symbols: one is    *)
(* cut off, the other gets its "=" from behind the buffer.                  *)
LongEnvironments == {
  << <<"LONG", "=", "a", "b", ":", "0">>, <<"LONG", "LONG", "LONG", "LONG", "LONG", "LONG">> >> }

MCEnvMax == 6
MCBehind == {<< >>, <<"0", "=", "1">>}

Called(table, n, envs) ==
  [options : {table}, cmds : BoundedSeq(Arguments, n), env : envs]

MCCalls ==
  Called(TestOptions, 3, Environments)
    \union Called(NamedOptions, 2, Environments \union ListEnvironments \union LongEnvironments)

MCReadNames == {<<"files">>, <<"verbosity">>}
================================================================================
