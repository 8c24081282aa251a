----------------------------- MODULE MCKconfig -----------------------------
(* Small Kconfig files for model checking KconfigSession.                  *)
EXTENDS KconfigSession

MCNumber ==
  (10 :> ("1" :> 1 @@ "2" :> 2 @@ "4" :> 4 @@ "8" :> 8)) @@
  (16 :> ("1" :> 1 @@ "2" :> 2 @@ "4" :> 4 @@ "8" :> 8 @@ "0x4" :> 4)) @@
  (0 :> ("1" :> 1 @@ "2" :> 2 @@ "4" :> 4 @@ "8" :> 8 @@ "0x4" :> 4))
MCNumeral == ("int" :> (1 :> "1" @@ 2 :> "2" @@ 4 :> "4" @@ 8 :> "8" @@ 0 :> "0"))
MCOrder == <<"", "1", "2", "4", "8", "A", "B", "LEN", "LIMIT", "m", "n", "x", "y">>
MCQuoted == "" :> "\"\"" @@ "x" :> "\"x\""
MCUnquoted == "\"\"" :> "" @@ "\"x\"" :> "x"
MCPrefixed == "4" :> "0x4" @@ "0x4" :> "0x4"
MCInitial == "n" :> "n" @@ "m" :> "m" @@ "y" :> "y" @@ "yes" :> "y" @@ "1" :> "1" @@ "4" :> "4"
MCUserValues ==
  "bool" :> {0, 2} @@ "tristate" :> {0, 1, 2} @@ "int" :> {"1", "4"} @@ "string" :> {"", "x"}
    @@ "unknown" :> {}

Bool == <<"type", "bool", <<<<>>>>>>
Tristate == <<"type", "tristate", <<<<>>>>>>

If(ts) == <<"depends", ts>>

(* A tristate that another one selects, with and without modules.          *)
Selecting ==
  << <<"config", "MODULES">>, Bool,
     <<"config", "T">>, Tristate,
     <<"config", "S">>, Tristate, <<"select", "T", <<>>>> >>

(* A select that overrides a dependency, and an imply that does not.       *)
Implying ==
  << <<"config", "MODULES">>, <<"def", "bool", <<"y">>, <<>>>>,
     <<"config", "A">>, Tristate,
     <<"if", <<"A">>>>,
     <<"config", "I">>, Tristate, <<"default", <<"m">>, <<"!", "A">>>>,
     <<"endif">>,
     <<"config", "B">>, Bool, <<"imply", "I", <<>>>>, <<"select", "I", <<"A", "=", "m">>>> >>

(* The target architecture of src/Kconfig, and options that depend on it.  *)
Architecture ==
  << <<"mainmenu">>,
     <<"choice", "ARCH">>, <<"prompt", <<>>>>, <<"default", <<"X64">>, <<>>>>,
     <<"config", "X64">>, Bool,
     <<"config", "RISCV">>, Bool,
     <<"endchoice">>,
     <<"config", "FP_TRAPS">>, Bool, <<"default", <<"n">>, <<>>>>, If(<<"RISCV">>) >>

(* Numbers with a range, whose bound is another symbol's value.            *)
Ranged ==
  << <<"config", "LIMIT">>, <<"type", "int", <<<<>>>>>>, <<"default", <<"8">>, <<>>>>,
     <<"menu", "Parameters">>,
     <<"config", "LEN">>, <<"type", "int", <<<<"LIMIT", ">", "2">>>>>>,
       <<"range", "2", "LIMIT", <<>>>>, <<"default", <<"1">>, <<>>>>,
     <<"endmenu">>,
     <<"config", "SMALL">>, <<"def", "bool", <<"y">>, <<"LEN", "<", "8">>>> >>

(* A tristate choice one of whose symbols is bool.  It is optional, as     *)
(* MinimalLoads requires.                                                  *)
Modal ==
  << <<"config", "MODULES">>, <<"def", "bool", <<"y">>, <<>>>>,
     <<"choice", "C">>, <<"type", "tristate", <<<<>>>>>>, <<"optional">>,
     <<"config", "P">>, Tristate,
     <<"config", "Q">>, Bool,
     <<"endchoice">> >>

(* Blocks in blocks, sourced files, implicit submenus, nodes without a     *)
(* prompt, a symbol defined twice.                                         *)
Nested ==
  << <<"menu", "Top">>, If(<<"A">>), <<"visible", <<"B">>>>,
     <<"config", "A2">>, <<"type", "bool", <<<<"B", "||", "A", "&&", "!", "B">>>>>>,
     <<"if", <<"A2">>>>,
     <<"if", <<"B", "!=", "n">>>>, <<"config", "H">>, <<"type", "bool", <<>>>>,
     <<"config", "G">>, Bool, If(<<"H">>), <<"endif">>,
     <<"comment", "Note">>, If(<<"!", "(", "A", "||", "B", ")">>),
     <<"endif">>,
     <<"menuconfig", "K">>, <<"type", "string", <<<<>>>>>>, <<"default", <<"x">>, <<"B">>>>,
     <<"endmenu">>,
     <<"source", TRUE, << << <<"config", "A">>, Bool, <<"config", "B">>, Bool >> >> >>,
     <<"config", "G">>, <<"default", <<"y">>, <<"A">>>> >>

(* A condition on a symbol.                                                *)
Conditional(ts) == << <<"config", "E">>, Bool, If(ts) >>
Conditions ==
  UNION {{<<a, "||", b, "&&", c>>, <<a, "&&", b, "||", c>>, <<"(", a, "||", b, ")", "&&", c>>,
          <<"!", a, "&&", b, "||", c>>, <<"!", "(", a, "&&", "!", b, ")", "&&", c>>,
          <<a, "=", b, "||", c, "&&", "m">>} : a \in {"n", "y"}, b \in {"n", "y"}, c \in {"n", "y"}}
    \cup {<<"y", "&&">>, <<"y", "n">>, <<"(", "y", "||", "n">>, <<"!">>}

(* Files with errors and with dependency loops.                            *)
Faulty ==
  {<< <<"if", <<"A">>>>, <<"config", "A">>, Bool >>,
   << <<"menu", "M">>, <<"if", <<"A">>>>, <<"endmenu">>, <<"endif">> >>,
   << <<"config", "A">>, Bool, <<"endchoice">> >>,
   << <<"config", "A">>, <<"type", "int", <<<<>>>>>>, <<"default", <<"!", "B">>, <<>>>> >>,
   << <<"config", "A">>, Bool, If(<<"B">>), <<"config", "B">>, Bool, If(<<"!", "A">>) >>,
   << <<"config", "A">>, Bool, <<"select", "B", <<>>>>, <<"config", "B">>, Bool,
      <<"config", "D">>, Bool, If(<<"B">>), <<"select", "A", <<>>>> >>,
   << <<"choice", "C">>, <<"prompt", <<"X">>>>, <<"config", "P">>, Bool, <<"config", "Q">>, Bool,
      <<"endchoice">>, <<"config", "X">>, <<"def", "bool", <<"Q">>, <<>>>> >>,
   << <<"choice", "C">>, <<"prompt", <<>>>>, <<"config", "P">>, <<"type", "bool", <<<<"X">>>>>>,
      <<"config", "Q">>, Bool, <<"endchoice">>, <<"config", "X">>, <<"def", "bool", <<"Q">>, <<>>>> >>}

MCSources == {Selecting, Implying, Architecture, Ranged, Modal}
MCLayouts == {Nested} \cup {Conditional(ts) : ts \in Conditions} \cup Faulty

(* Files by hand, some of whose lines are odd.                             *)
MCFiles ==
  [s \in MCSources \cup MCLayouts |->
     CASE s = Selecting -> {<< <<"unset", "T">>, <<"set", "S", "m">>, <<"set", "MODULES", "1">> >>}
       [] s = Implying -> {<< <<"unset", "MODULES">>, <<"set", "I", "m">> >>}
       [] s = Architecture -> {<< <<"set", "GONE", "1">>, <<"set", "RISCV", "yes">> >>,
                               << <<"set", "FP_TRAPS", "y">>, <<"unset", "RISCV">> >>}
       [] s = Ranged -> {<< <<"set", "LEN", "4">>, <<"unset", "LIMIT">> >>}
       [] s = Modal -> {<< <<"set", "P", "m">>, <<"set", "Q", "m">> >>, << <<"set", "Q", "y">> >>}
       [] s = Nested -> {<< <<"set", "K", "\"x\"">>, <<"set", "K", "x">>, <<"set", "A", "y">> >>}
       [] OTHER -> {}]
=============================================================================
