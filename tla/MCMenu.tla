------------------------------- MODULE MCMenu -------------------------------
(* Menuconfig with the configuration tool of MenuTree, for small Kconfig   *)
(* and .config files.                                                      *)
EXTENDS Menuconfig, MenuTree

CONSTANTS
  UserValues,  \* type -> what users type for symbols of the type
  MaxUser      \* bound: how many items have a user value at once

MCNumber ==
  LET digits == "1" :> 1 @@ "4" :> 4 @@ "9" :> 9 IN (10 :> digits) @@ (16 :> digits) @@ (0 :> digits)
MCNumeral == "int" :> (1 :> "1" @@ 4 :> "4")
MCOrder == <<"", "1", "4", "9", "m", "n", "y">>
MCQuoted == "" :> "\"\""
MCUnquoted == "\"\"" :> ""
MCInitial == "n" :> "n" @@ "m" :> "m" @@ "y" :> "y"
MCUserValues == "int" :> {"4", "9", ""}

Bool == <<"type", "bool", <<<<>>>>>>
Tristate == <<"type", "tristate", <<<<>>>>>>
If(ts) == <<"depends", ts>>

(* The architecture of src/Kconfig, an option of one of them, and a menu   *)
(* that is there with the option.                                          *)
Architecture ==
  << <<"choice", "ARCH">>, <<"prompt", <<>>>>, <<"default", <<"X64">>, <<>>>>,
     <<"config", "X64">>, Bool,
     <<"config", "RISCV">>, Bool,
     <<"endchoice">>,
     <<"config", "FP_TRAPS">>, Bool, If(<<"RISCV">>),
     <<"menu", "Parameters">>, If(<<"FP_TRAPS">>),
     <<"config", "LEN">>, <<"type", "int", <<<<>>>>>>, <<"default", <<"1">>, <<>>>>,
       <<"range", "1", "4", <<>>>>,
     <<"endmenu">> >>

(* Symbols in implicit submenus, one of which loses its prompt and keeps   *)
(* what is below it; a menu that is empty at times.                        *)
Submenus ==
  << <<"config", "H">>, <<"type", "bool", <<<<"K">>>>>>, <<"default", <<"y">>, <<>>>>,
     <<"config", "C">>, Bool, If(<<"H">>),
     <<"menuconfig", "K">>, Bool,
     <<"config", "G">>, Bool, If(<<"K">>), If(<<"C">>),
     <<"comment", "Note">>, If(<<"C">>),
     <<"menu", "Hidden">>, <<"visible", <<"C">>>>,
     <<"config", "E">>, Bool,
     <<"endmenu">> >>

(* A choice with two definitions, tristate, and an option that brings a    *)
(* line in above it.                                                       *)
Twice ==
  << <<"config", "MODULES">>, Bool,
     <<"choice", "DRIVER">>, <<"type", "tristate", <<<<>>>>>>,
     <<"config", "X">>, Tristate,
     <<"endchoice">>,
     <<"comment", "Modules">>, If(<<"MODULES">>),
     <<"choice", "DRIVER">>, <<"prompt", <<>>>>,
     <<"config", "Y">>, Tristate,
     <<"endchoice">> >>

(* A Kconfig file is what parsing makes of it: its tree and its program p. *)
MCHandwritten ==
  ParseKconfig(Architecture) :>
      ("f1" :> <<>> @@ "f2" :> << <<"set", "RISCV", "y">>, <<"set", "FP_TRAPS", "y">> >>)
    @@ ParseKconfig(Submenus) :>
      ("f1" :> << <<"unset", "H">> >> @@ "f2" :> << <<"set", "K", "y">>, <<"set", "C", "y">> >>)
    @@ ParseKconfig(Twice) :>
      ("f1" :> << <<"set", "MODULES", "y">>, <<"set", "Y", "m">> >> @@ "f2" :> << <<"set", "X", "y">> >>)
MCSources == DOMAIN MCHandwritten
MCFaulty == [s \in MCSources |-> IF s = ParseKconfig(Architecture) THEN {"f1"} ELSE {}]

-----------------------------------------------------------------------------
(* The configuration tool.  Values are computed anew each time, so that    *)
(* all of the state of a Kconfig object k is in what users have set.       *)
MCNodesOf(s) == ToSet(Paths(s.tree, <<>>)) \ {<<>>}
MCNodeOf(s, p) ==
  [NodeAt(s.tree, p) EXCEPT !.list = [j \in DOMAIN @ |-> Append(p, j)]]
MCShownNodes(s, k, all, menu) == shown_nodes(s.tree, k, all, menu)
MCParentMenu(s, p) == parent_menu(s.tree, p)
MCSelectionNodes(s, k, p) == selection_nodes(s.tree, k, p)
MCChangeable(s, k, p) == changeable(k, NodeAt(s.tree, p))
MCInYMode(k, i) == is_y_mode_choice_sym(k, i)
MCTakesText(k, i) == IsText(k, i)
MCValidTexts(k, i) == {v \in UserValues[OrigType(k, i)] : check_valid(k, i, v)}
MCAssignable(k, i) == assignable(k, i)
MCValueNow(k, i) == Current(k, i)
MCWithValue(k, i, v) == set_value(k, i, v)
MCFresh(s) == New(s.p)
MCLoaded(k, file) == load_config(k, file, TRUE)
MCSavedAs(k) == config_contents(k).v
MCMinimalAs(k) == min_config_contents(k).v
MCValuesOf(k) == [s \in AllSymbols(k) |-> str_value(k, s).v]

(* What processes get to: values set by users, up to MaxUser of them, and  *)
(* files that are loaded.                                                  *)
MCInBounds(k) == Cardinality(DOMAIN k.user) <= MaxUser
Choosable(k, i) == IF IsText(k, i) THEN MCValidTexts(k, i) ELSE assignable(k, i)
EditsOf(k) == UNION {{set_value(k, i, v) : v \in Choosable(k, i)} : i \in AllSymbols(k) \cup AllChoices(k)}
MCEdited(k) == {e \in EditsOf(k) : MCInBounds(e)}
RECURSIVE Reached(_, _)
Reached(s, ks) ==
  LET lines == {Handwritten[s][f] : f \in Filenames} \cup {<<>> : f \in Faulty[s]}
                 \cup {MCSavedAs(k) : k \in ks}
                 \cup {MCMinimalAs(k) : k \in ks}
      more == ks \cup UNION {MCEdited(k) : k \in ks}
                 \cup {MCLoaded(k, f) : k \in ks \cup {MCFresh(s)}, f \in lines}
  IN IF more = ks THEN ks ELSE Reached(s, more)
ReachedConfigs == [s \in Sources |-> Reached(s, {})]  \* TLC evaluates it once
MCConfigs == ReachedConfigs

(* The Kconfig files above are ones that CursorKept holds for.             *)
ASSUME NodesStayAssumption == \A s \in Sources : NodesStay(s)

(* The bounds of their ranges are numbers (MenuTree, check_valid).         *)
ASSUME BoundsAssumption ==
  \A s \in Sources : \A i \in DOMAIN s.p.def : \A j \in DOMAIN s.p.def[i].ranges :
    \A bound \in {s.p.def[i].ranges[j][1], s.p.def[i].ranges[j][2]} :
      IsBaseN(bound, Base(s.p.def[i].type))

=============================================================================
