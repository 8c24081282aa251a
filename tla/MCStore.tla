------------------------------ MODULE MCStore ------------------------------
(* ConfigStore with the configuration tool of KconfigFile, for small       *)
(* Kconfig and .config files.  Values are computed anew each time:         *)
(* KconfigSession is about their caching.                                  *)
EXTENDS ConfigStore, KconfigFile

CONSTANTS
  UserValues,  \* type -> the values a user gives to symbols of the type
  MaxUser      \* bound: how many items a user gives a value in a process

MCNumber ==
  (10 :> ("1" :> 1 @@ "4" :> 4)) @@ (16 :> ("1" :> 1 @@ "4" :> 4)) @@ (0 :> ("1" :> 1 @@ "4" :> 4))
MCNumeral == "int" :> (1 :> "1" @@ 4 :> "4")
MCOrder == <<"", "1", "4", "m", "n", "x", "y">>
MCQuoted == "" :> "\"\"" @@ "x" :> "\"x\""
MCUnquoted == "\"\"" :> "" @@ "\"x\"" :> "x"
MCInitial == "n" :> "n" @@ "m" :> "m" @@ "y" :> "y" @@ "yes" :> "y" @@ "1" :> "1" @@ "4" :> "4"
MCUserValues ==
  "bool" :> {0, 2} @@ "tristate" :> {0, 1, 2} @@ "int" :> {"4"} @@ "string" :> {"x"}

Bool == <<"type", "bool", <<<<>>>>>>
Tristate == <<"type", "tristate", <<<<>>>>>>

(* The architecture of src/Kconfig and an option of one of them; and a     *)
(* version of the file without the option.                                 *)
Architecture ==
  << <<"choice", "ARCH">>, <<"prompt", <<>>>>, <<"default", <<"X64">>, <<>>>>,
     <<"config", "X64">>, Bool,
     <<"config", "RISCV">>, Bool,
     <<"endchoice">>,
     <<"config", "FP_TRAPS">>, Bool, <<"default", <<"n">>, <<>>>>, <<"depends", <<"RISCV">>>> >>
Smaller == SubSeq(Architecture, 1, 8)

(* A string and a number; and a version without the string.                *)
Named ==
  << <<"config", "NAME">>, <<"type", "string", <<<<>>>>>>,
     <<"config", "LEN">>, <<"type", "int", <<>>>>, <<"default", <<"1">>, <<>>>> >>
Unnamed == SubSeq(Named, 3, 5)

(* A symbol that a later version refers to and does not define.            *)
Outdated == << <<"config", "OLD">>, Bool >>
Referring == << <<"config", "NEW">>, <<"def", "bool", <<"y">>, <<"OLD">>>> >>

MCHandwritten == { << <<"set", "RISCV", "yes">>, <<"set", "GONE", "1">>, <<"set", "FP_TRAPS", "y">> >> }
MCUpgrades ==
  Architecture :> {Smaller} @@ Smaller :> {Architecture} @@ Named :> {Unnamed} @@ Unnamed :> {Named}
    @@ Outdated :> {Referring} @@ Referring :> {}
MCSources == DOMAIN MCUpgrades
MCFilenames == [s \in MCSources |-> IF s \in {Named, Unnamed} THEN ConfigNames ELSE {"config"}]

-----------------------------------------------------------------------------
Programs == [s \in Sources |-> ParseKconfig(s).p]
MCSymbolsOf(s) == Programs[s].syms
MCNamesOf(s) ==
  ToSet(Programs[s].syms) \cup UNION {DependsOn(Programs[s], i) : i \in DOMAIN Programs[s].def}
MCTypeOf(s, x) == Programs[s].def[x].type
MCFresh(s) == New(Programs[s])
MCLoaded(k, file) == load_config(k, file, TRUE)
MCSavedAs(k) == config_contents(k).v

(* set_value(), of what the menu offers.                                   *)
MCEdited(k) ==
  UNION {{set_value(k, i, v) : v \in
            {u \in UserValues[OrigType(k, i)] :
               OrigType(k, i) \in BoolTristate => u \in Value(k, i, "assign").v}} :
         i \in {j \in AllSymbols(k) \cup AllChoices(k) :
                 Cardinality(DOMAIN k.user \cup {j}) <= MaxUser}}

(* What processes get to, with the Kconfig file they have.                 *)
RECURSIVE Reached(_)
Reached(pairs) ==
  LET more == pairs
        \cup UNION {{<<q[1], k>> : k \in MCEdited(q[2])} : q \in pairs}
        \cup {<<s, MCLoaded(MCFresh(s), f)>> :
               s \in Sources, f \in {<<>>} \cup Handwritten \cup {MCSavedAs(q[2]) : q \in pairs}}
  IN IF more = pairs THEN pairs ELSE Reached(more)
ReachedConfigs ==  \* TLC evaluates it once
  LET all == Reached({<<s, MCFresh(s)>> : s \in Sources}) IN
  [s \in Sources |-> {q[2] : q \in {r \in all : r[1] = s}}]
MCConfigs == ReachedConfigs

=============================================================================
