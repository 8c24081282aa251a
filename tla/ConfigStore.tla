---------------------------- MODULE ConfigStore ----------------------------
(***************************************************************************)
(* The files of a configuration (src/scripts/menuconfig.py: load_config,   *)
(* write_config, write_autoconf, write_min_config, sync_deps), written by  *)
(* processes that may be killed at any point:                              *)
(*   .config            what the user has chosen ("config"), and another   *)
(*                      file that configurations are saved to ("other")    *)
(*   include/config.h   what the C code is compiled with ("header")        *)
(*   config.mk          what the Makefile includes ("mk")                  *)
(*   auto.conf          what sync_deps() compares with ("auto")            *)
(* A process loads .config; the menu changes values and saves, under       *)
(* either name, a build runs sync_deps() and compiles what depends on a    *)
(* touched symbol file.  A missing file and an empty one are the same to   *)
(* all of them.  Loading another file in the menu is left to Menuconfig:   *)
(* here it would be one more way to edit.                                  *)
(*                                                                         *)
(* .config is a sequence of lines; of config.h, config.mk and auto.conf,   *)
(* which have each symbol once, what they say of each symbol.              *)
(* What values are, and how they follow from what is loaded and chosen, is *)
(* a parameter here: KconfigFile says what it is.                          *)
(* A definition with an underscored suffix is a mutant of the one after    *)
(* it: a bug the properties must tell from the code.                       *)
(***************************************************************************)
EXTENDS Integers, Sequences, KconfigLiterals

CONSTANTS
  Sources,     \* Kconfig files
  Upgrades,    \* Kconfig file -> what a later version of it may be
  Handwritten, \* .config files users write or bring along
  Filenames,   \* Kconfig file -> the configuration files that are saved to
  MaxFaults,   \* bound: how often a process is killed writing, or cannot write
  Configs,     \* Kconfig file -> the values its symbols may have in a process
  SymbolsOf(_),  \* Kconfig file -> Kconfig.unique_defined_syms
  NamesOf(_),    \* Kconfig file -> Kconfig.syms, the names defined or referred to
  TypeOf(_, _),  \* Kconfig file, symbol -> Symbol.orig_type
  Fresh(_),      \* Kconfig file -> the values of a process that has loaded nothing
  Loaded(_, _),  \* values, .config -> the values after load_config()
  Edited(_),     \* values -> what they may be after the user has changed one
  SavedAs(_),    \* values -> the .config that _config_contents() makes of them
  ValuesOf(_)    \* values -> the symbols that are written, with their str_value

ConfigNames == {"config", "other"}
Symbols(s) == {SymbolsOf(s)[j] : j \in DOMAIN SymbolsOf(s)}
ConfigFiles == {<<>>} \cup Handwritten \cup UNION {{SavedAs(k) : k \in Configs[s]} : s \in Sources}

(* What is relied on of the configuration tool.  Configs holds what a      *)
(* process can get to by loading a file and editing, and only symbols are  *)
(* written, strings among them as literals that are read back.             *)
ASSUME ConfigsAssumption ==
  \A s \in Sources :
    /\ Upgrades[s] \subseteq Sources /\ Filenames[s] \subseteq ConfigNames
    /\ SymbolsOf(s) \in Seq(Symbols(s))
    /\ Fresh(s) \in Configs[s]
    /\ \A f \in ConfigFiles : Loaded(Fresh(s), f) \in Configs[s]
    /\ \A k \in Configs[s] : Edited(k) \subseteq Configs[s]
ASSUME ValuesAssumption ==
  \A s \in Sources : \A k \in Configs[s] : \A x \in DOMAIN ValuesOf(k) :
    /\ x \in Symbols(s)
    /\ TypeOf(s, x) = "string" =>
         \A v \in {ValuesOf(k)[x]} : Quoted[v] \in DOMAIN Unquoted /\ Unquoted[Quoted[v]] = v

(* What is saved loads as what it was (WrittenLoads of KconfigSession).    *)
ASSUME SavedLoads ==
  \A s \in Sources : \A k \in Configs[s] : ValuesOf(Loaded(Fresh(s), SavedAs(k))) = ValuesOf(k)

(* The symbols that every version of the Kconfig files which refers to     *)
(* them defines, with the same type.  Of the others sync_deps() misses     *)
(* changes: when the literal stays the same (10 as an int and as a hex     *)
(* symbol), and when a symbol is no longer defined but still referred to.  *)
Steady(x) ==
  \A s, t \in Sources :
    x \in Symbols(t) \cap NamesOf(s) => x \in Symbols(s) /\ TypeOf(s, x) = TypeOf(t, x)

VARIABLES
  src,      \* the Kconfig file
  kconf,    \* the values of the process
  old,      \* symbol -> its _old_val, for the symbols that have one
  at,       \* what the process is doing: <<task, how far>>
  disk,     \* file -> its contents
  touched,  \* the symbol files touched since the last compilation
  built,    \* <<>>, or <<defs>>: what the objects were compiled with, by name
  saved,    \* the configuration file of the last save
  whole,    \* whether that save completed, and it and the Kconfig files are as then (history)
  faults,   \* how often a process was killed or failed (bounded by MaxFaults)
  astray    \* whether the objects are not what auto.conf says (history): sync_deps() was
            \* killed writing it, or a build used a config.h that is not of .config

vars == <<src, kconf, old, at, disk, touched, built, saved, whole, faults, astray>>

Off == <<"off", 0>>

Init ==
  /\ src \in Sources
  /\ kconf = Fresh(src)
  /\ old = <<>>
  /\ at = Off
  /\ disk = [f \in {"config", "other", "header", "mk", "auto"} |-> <<>>]
  /\ touched = {} /\ built = <<>>
  /\ saved = "config" /\ whole = FALSE
  /\ faults = 0 /\ astray = FALSE

(* The Kconfig files change, and .config is edited or replaced by hand.    *)
Upgrade ==
  /\ at = Off
  /\ src' \in Upgrades[src]
  /\ kconf' = Fresh(src')
  /\ whole' = FALSE
  /\ UNCHANGED <<old, at, disk, touched, built, saved, faults, astray>>
WriteByHand ==
  /\ at = Off
  /\ \E f \in Handwritten : disk' = [disk EXCEPT !.config = f]
  /\ whole' = (whole /\ saved # "config")
  /\ UNCHANGED <<src, kconf, old, at, touched, built, saved, faults, astray>>

-----------------------------------------------------------------------------
(* The menu: _load_config(), set_value() and the save dialog.              *)
OpenMenu ==
  /\ at = Off
  /\ kconf' = Loaded(kconf, disk.config)
  /\ at' = <<"menu", 0>>
  /\ UNCHANGED <<src, old, disk, touched, built, saved, whole, faults, astray>>

Edit ==
  /\ at = <<"menu", 0>>
  /\ kconf' \in Edited(kconf)
  /\ UNCHANGED <<src, old, at, disk, touched, built, saved, whole, faults, astray>>

(* Symbol.config_string, as far as the value goes, and a #define; a        *)
(* tristate that is m defines name_MODULE.                                 *)
Literal(type, v) == IF type = "string" THEN Quoted[v] ELSE v
Define(type, v) ==
  CASE type \in BoolTristate ->
         <<IF v = "m" THEN "module" ELSE "define", IF v = "n" THEN "0" ELSE "1">>
    [] type = "string" -> <<"define", Quoted[v]>>
    [] type = "hex" -> <<"define", Prefixed[v]>>
    [] OTHER -> <<"define", v>>

(* _autoconf_contents(): the #defines.  The table of enabled               *)
(* configurations repeats them.                                            *)
autoconf_contents(s, vals) == [x \in DOMAIN vals |-> Define(TypeOf(s, x), vals[x])]

(* _config_mk_write(): the make variables; of numbers and of m there are   *)
(* none.                                                                   *)
config_mk_contents(s, vals) ==
  [x \in {y \in DOMAIN vals : \/ TypeOf(s, y) = "string"
                              \/ TypeOf(s, y) \in BoolTristate /\ vals[y] # "m"} |->
     Define(TypeOf(s, x), vals[x])[2]]

(* _old_vals_contents(): auto.conf, .config without what is n.             *)
old_vals_contents(s, vals) ==
  [x \in {y \in DOMAIN vals : ~(TypeOf(s, y) \in BoolTristate /\ vals[y] = "n")} |->
     Literal(TypeOf(s, x), vals[x])]

(* write_config(): the configuration file, config.h and config.mk, each    *)
(* opened, which empties it, and then written, whatever the name of the    *)
(* first.  _save_old() does not copy the old one.                          *)
WriteOrder(f) == <<f, "header", "mk">>
Contents(s, k, f) ==
  CASE f \in ConfigNames -> SavedAs(k)
    [] f = "header" -> autoconf_contents(s, ValuesOf(k))
    [] f = "mk"     -> config_mk_contents(s, ValuesOf(k))
    [] f = "auto"   -> old_vals_contents(s, ValuesOf(k))
BeginSave_ifChanged ==
  /\ at = <<"menu", 0>>
  /\ saved' \in Filenames[src]
  /\ IF disk[saved'] = SavedAs(kconf)
     THEN at' = at /\ whole' = TRUE ELSE at' = <<"save", 1>> /\ whole' = FALSE
  /\ UNCHANGED <<src, kconf, old, disk, touched, built, faults, astray>>
BeginSave ==
  /\ at = <<"menu", 0>>
  /\ at' = <<"save", 1>>
  /\ saved' \in Filenames[src]
  /\ whole' = FALSE
  /\ UNCHANGED <<src, kconf, old, disk, touched, built, faults, astray>>
SaveOpen ==
  /\ at[1] = "save" /\ at[2] \in {1, 3, 5}
  /\ disk' = [disk EXCEPT ![WriteOrder(saved)[(at[2] + 1) \div 2]] = <<>>]
  /\ at' = <<"save", at[2] + 1>>
  /\ UNCHANGED <<src, kconf, old, touched, built, saved, whole, faults, astray>>
SaveWrite ==
  /\ at[1] = "save" /\ at[2] \in {2, 4, 6}
  /\ LET f == WriteOrder(saved)[at[2] \div 2] IN
     disk' = [disk EXCEPT ![f] = Contents(src, kconf, f)]
  /\ at' = IF at[2] = 6 THEN <<"menu", 0>> ELSE <<"save", at[2] + 1>>
  /\ whole' = (at[2] = 6)
  /\ UNCHANGED <<src, kconf, old, touched, built, saved, faults, astray>>

(* A file cannot be opened, or it is and cannot be written: _try_save()    *)
(* reports it, the menu goes on, and the files that would have followed    *)
(* are not written.                                                        *)
SaveFails ==
  /\ at[1] = "save"
  /\ faults < MaxFaults /\ faults' = faults + 1
  /\ at' = <<"menu", 0>>
  /\ UNCHANGED <<src, kconf, old, disk, touched, built, saved, whole, astray>>

-----------------------------------------------------------------------------
(* A build: sync_deps(), then compilation.                                 *)

(* _load_old_vals() reads auto.conf, a string being unquoted if it is one, *)
(* and touches the files of symbols that are gone.                         *)
old_vals(s, file) ==
  [x \in {y \in DOMAIN file \cap Symbols(s) :
            TypeOf(s, y) = "string" => file[y] \in DOMAIN Unquoted} |->
     IF TypeOf(s, x) = "string" THEN Unquoted[file[x]] ELSE file[x]]
Removed(s, file) == DOMAIN file \ NamesOf(s)
BeginBuild_remembersFirst ==
  /\ at = Off
  /\ kconf' = Loaded(kconf, disk.config)
  /\ old' = old_vals(src, disk.auto)
  /\ touched' = touched \cup Removed(src, disk.auto)
  /\ disk' = [disk EXCEPT !.auto = Contents(src, kconf', "auto")]
  /\ at' = <<"sync", 1>>
  /\ UNCHANGED <<src, built, saved, whole, faults, astray>>
BeginBuild ==
  /\ at = Off
  /\ kconf' = Loaded(kconf, disk.config)
  /\ old' = old_vals(src, disk.auto)
  /\ touched' = touched \cup Removed(src, disk.auto)
  /\ at' = <<"sync", 1>>
  /\ UNCHANGED <<src, disk, built, saved, whole, faults, astray>>

(* Whether a symbol's value would be compiled differently, a symbol that   *)
(* is not written counting as n.                                           *)
Changed(s, vals, olds, x) ==
  IF x \in DOMAIN vals
  THEN /\ ~(x \notin DOMAIN olds /\ TypeOf(s, x) \in BoolTristate /\ vals[x] = "n")
       /\ ~(x \in DOMAIN olds /\ olds[x] = vals[x])
  ELSE x \in DOMAIN olds
SyncSymbol ==
  /\ at[1] = "sync" /\ at[2] <= Len(SymbolsOf(src))
  /\ LET x == SymbolsOf(src)[at[2]] IN
     touched' = touched \cup (IF Changed(src, ValuesOf(kconf), old, x) THEN {x} ELSE {})
  /\ at' = <<"sync", at[2] + 1>>
  /\ UNCHANGED <<src, kconf, old, disk, built, saved, whole, faults, astray>>
SyncOpen ==
  /\ at[1] = "sync" /\ at[2] = Len(SymbolsOf(src)) + 1
  /\ disk' = [disk EXCEPT !.auto = <<>>]
  /\ at' = <<"auto", 0>>
  /\ UNCHANGED <<src, kconf, old, touched, built, saved, whole, faults, astray>>
SyncWrite ==
  /\ at = <<"auto", 0>>
  /\ disk' = [disk EXCEPT !.auto = Contents(src, kconf, "auto")]
  /\ at' = <<"compile", 0>>
  /\ UNCHANGED <<src, kconf, old, touched, built, saved, whole, faults, astray>>

(* External: what depends on a touched symbol file is compiled again, with *)
(* the config.h that is there; the first time, everything is.  An          *)
(* undefined macro is 0 to #if.  (A config.h that is missing is an empty   *)
(* one here; the compiler would stop, as if it were killed.)               *)
Defines(s, k) == autoconf_contents(s, ValuesOf(k))
As(defs, x) == IF x \in DOMAIN defs THEN defs[x] ELSE <<"define", "0">>
Ends == at' = Off /\ kconf' = Fresh(src) /\ old' = <<>>
Recompiled(defs, now) ==
  [x \in DOMAIN now \cup DOMAIN defs |-> IF x \in touched THEN As(now, x) ELSE As(defs, x)]
Compile ==
  /\ at = <<"compile", 0>>
  /\ built' = IF built = <<>> THEN <<disk.header>> ELSE <<Recompiled(built[1], disk.header)>>
  /\ astray' = (disk.header # Defines(src, kconf) \/ (astray /\ built # <<>>))
  /\ touched' = {}
  /\ Ends
  /\ UNCHANGED <<src, disk, saved, whole, faults>>
Clean ==
  /\ at = Off
  /\ built' = <<>> /\ astray' = FALSE
  /\ UNCHANGED <<src, kconf, old, at, disk, touched, saved, whole, faults>>

(* A process quits without saving, or it is killed while it writes.        *)
Quit ==
  /\ at = <<"menu", 0>>
  /\ Ends
  /\ UNCHANGED <<src, disk, touched, built, saved, whole, faults, astray>>
Kill ==
  /\ at \notin {Off, <<"menu", 0>>}
  /\ faults < MaxFaults /\ faults' = faults + 1
  /\ astray' = (astray \/ at = <<"auto", 0>>)
  /\ Ends
  /\ UNCHANGED <<src, disk, touched, built, saved, whole>>

Next ==
  \/ Upgrade \/ WriteByHand
  \/ OpenMenu \/ Edit
  \/ BeginSave \/ SaveOpen \/ SaveWrite \/ SaveFails
  \/ BeginBuild \/ SyncSymbol \/ SyncOpen \/ SyncWrite \/ Compile \/ Clean
  \/ Quit \/ Kill

Spec == Init /\ [][Next]_vars

-----------------------------------------------------------------------------
(* After a save the files agree: config.h and config.mk hold what loading  *)
(* the file that was saved gives, whichever it is and whatever was left by *)
(* saves that were killed or failed before (write_config, which writes all *)
(* three although the first may not have changed).  After a save under     *)
(* another name they therefore do not hold what .config gives.             *)
FilesAgree ==
  whole => \A k \in {Loaded(Fresh(src), disk[saved])}, f \in {"header", "mk"} :
             disk[f] = Contents(src, k, f)

(* What a build does not compile again has not changed, however often      *)
(* sync_deps() and saves were killed before ("_sync_deps() can be safely   *)
(* rerun if it fails before this point", the writing of auto.conf), as     *)
(* long as builds use a config.h that was made of the values sync_deps()   *)
(* compares.                                                               *)
RebuildsChanged ==
  at = <<"compile", 0>> /\ built # <<>> /\ ~astray /\ disk.header = Defines(src, kconf) =>
    \A x \in {z \in DOMAIN disk.header \cup DOMAIN built[1] : Steady(z)} :
      As(disk.header, x) # As(built[1], x) => x \in touched

=============================================================================
