------------------------- MODULE ConfigStore_proofs -------------------------
(***************************************************************************)
(* What killed and failed processes leave behind does no harm: after a     *)
(* save the three files agree, whatever name it was under, and a build     *)
(* compiles what has changed.                                              *)
(* For every configuration tool that meets the assumptions of ConfigStore, *)
(* every number of symbols and any number of faults.                       *)
(***************************************************************************)
EXTENDS ConfigStore, TLAPS

FileNames == {"config", "other", "header", "mk", "auto"}
Places(s) ==
  {Off, <<"menu", 0>>, <<"auto", 0>>, <<"compile", 0>>}
    \cup {<<"save", j>> : j \in 1..6} \cup {<<"sync", j>> : j \in 1..(Len(SymbolsOf(s)) + 1)}

(* What the variables hold.  A process that has ended leaves nothing in    *)
(* memory.                                                                 *)
TypeInv ==
  /\ src \in Sources /\ kconf \in Configs[src] /\ at \in Places(src)
  /\ disk = [f \in FileNames |-> disk[f]]
  /\ disk["config"] \in ConfigFiles /\ disk["other"] \in ConfigFiles /\ saved \in ConfigNames
  /\ whole \in BOOLEAN /\ astray \in BOOLEAN
  /\ at = Off => kconf = Fresh(src)

(* A save that is under way has written the files before the one it is at. *)
SaveInv ==
  at[1] = "save" =>
    /\ ~whole
    /\ at[2] >= 3 => disk[saved] = SavedAs(kconf)
    /\ at[2] >= 5 => disk["header"] = autoconf_contents(src, ValuesOf(kconf))

(* A build that is under way has touched the symbols that are gone, and    *)
(* the ones before the one it is at that have changed.                     *)
SyncInv ==
  /\ at[1] = "sync" =>
       /\ old = old_vals(src, disk["auto"])
       /\ Removed(src, disk["auto"]) \subseteq touched
       /\ \A j \in 1..(at[2] - 1) :
            Changed(src, ValuesOf(kconf), old, SymbolsOf(src)[j]) => SymbolsOf(src)[j] \in touched
  /\ at[1] = "compile" => disk["auto"] = old_vals_contents(src, ValuesOf(kconf))

(* What is not touched was compiled with the values vals of version s, but *)
(* for the symbols sync_deps() cannot tell changes of.                     *)
CompiledWith(s, vals) ==
  \A x : Steady(x) /\ x \notin touched => As(built[1], x) = As(autoconf_contents(s, vals), x)

(* auto.conf remembers values which what is not touched was compiled with, *)
(* except while it is written; from then on, those are the values of now.  *)
BuiltInv ==
  built # <<>> /\ ~astray =>
    /\ at[1] # "auto" =>
         \E s \in Sources : \E k \in Configs[s] :
           disk["auto"] = old_vals_contents(s, ValuesOf(k)) /\ CompiledWith(s, ValuesOf(k))
    /\ at[1] \in {"auto", "compile"} => CompiledWith(src, ValuesOf(kconf))

IInv == TypeInv /\ SaveInv /\ FilesAgree /\ SyncInv /\ BuiltInv

-----------------------------------------------------------------------------
(* What a symbol is compiled as, n being the same as not being written.    *)
LEMMA CompiledAs ==
  ASSUME NEW s, NEW vals, NEW x
  PROVE  /\ x \in DOMAIN vals =>
              As(autoconf_contents(s, vals), x) = Define(TypeOf(s, x), vals[x])
         /\ x \notin DOMAIN vals => As(autoconf_contents(s, vals), x) = <<"define", "0">>
BY DEF As, autoconf_contents
LEMMA DefineN ==
  ASSUME NEW type \in BoolTristate
  PROVE  Define(type, "n") = <<"define", "0">>
BY DEF Define, BoolTristate

(* sync_deps() tells every change: when none of the symbols of version s   *)
(* has changed from what auto.conf says, and x is not gone, x is defined   *)
(* as it was.                                                              *)
LEMMA ComparisonIsExact ==
  ASSUME NEW s \in Sources, NEW k \in Configs[s], NEW t \in Sources, NEW l \in Configs[t], NEW x,
         Steady(x), x \notin Removed(s, old_vals_contents(t, ValuesOf(l))),
         x \in Symbols(s) =>
           ~Changed(s, ValuesOf(k), old_vals(s, old_vals_contents(t, ValuesOf(l))), x)
  PROVE  As(autoconf_contents(t, ValuesOf(l)), x) = As(autoconf_contents(s, ValuesOf(k)), x)
<1> DEFINE V == ValuesOf(k)
           W == ValuesOf(l)
           auto == old_vals_contents(t, W)
           olds == old_vals(s, auto)
<1>1. x \in DOMAIN V => x \in Symbols(s)
  BY ValuesAssumption
<1>2. x \in DOMAIN W => x \in Symbols(t)
  BY ValuesAssumption
<1>3. x \in DOMAIN auto <=> x \in DOMAIN W /\ ~(TypeOf(t, x) \in BoolTristate /\ W[x] = "n")
  BY DEF old_vals_contents
<1>4. x \in DOMAIN auto => auto[x] = Literal(TypeOf(t, x), W[x])
  BY <1>3 DEF old_vals_contents
<1>5. x \in DOMAIN auto => x \in Symbols(s) /\ TypeOf(s, x) = TypeOf(t, x)
  BY <1>2, <1>3 DEF Removed, Steady
<1>6. x \in DOMAIN auto => x \in DOMAIN olds /\ olds[x] = W[x]
  <2> SUFFICES ASSUME x \in DOMAIN auto PROVE x \in DOMAIN olds /\ olds[x] = W[x]
    OBVIOUS
  <2>1. CASE TypeOf(s, x) = "string"
    <3>1. Quoted[W[x]] \in DOMAIN Unquoted /\ Unquoted[Quoted[W[x]]] = W[x]
      BY <1>3, <1>5, <2>1, ValuesAssumption
    <3> QED BY <1>4, <1>5, <2>1, <3>1 DEF old_vals, Literal
  <2>2. CASE TypeOf(s, x) # "string"
    BY <1>4, <1>5, <2>2 DEF old_vals, Literal
  <2> QED BY <2>1, <2>2
<1>7. x \in DOMAIN olds => x \in DOMAIN auto
  BY DEF old_vals
<1>8. x \notin DOMAIN auto => As(autoconf_contents(t, W), x) = <<"define", "0">>
  BY <1>3, CompiledAs, DefineN
<1>9. CASE x \in DOMAIN auto
  <2>1. x \in DOMAIN V /\ V[x] = W[x]
    BY <1>5, <1>6, <1>9 DEF Changed
  <2> QED BY <1>3, <1>5, <1>9, <2>1, CompiledAs
<1>10. CASE x \notin DOMAIN auto
  <2>1. x \in DOMAIN V => TypeOf(s, x) \in BoolTristate /\ V[x] = "n"
    BY <1>1, <1>7, <1>10 DEF Changed
  <2>2. As(autoconf_contents(s, V), x) = <<"define", "0">>
    BY <2>1, CompiledAs, DefineN
  <2> QED BY <1>8, <1>10, <2>2
<1> QED BY <1>9, <1>10

(* What is saved loads as what it was, so the files that are made of the   *)
(* values agree with it.                                                   *)
LEMMA SavedAgrees ==
  ASSUME NEW s \in Sources, NEW k \in Configs[s], NEW f \in {"header", "mk"}
  PROVE  Contents(s, Loaded(Fresh(s), SavedAs(k)), f) = Contents(s, k, f)
BY SavedLoads DEF Contents

LEMMA InitIInv == Init => IInv
<1> SUFFICES ASSUME Init PROVE IInv
  OBVIOUS
<1>1. TypeInv
  BY ConfigsAssumption DEF Init, TypeInv, Off, Places, ConfigFiles, ConfigNames, FileNames
<1>2. SaveInv /\ FilesAgree /\ SyncInv /\ BuiltInv
  BY DEF Init, Off, SaveInv, FilesAgree, SyncInv, BuiltInv
<1> QED BY <1>1, <1>2 DEF IInv

-----------------------------------------------------------------------------
(* The steps, one lemma each.  A step that leaves the files, what is       *)
(* compiled and the history alone, and starts neither a save nor a build,  *)
(* keeps the rest.                                                         *)
LEMMA QuietStep ==
  ASSUME IInv, TypeInv', UNCHANGED <<src, disk, touched, built, saved, whole>>,
         ~astray' => ~astray /\ at # <<"auto", 0>>,
         at' \in {Off, <<"menu", 0>>}
  PROVE  IInv'
<1>1. SaveInv' /\ SyncInv'
  BY DEF SaveInv, SyncInv, Off
<1>2. FilesAgree'
  BY DEF IInv, FilesAgree, Contents, autoconf_contents, config_mk_contents
<1>3. BuiltInv'
  <2>1. at'[1] \notin {"auto", "compile"}
    BY DEF Off
  <2>2. ASSUME built # <<>>, ~astray'
        PROVE  \E s \in Sources : \E k \in Configs[s] :
                 disk["auto"] = old_vals_contents(s, ValuesOf(k)) /\ CompiledWith(s, ValuesOf(k))
    <3>1. ~astray /\ at # <<"auto", 0>>
      BY <2>2 DEF IInv, TypeInv
    <3>2. at[1] # "auto"
      BY <3>1 DEF IInv, TypeInv, Places, Off
    <3> QED BY <2>2, <3>1, <3>2 DEF IInv, BuiltInv
  <2>3. ASSUME NEW s, NEW k, CompiledWith(s, ValuesOf(k))
        PROVE  CompiledWith(s, ValuesOf(k))'
    BY <2>3 DEF CompiledWith, As
  <2> QED BY <2>1, <2>2, <2>3 DEF BuiltInv
<1> QED BY <1>1, <1>2, <1>3 DEF IInv

(* Ends, with any number of faults.                                        *)
LEMMA EndStep ==
  ASSUME IInv, Ends, UNCHANGED <<src, disk, touched, built, saved, whole>>, astray' \in BOOLEAN,
         ~astray' => ~astray /\ at # <<"auto", 0>>
  PROVE  IInv'
<1>1. TypeInv'
  BY ConfigsAssumption DEF IInv, TypeInv, Ends, Places
<1> QED BY <1>1, QuietStep DEF Ends

LEMMA MenuSteps ==
  ASSUME IInv, OpenMenu \/ Edit \/ SaveFails
  PROVE  IInv'
<1>1. TypeInv'
  <2>1. CASE OpenMenu
    BY <2>1, ConfigsAssumption DEF OpenMenu, IInv, TypeInv, Places, Off
  <2>2. CASE Edit
    BY <2>2, ConfigsAssumption DEF Edit, IInv, TypeInv, Places, Off
  <2>3. CASE SaveFails
    BY <2>3 DEF SaveFails, IInv, TypeInv, Places, Off
  <2> QED BY <2>1, <2>2, <2>3
<1>2. /\ UNCHANGED <<src, disk, touched, built, saved, whole>> /\ at' = <<"menu", 0>>
      /\ (~astray' => ~astray /\ at # <<"auto", 0>>)
  BY DEF OpenMenu, Edit, SaveFails, Off
<1> QED BY <1>1, <1>2, QuietStep

LEMMA EndSteps ==
  ASSUME IInv, Quit \/ Kill
  PROVE  IInv'
<1>1. astray' \in BOOLEAN /\ (~astray' => ~astray /\ at # <<"auto", 0>>)
  <2>1. CASE Quit
    BY <2>1 DEF Quit, IInv, TypeInv
  <2>2. CASE Kill
    <3>1. astray' = (astray \/ at = <<"auto", 0>>)
      BY <2>2 DEF Kill
    <3> QED BY <3>1, Zenon
  <2> QED BY <2>1, <2>2
<1> QED BY <1>1, EndStep DEF Quit, Kill

(* Between processes, what is remembered and what is compiled stay.        *)
LEMMA OffSteps ==
  ASSUME IInv, Upgrade \/ WriteByHand
  PROVE  IInv'
<1>1. TypeInv'
  <2>1. CASE Upgrade
    BY <2>1, ConfigsAssumption DEF Upgrade, IInv, TypeInv, Places
  <2>2. CASE WriteByHand
    <3>1. PICK f \in Handwritten : disk' = [disk EXCEPT !["config"] = f]
      BY <2>2 DEF WriteByHand
    <3>2. disk' = [g \in FileNames |-> disk'[g]] /\ disk'["config"] = f /\ disk'["other"] = disk["other"]
      BY <3>1 DEF IInv, TypeInv, FileNames
    <3>3. f \in ConfigFiles
      BY DEF ConfigFiles
    <3>4. whole' \in BOOLEAN /\ UNCHANGED <<src, kconf, at, saved, astray>>
      BY <2>2 DEF WriteByHand
    <3> QED BY <3>2, <3>3, <3>4 DEF IInv, TypeInv, Places
  <2> QED BY <2>1, <2>2
<1>2. at = Off /\ at' = Off /\ UNCHANGED <<touched, built, saved, astray>>
  BY DEF Upgrade, WriteByHand
<1>3. disk'["auto"] = disk["auto"]
  BY DEF Upgrade, WriteByHand, IInv, TypeInv, FileNames
<1>4. SaveInv' /\ SyncInv'
  BY <1>2 DEF SaveInv, SyncInv, Off
<1>6. FilesAgree'
  <2>1. CASE Upgrade
    BY <2>1 DEF Upgrade, FilesAgree
  <2>2. CASE WriteByHand
    <3> SUFFICES ASSUME whole' PROVE FilesAgree'
      BY DEF FilesAgree
    <3>1. whole /\ saved # "config" /\ src' = src
      BY <2>2 DEF WriteByHand
    <3>2. \A g \in {"other", "header", "mk"} : disk'[g] = disk[g]
      BY <2>2 DEF WriteByHand, IInv, TypeInv, FileNames
    <3>3. saved = "other"
      BY <3>1 DEF IInv, TypeInv, ConfigNames
    <3> QED
      BY <1>2, <3>1, <3>2, <3>3 DEF IInv, FilesAgree, Contents, autoconf_contents, config_mk_contents
  <2> QED BY <2>1, <2>2
<1>5. BuiltInv'
  <2>1. ASSUME NEW s, NEW k, CompiledWith(s, ValuesOf(k))
        PROVE  CompiledWith(s, ValuesOf(k))'
    BY <1>2, <2>1 DEF CompiledWith, As
  <2> QED BY <1>2, <1>3, <2>1 DEF IInv, BuiltInv, Off
<1> QED BY <1>1, <1>4, <1>5, <1>6 DEF IInv

LEMMA CleanStep ==
  ASSUME IInv, Clean
  PROVE  IInv'
<1>1. TypeInv'
  BY DEF Clean, IInv, TypeInv, Places
<1>2. SaveInv' /\ SyncInv' /\ BuiltInv'
  BY DEF Clean, SaveInv, SyncInv, BuiltInv, Off
<1>3. FilesAgree'
  BY DEF Clean, IInv, FilesAgree, Contents, autoconf_contents, config_mk_contents
<1> QED BY <1>1, <1>2, <1>3 DEF IInv

-----------------------------------------------------------------------------
(* Saving: nothing is said of the files until the last one is written, and *)
(* then they hold what .config loads as.                                   *)
LEMMA WriteOrderIs ==
  ASSUME NEW j \in 1..6, NEW f,
         f = WriteOrder(saved)[IF j \in {1, 3, 5} THEN (j + 1) \div 2 ELSE j \div 2]
  PROVE  f = IF j <= 2 THEN saved ELSE IF j <= 4 THEN "header" ELSE "mk"
<1>1. (IF j \in {1, 3, 5} THEN (j + 1) \div 2 ELSE j \div 2)
        = IF j <= 2 THEN 1 ELSE IF j <= 4 THEN 2 ELSE 3
  OBVIOUS
<1> QED BY <1>1 DEF WriteOrder
LEMMA SaveOpens ==
  ASSUME IInv, SaveOpen
  PROVE  \/ at = <<"save", 1>> /\ at' = <<"save", 2>> /\ disk' = [disk EXCEPT ![saved] = <<>>]
         \/ at = <<"save", 3>> /\ at' = <<"save", 4>> /\ disk' = [disk EXCEPT !["header"] = <<>>]
         \/ at = <<"save", 5>> /\ at' = <<"save", 6>> /\ disk' = [disk EXCEPT !["mk"] = <<>>]
<1>1. PICK j \in {1, 3, 5} : at = <<"save", j>>
  BY DEF IInv, TypeInv, Places, Off, SaveOpen
<1> DEFINE f == WriteOrder(saved)[(j + 1) \div 2]
<1>2. disk' = [disk EXCEPT ![f] = <<>>] /\ at' = <<"save", j + 1>>
  BY <1>1 DEF SaveOpen
<1>name. f = IF j <= 2 THEN saved ELSE IF j <= 4 THEN "header" ELSE "mk"
  BY WriteOrderIs
<1> HIDE DEF f
<1>3. CASE j = 1
  BY <1>1, <1>2, <1>3, <1>name
<1>4. CASE j = 3
  BY <1>1, <1>2, <1>4, <1>name
<1>5. CASE j = 5
  BY <1>1, <1>2, <1>5, <1>name
<1> QED BY <1>3, <1>4, <1>5
LEMMA SaveWrites ==
  ASSUME IInv, SaveWrite
  PROVE  \/ /\ at = <<"save", 2>> /\ at' = <<"save", 3>> /\ ~whole'
            /\ disk' = [disk EXCEPT ![saved] = SavedAs(kconf)]
         \/ /\ at = <<"save", 4>> /\ at' = <<"save", 5>> /\ ~whole'
            /\ disk' = [disk EXCEPT !["header"] = autoconf_contents(src, ValuesOf(kconf))]
         \/ /\ at = <<"save", 6>> /\ at' = <<"menu", 0>> /\ whole'
            /\ disk' = [disk EXCEPT !["mk"] = config_mk_contents(src, ValuesOf(kconf))]
<1>1. PICK j \in {2, 4, 6} : at = <<"save", j>>
  BY DEF IInv, TypeInv, Places, Off, SaveWrite
<1> DEFINE f == WriteOrder(saved)[j \div 2]
<1>2. /\ disk' = [disk EXCEPT ![f] = Contents(src, kconf, f)]
      /\ at' = IF j = 6 THEN <<"menu", 0>> ELSE <<"save", j + 1>>
      /\ whole' <=> j = 6
  BY <1>1 DEF SaveWrite
<1>name. f = IF j <= 2 THEN saved ELSE IF j <= 4 THEN "header" ELSE "mk"
  BY WriteOrderIs
<1> HIDE DEF f
<1>3. /\ Contents(src, kconf, saved) = SavedAs(kconf)
      /\ Contents(src, kconf, "header") = autoconf_contents(src, ValuesOf(kconf))
      /\ Contents(src, kconf, "mk") = config_mk_contents(src, ValuesOf(kconf))
  BY DEF Contents, IInv, TypeInv, ConfigNames
<1>4. CASE j = 2
  <2>1. f = saved
    BY <1>4, <1>name
  <2>2. disk' = [disk EXCEPT ![saved] = Contents(src, kconf, saved)]
    BY <1>2, <2>1
  <2>3. at = <<"save", 2>> /\ at' = <<"save", 3>> /\ ~whole'
    BY <1>1, <1>2, <1>4
  <2> QED BY <1>3, <2>2, <2>3
<1>5. CASE j = 4
  <2>1. f = "header"
    BY <1>5, <1>name
  <2>2. disk' = [disk EXCEPT !["header"] = Contents(src, kconf, "header")]
    BY <1>2, <2>1
  <2>3. at = <<"save", 4>> /\ at' = <<"save", 5>> /\ ~whole'
    BY <1>1, <1>2, <1>5
  <2> QED BY <1>3, <2>2, <2>3
<1>6. CASE j = 6
  <2>1. f = "mk"
    BY <1>6, <1>name
  <2>2. disk' = [disk EXCEPT !["mk"] = Contents(src, kconf, "mk")]
    BY <1>2, <2>1
  <2> QED BY <1>1, <1>2, <1>3, <1>6, <2>2
<1> QED BY <1>4, <1>5, <1>6

LEMMA SaveSteps ==
  ASSUME IInv, BeginSave \/ SaveOpen \/ SaveWrite
  PROVE  IInv'
<1>1. UNCHANGED <<src, kconf, touched, built, astray>>
  BY DEF BeginSave, SaveOpen, SaveWrite
<1>2. /\ at \in {<<"menu", 0>>} \cup {<<"save", j>> : j \in 1..6}
      /\ at' \in {<<"menu", 0>>} \cup {<<"save", j>> : j \in 1..6}
  <2>1. CASE BeginSave
    BY <2>1 DEF BeginSave
  <2>2. CASE SaveOpen
    BY <2>2 DEF SaveOpen, IInv, TypeInv, Places, Off
  <2>3. CASE SaveWrite
    BY <2>3 DEF SaveWrite, IInv, TypeInv, Places, Off
  <2> QED BY <2>1, <2>2, <2>3
<1>3. /\ disk'["auto"] = disk["auto"]
      /\ disk' = [f \in FileNames |-> disk'[f]]
      /\ disk'["config"] \in ConfigFiles /\ disk'["other"] \in ConfigFiles
      /\ whole' \in BOOLEAN /\ saved' \in ConfigNames
  <2>1. <<>> \in ConfigFiles /\ SavedAs(kconf) \in ConfigFiles
    BY DEF ConfigFiles, IInv, TypeInv
  <2>2. CASE BeginSave
    BY <2>2, ConfigsAssumption DEF BeginSave, IInv, TypeInv
  <2>3. CASE SaveOpen
    <3>1. PICK f \in {"config", "other", "header", "mk"} : disk' = [disk EXCEPT ![f] = <<>>]
      BY <2>3, SaveOpens DEF IInv, TypeInv, ConfigNames
    <3>2. whole' = whole /\ saved' = saved
      BY <2>3 DEF SaveOpen
    <3> QED BY <2>1, <3>1, <3>2 DEF IInv, TypeInv, FileNames, ConfigNames
  <2>4. CASE SaveWrite
    <3>1. PICK f \in {"config", "other", "header", "mk"} :
            \E c : disk' = [disk EXCEPT ![f] = c] /\ (f \in ConfigNames => c = SavedAs(kconf))
      BY <2>4, SaveWrites DEF IInv, TypeInv, ConfigNames
    <3>2. whole' \in BOOLEAN /\ saved' = saved
      BY <2>4 DEF SaveWrite
    <3> QED BY <2>1, <3>1, <3>2 DEF IInv, TypeInv, FileNames, ConfigNames
  <2> QED BY <2>2, <2>3, <2>4
<1>5. TypeInv'
  BY <1>1, <1>2, <1>3 DEF IInv, TypeInv, Places, Off
<1>6. SaveInv'
  <2>1. CASE BeginSave
    BY <2>1 DEF BeginSave, SaveInv
  <2>2. CASE SaveOpen
    <3>1. ~whole' /\ saved' = saved
      BY <2>2 DEF SaveOpen, IInv, SaveInv
    <3> QED
      BY <1>1, <2>2, <3>1, SaveOpens
      DEF IInv, TypeInv, SaveInv, FileNames, ConfigNames, autoconf_contents
  <2>3. CASE SaveWrite
    <3>1. saved' = saved
      BY <2>3 DEF SaveWrite
    <3> QED
      BY <1>1, <2>3, <3>1, SaveWrites
      DEF IInv, TypeInv, SaveInv, FileNames, ConfigNames, autoconf_contents
  <2> QED BY <2>1, <2>2, <2>3
<1>7. FilesAgree'
  <2> SUFFICES ASSUME whole', NEW f \in {"header", "mk"}
               PROVE  disk'[f] = Contents(src, Loaded(Fresh(src), disk'[saved']), f)
    BY <1>1 DEF FilesAgree, Contents, autoconf_contents, config_mk_contents
  <2>1. SaveWrite
    BY DEF BeginSave, SaveOpen, IInv, SaveInv
  <2>2. /\ at = <<"save", 6>> /\ saved' = saved
        /\ disk' = [disk EXCEPT !["mk"] = config_mk_contents(src, ValuesOf(kconf))]
    BY <2>1, SaveWrites DEF SaveWrite
  <2>3. disk[saved] = SavedAs(kconf) /\ disk["header"] = autoconf_contents(src, ValuesOf(kconf))
    BY <2>2 DEF IInv, SaveInv
  <2>4. disk'[saved'] = SavedAs(kconf) /\ disk'[f] = Contents(src, kconf, f)
    BY <2>2, <2>3 DEF IInv, TypeInv, FileNames, ConfigNames, Contents
  <2> QED BY <2>4, SavedAgrees DEF IInv, TypeInv
<1>8. SyncInv'
  BY <1>2 DEF SyncInv
<1>9. BuiltInv'
  <2>1. ASSUME NEW s, NEW k, CompiledWith(s, ValuesOf(k))
        PROVE  CompiledWith(s, ValuesOf(k))'
    BY <1>1, <2>1 DEF CompiledWith, As
  <2> QED BY <1>1, <1>2, <1>3, <2>1 DEF IInv, BuiltInv
<1> QED BY <1>5, <1>6, <1>7, <1>8, <1>9 DEF IInv

-----------------------------------------------------------------------------
(* Building.  Touching more, with the files as they are, keeps what is     *)
(* remembered right.                                                       *)
LEMMA TouchingMore ==
  ASSUME IInv, UNCHANGED <<disk, built, astray>>, touched \subseteq touched',
         at[1] # "auto", at'[1] \notin {"auto", "compile"}
  PROVE  BuiltInv'
<1>1. ASSUME NEW s, NEW k, CompiledWith(s, ValuesOf(k))
      PROVE  CompiledWith(s, ValuesOf(k))'
  BY <1>1 DEF CompiledWith, As
<1> QED BY <1>1 DEF IInv, BuiltInv

SaveFiles == {"config", "other", "header", "mk"}
LEMMA FilesKept ==
  ASSUME IInv, UNCHANGED <<src, saved, whole>>, \A f \in SaveFiles : disk'[f] = disk[f]
  PROVE  FilesAgree'
<1>1. disk'[saved] = disk[saved] /\ disk'["header"] = disk["header"] /\ disk'["mk"] = disk["mk"]
  BY DEF IInv, TypeInv, ConfigNames, SaveFiles
<1> QED BY <1>1 DEF IInv, FilesAgree, Contents, autoconf_contents, config_mk_contents

LEMMA BeginBuildStep ==
  ASSUME IInv, BeginBuild
  PROVE  IInv'
<1>1. at = Off /\ at' = <<"sync", 1>> /\ UNCHANGED <<src, disk, built, saved, whole, astray>>
  BY DEF BeginBuild
<1>2. TypeInv'
  <2>1. kconf' \in Configs[src] /\ Len(SymbolsOf(src)) \in Nat
    BY <1>1, ConfigsAssumption DEF BeginBuild, IInv, TypeInv
  <2> QED BY <1>1, <2>1 DEF IInv, TypeInv, Places, Off
<1>3. SaveInv'
  BY <1>1 DEF SaveInv
<1>4. FilesAgree'
  BY <1>1, FilesKept
<1>5. SyncInv'
  BY <1>1 DEF BeginBuild, SyncInv, Removed, old_vals
<1>6. BuiltInv'
  BY <1>1, TouchingMore DEF BeginBuild, Off
<1> QED BY <1>2, <1>3, <1>4, <1>5, <1>6 DEF IInv

LEMMA SyncAt ==
  ASSUME IInv, at[1] = "sync"
  PROVE  /\ Len(SymbolsOf(src)) \in Nat /\ DOMAIN SymbolsOf(src) = 1..Len(SymbolsOf(src))
         /\ at[2] \in 1..(Len(SymbolsOf(src)) + 1) /\ at = <<"sync", at[2]>>
<1>1. SymbolsOf(src) \in Seq(Symbols(src))
  BY ConfigsAssumption DEF IInv, TypeInv
<1> QED BY <1>1 DEF IInv, TypeInv, Places, Off

LEMMA SyncSymbolStep ==
  ASSUME IInv, SyncSymbol
  PROVE  IInv'
<1> DEFINE j == at[2]
           x == SymbolsOf(src)[j]
<1>1. at[1] = "sync" /\ j \in 1..Len(SymbolsOf(src)) /\ Len(SymbolsOf(src)) \in Nat
  BY SyncAt DEF SyncSymbol
<1>2. at' = <<"sync", j + 1>> /\ UNCHANGED <<src, kconf, old, disk, built, saved, whole, astray>>
  BY DEF SyncSymbol
<1>3. TypeInv'
  BY <1>1, <1>2 DEF IInv, TypeInv, Places, Off
<1>4. SaveInv'
  BY <1>2 DEF SaveInv
<1>5. FilesAgree'
  BY <1>2, FilesKept
<1>6. touched \subseteq touched' /\ (Changed(src, ValuesOf(kconf), old, x) => x \in touched')
  BY DEF SyncSymbol
<1>7. SyncInv'
  <2>1. old' = old_vals(src', disk'["auto"]) /\ Removed(src', disk'["auto"]) \subseteq touched'
    BY <1>1, <1>2, <1>6 DEF IInv, SyncInv, old_vals, Removed
  <2>2. ASSUME NEW i \in 1..(at'[2] - 1), Changed(src', ValuesOf(kconf'), old', SymbolsOf(src')[i])
        PROVE  SymbolsOf(src')[i] \in touched'
    <3>1. Changed(src, ValuesOf(kconf), old, SymbolsOf(src)[i])
      BY <1>2, <2>2 DEF Changed
    <3>2. CASE i = j
      BY <1>2, <1>6, <3>1, <3>2
    <3>3. CASE i \in 1..(j - 1)
      BY <1>1, <1>2, <1>6, <3>1, <3>3 DEF IInv, SyncInv
    <3> QED BY <1>1, <1>2, <3>2, <3>3
  <2> QED BY <1>2, <2>1, <2>2 DEF SyncInv
<1>8. BuiltInv'
  BY <1>1, <1>2, <1>6, TouchingMore
<1> QED BY <1>3, <1>4, <1>5, <1>7, <1>8 DEF IInv

(* When auto.conf is opened, every change has been told: what is not       *)
(* touched was compiled with the values of now.                            *)
LEMMA SyncOpenStep ==
  ASSUME IInv, SyncOpen
  PROVE  IInv'
<1>1. at[1] = "sync" /\ at[2] = Len(SymbolsOf(src)) + 1 /\ Len(SymbolsOf(src)) \in Nat
      /\ DOMAIN SymbolsOf(src) = 1..Len(SymbolsOf(src))
  BY SyncAt DEF SyncOpen
<1>2. at' = <<"auto", 0>> /\ UNCHANGED <<src, kconf, touched, built, saved, whole, astray>>
  BY DEF SyncOpen
<1>3. TypeInv' /\ \A f \in SaveFiles : disk'[f] = disk[f]
  <2>1. disk' = [disk EXCEPT !["auto"] = <<>>]
    BY DEF SyncOpen
  <2> QED BY <1>2, <2>1 DEF IInv, TypeInv, Places, Off, FileNames, SaveFiles
<1>4. SaveInv' /\ SyncInv'
  BY <1>2 DEF SaveInv, SyncInv
<1>5. FilesAgree'
  BY <1>2, <1>3, FilesKept
<1>6. ASSUME built # <<>>, ~astray
      PROVE  CompiledWith(src, ValuesOf(kconf))
  <2>0. PICK t \in Sources : \E l \in Configs[t] :
          disk["auto"] = old_vals_contents(t, ValuesOf(l)) /\ CompiledWith(t, ValuesOf(l))
    BY <1>1, <1>6 DEF IInv, BuiltInv
  <2>1. PICK l \in Configs[t] :
          disk["auto"] = old_vals_contents(t, ValuesOf(l)) /\ CompiledWith(t, ValuesOf(l))
    BY <2>0
  <2>2. SUFFICES ASSUME NEW x, Steady(x), x \notin touched
                 PROVE  As(built[1], x) = As(autoconf_contents(src, ValuesOf(kconf)), x)
    BY DEF CompiledWith
  <2>3. x \notin Removed(src, old_vals_contents(t, ValuesOf(l)))
    BY <1>1, <2>1, <2>2 DEF IInv, SyncInv
  <2>4. x \in Symbols(src) =>
          ~Changed(src, ValuesOf(kconf), old_vals(src, old_vals_contents(t, ValuesOf(l))), x)
    <3> SUFFICES ASSUME x \in Symbols(src)
                 PROVE  ~Changed(src, ValuesOf(kconf), old, x)
      BY <1>1, <2>1 DEF IInv, SyncInv
    <3>1. PICK j \in DOMAIN SymbolsOf(src) : x = SymbolsOf(src)[j]
      BY DEF Symbols
    <3> QED BY <1>1, <2>2, <3>1 DEF IInv, SyncInv
  <2>5. src \in Sources /\ kconf \in Configs[src]
    BY DEF IInv, TypeInv
  <2>6. As(autoconf_contents(t, ValuesOf(l)), x) = As(autoconf_contents(src, ValuesOf(kconf)), x)
    BY <2>2, <2>3, <2>4, <2>5, ComparisonIsExact
  <2> QED BY <2>1, <2>2, <2>6 DEF CompiledWith
<1>7. BuiltInv'
  BY <1>2, <1>6 DEF BuiltInv, CompiledWith, As, autoconf_contents
<1> QED BY <1>3, <1>4, <1>5, <1>7 DEF IInv

LEMMA SyncWriteStep ==
  ASSUME IInv, SyncWrite
  PROVE  IInv'
<1>1. /\ at = <<"auto", 0>> /\ at' = <<"compile", 0>>
      /\ UNCHANGED <<src, kconf, touched, built, saved, whole, astray>>
      /\ disk' = [disk EXCEPT !["auto"] = old_vals_contents(src, ValuesOf(kconf))]
  BY DEF SyncWrite, Contents
<1>2. /\ TypeInv' /\ disk'["auto"] = old_vals_contents(src, ValuesOf(kconf))
      /\ \A f \in SaveFiles : disk'[f] = disk[f]
  BY <1>1 DEF IInv, TypeInv, Places, Off, FileNames, SaveFiles
<1>3. SaveInv' /\ SyncInv'
  BY <1>1, <1>2 DEF SaveInv, SyncInv, old_vals_contents
<1>4. FilesAgree'
  BY <1>1, <1>2, FilesKept
<1>5. ASSUME built # <<>>, ~astray
      PROVE  CompiledWith(src, ValuesOf(kconf)) /\ CompiledWith(src, ValuesOf(kconf))'
  BY <1>1, <1>5 DEF IInv, BuiltInv, CompiledWith, As, autoconf_contents
<1>6. src' \in Sources /\ kconf' \in Configs[src'] /\ src' = src /\ kconf' = kconf
  BY <1>1, <1>2 DEF TypeInv
<1>7. BuiltInv'
  BY <1>1, <1>2, <1>5, <1>6 DEF BuiltInv
<1> QED BY <1>2, <1>3, <1>4, <1>7 DEF IInv

(* After a compilation with a config.h that was made of the values of now, *)
(* everything is compiled with them, and auto.conf remembers them.         *)
LEMMA CompileStep ==
  ASSUME IInv, Compile
  PROVE  IInv'
<1> DEFINE now == autoconf_contents(src, ValuesOf(kconf))
<1>1. /\ at = <<"compile", 0>> /\ touched' = {}
      /\ built' = IF built = <<>> THEN <<disk["header"]>> ELSE <<Recompiled(built[1], disk["header"])>>
      /\ at' = Off /\ kconf' = Fresh(src) /\ UNCHANGED <<src, disk, saved, whole>>
  BY DEF Compile, Ends
<1>0. astray' \in BOOLEAN /\ (~astray' => disk["header"] = now /\ (~astray \/ built = <<>>))
  <2>1. astray' = (disk["header"] # now \/ (astray /\ built # <<>>))
    BY DEF Compile, Defines
  <2> HIDE DEF now
  <2> QED BY <2>1, Zenon
<1>2. TypeInv'
  BY <1>0, <1>1, ConfigsAssumption DEF IInv, TypeInv, Places
<1>3. SaveInv' /\ SyncInv'
  BY <1>1 DEF SaveInv, SyncInv, Off
<1>4. FilesAgree'
  BY <1>1, FilesKept
<1>5. ASSUME ~astray', NEW x, Steady(x)
      PROVE  As(built'[1], x) = As(now, x)
  <2>0. disk["header"] = now
    BY <1>0, <1>5
  <2>1. CASE built = <<>>
    BY <1>1, <2>0, <2>1
  <2>2. CASE built # <<>>
    <3>1. x \notin touched => As(built[1], x) = As(now, x)
      BY <1>0, <1>1, <1>5, <2>2 DEF IInv, BuiltInv, CompiledWith
    <3>2. built'[1] = Recompiled(built[1], now)
      BY <1>1, <2>0, <2>2
    <3> HIDE DEF now
    <3> DEFINE new == Recompiled(built[1], now)
    <3>3. new = [y \in DOMAIN now \cup DOMAIN built[1] |->
                   IF y \in touched THEN As(now, y) ELSE As(built[1], y)]
      BY DEF Recompiled
    <3> HIDE DEF new
    <3>4. CASE x \in DOMAIN now \cup DOMAIN built[1]
      BY <3>1, <3>2, <3>3, <3>4 DEF As, new
    <3>5. CASE x \notin DOMAIN now \cup DOMAIN built[1]
      BY <3>2, <3>3, <3>5 DEF As, new
    <3> QED BY <3>4, <3>5
  <2> QED BY <2>1, <2>2
<1>6. BuiltInv'
  <2> SUFFICES ASSUME built' # <<>>, ~astray'
               PROVE  \E s \in Sources : \E k \in Configs[s] :
                        /\ disk'["auto"] = old_vals_contents(s, ValuesOf(k))
                        /\ CompiledWith(s, ValuesOf(k))'
    BY <1>1 DEF BuiltInv, Off
  <2>1. disk'["auto"] = old_vals_contents(src, ValuesOf(kconf))
    BY <1>1 DEF IInv, SyncInv
  <2>2. \A s, k : s = src /\ k = kconf => CompiledWith(s, ValuesOf(k))'
    BY <1>1, <1>5 DEF CompiledWith, As, Steady
  <2>3. src \in Sources /\ kconf \in Configs[src]
    BY DEF IInv, TypeInv
  <2> QED BY <2>1, <2>2, <2>3
<1> QED BY <1>2, <1>3, <1>4, <1>6 DEF IInv

LEMMA NextIInv ==
  ASSUME IInv, [Next]_vars
  PROVE  IInv'
<1>1. CASE UNCHANGED vars
  <2>1. UNCHANGED <<src, kconf, old, at, disk, touched, built, saved, whole, astray>>
    BY <1>1 DEF vars
  <2>2. TypeInv' /\ SaveInv'
    BY <2>1 DEF IInv, TypeInv, SaveInv, Places, autoconf_contents
  <2>3. FilesAgree'
    BY <2>1, FilesKept
  <2>4. SyncInv'
    BY <2>1 DEF IInv, SyncInv, old_vals, old_vals_contents, Removed, Changed
  <2>5. BuiltInv'
    <3>1. ASSUME NEW s, NEW k, CompiledWith(s, ValuesOf(k))
          PROVE  CompiledWith(s, ValuesOf(k))'
      BY <2>1, <3>1 DEF CompiledWith, As
    <3>2. CompiledWith(src, ValuesOf(kconf)) => CompiledWith(src, ValuesOf(kconf))'
      BY <2>1 DEF CompiledWith, As, autoconf_contents
    <3> QED BY <2>1, <3>1, <3>2 DEF IInv, BuiltInv
  <2> QED BY <2>2, <2>3, <2>4, <2>5 DEF IInv
<1> QED
  BY <1>1, OffSteps, MenuSteps, SaveSteps, BeginBuildStep, SyncSymbolStep, SyncOpenStep,
     SyncWriteStep, CompileStep, CleanStep, EndSteps DEF Next

LEMMA AlwaysIInv == Spec => []IInv
BY InitIInv, NextIInv, PTL DEF Spec

(* After a save config.h and config.mk hold what loading the file that was *)
(* saved gives, whatever its name and however many saves were killed or    *)
(* failed before at whichever file (write_config).                         *)
THEOREM FilesAlwaysAgree == Spec => []FilesAgree
<1>1. IInv => FilesAgree
  BY DEF IInv
<1> QED BY <1>1, AlwaysIInv, PTL

(* What a build does not compile again has not changed, for every history  *)
(* of upgrades of the Kconfig files, edits, saves and runs of sync_deps()  *)
(* that were killed before auto.conf was opened or after it was written,   *)
(* and for every symbol that is defined, with one type, in each version    *)
(* that refers to it; as long as builds use a config.h that was made of    *)
(* the values sync_deps() compared.                                        *)
THEOREM ChangesAreRebuilt == Spec => []RebuildsChanged
<1>1. IInv => RebuildsChanged
  <2> SUFFICES ASSUME IInv, at = <<"compile", 0>>, built # <<>>, ~astray,
                      disk["header"] = Defines(src, kconf),
                      NEW x, Steady(x), As(disk["header"], x) # As(built[1], x)
               PROVE  x \in touched
    BY DEF RebuildsChanged
  <2>1. CompiledWith(src, ValuesOf(kconf))
    BY DEF IInv, BuiltInv
  <2> QED BY <2>1 DEF CompiledWith, Defines
<1> QED BY <1>1, AlwaysIInv, PTL

=============================================================================
