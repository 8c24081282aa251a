--------------------------- MODULE KconfigSession ---------------------------
(***************************************************************************)
(* The life of a Kconfig object (src/scripts/menuconfig.py): it parses a   *)
(* Kconfig file, and then its symbols and choices are given user values,   *)
(* lose them and are read, and .config files are loaded, in any order.     *)
(* Reading caches values; giving user values invalidates caches.  A        *)
(* definition with an underscored suffix, in the modules this one extends, *)
(* is a mutant of the one after it: a bug the properties must tell from    *)
(* the code.                                                               *)
(***************************************************************************)
EXTENDS KconfigFile

CONSTANTS
  Sources,    \* Kconfig files, as sequences of tokenized lines
  Layouts,    \* Kconfig files that are parsed and given values, but not read
  Files,      \* Kconfig file -> the .config files that are loaded
  UserValues, \* type -> the values a user gives to symbols of the type
  MaxUser     \* bound: how many items have a user value at once

VARIABLES
  src,    \* the file
  phase,  \* "start", "ready", or the kind of error parsing ends with
  tree,   \* Kconfig.top_node
  kconf   \* the values: see KconfigValues

vars == <<src, phase, tree, kconf>>

Init ==
  /\ src \in Sources \cup Layouts
  /\ phase = "start"
  /\ tree = Top
  /\ kconf = New(NoProgram)

Parse ==
  /\ phase = "start"
  /\ LET r == ParseKconfig(src) IN
     /\ phase' = r.phase
     /\ tree' = r.tree
     /\ kconf' = New(r.p)
  /\ src' = src

Items == AllSymbols(kconf) \cup AllChoices(kconf)
Operation == phase = "ready" /\ UNCHANGED <<src, phase, tree>>

(* What has no prompt is only assigned by .config files, see Load.         *)
SetValue(i) ==
  /\ Operation
  /\ Def(kconf, i).prompts # <<>>
  /\ Cardinality(DOMAIN kconf.user \cup {i}) <= MaxUser
  /\ \E v \in UserValues[OrigType(kconf, i)] : kconf' = set_value(kconf, i, v)

UnsetValue(i) == Operation /\ kconf' = unset_value(kconf, i)

(* Kconfig.unset_values()                                                  *)
unset_values(k) == FoldLeft(unset_value, k, k.p.syms \o k.p.choices)
UnsetValues == Operation /\ kconf' = unset_values(kconf)

(* A bound: assignable is read only of choices and of the symbols with a   *)
(* prompt that are not in a choice, whose visibility str_value reads too.  *)
Attributes(i) ==
  IF i \in AllChoices(kconf) THEN {"assign", "sel"}
  ELSE {"str"} \cup (IF Def(kconf, i).choice = None /\ Def(kconf, i).prompts # <<>>
                     THEN {"assign"} ELSE {})
ReadValue(i) ==
  /\ Operation /\ src \in Sources
  /\ \E a \in Attributes(i) : <<i, a>> \notin DOMAIN kconf.cache /\ kconf' = Read(kconf, i, a)

(* Kconfig.load_config(), of what is there already or in its place.        *)
Load ==
  /\ Operation
  /\ \E f \in Files[src], replace \in BOOLEAN : kconf' = load_config(kconf, f, replace)
  /\ Cardinality(DOMAIN kconf'.user) <= MaxUser

(* A file with an error ends the program.                                  *)
Ended == phase \notin {"start", "ready"} /\ UNCHANGED vars

Next ==
  \/ Parse
  \/ \E i \in Items : SetValue(i) \/ UnsetValue(i) \/ ReadValue(i)
  \/ UnsetValues \/ Load
  \/ Ended

Spec == Init /\ [][Next]_vars

-----------------------------------------------------------------------------
(* The same user values with nothing cached.                               *)
Fresh(k) == [k EXCEPT !.cache = New(k.p).cache]

(* What is cached is what computing it anew gives, _write_to_conf          *)
(* included, whatever was set, unset and read before, and although         *)
(* _rec_invalidate() stops at the items that have no cached visibility.    *)
CachesFresh ==
  LET k == Fresh(kconf) IN
  \A a \in DOMAIN kconf.cache :
    IF a[2] = "write"
    THEN OrigType(k, a[1]) # "unknown" /\ <<a[1], "str">> \in DOMAIN kconf.cache
           => kconf.cache[a] = Value(k, a[1], "str").f[a]
    ELSE kconf.cache[a] = Value(k, a[1], a[2]).v

(* CachesFresh makes the properties below independent of what is cached:   *)
(* they are evaluated where nothing is.                                    *)
Unread == phase = "ready" /\ kconf = Fresh(kconf)

(* A bool or tristate symbol takes exactly the assignable values: giving   *)
(* it one of them makes it its value, giving it another one does not, and  *)
(* when there are none its value does not change (Symbol.assignable        *)
(* against set_value() and tri_value).  A choice symbol is also n when     *)
(* another one is selected.                                                *)
AssignableExact ==
  \A i \in AllSymbols(kconf), v \in 0..2 :
    Unread /\ OrigType(kconf, i) \in BoolTristate =>
      LET assignable == Value(kconf, i, "assign").v
          after == Value(set_value(kconf, i, v), i, "tri").v
      IN IF v \in assignable THEN after = v
         ELSE IF assignable = {} THEN after = Value(kconf, i, "tri").v
         ELSE Def(kconf, i).choice = None /\ Valid(kconf, i, v) => after # v

(* In y mode exactly one of the visible symbols of a choice is y, in the   *)
(* other modes none is: one target architecture, never two.                *)
ChoiceHasOne ==
  \A c \in AllChoices(kconf) :
    Unread =>
      LET syms == ToSet(Def(kconf, c).syms)
          visible == \E s \in syms : visibility(kconf, s).v # 0
          yes == {s \in syms : tri_value(kconf, s).v = 2}
      IN IF tri_value(kconf, c).v = 2 /\ visible THEN Cardinality(yes) = 1 ELSE yes = {}

Values(k) == [s \in AllSymbols(k) |-> str_value(k, s).v]
Loaded(file) == load_config(New(kconf.p), file, TRUE)

(* A configuration that is written and loaded is the configuration it was  *)
(* (_config_contents against _load_config).                                *)
WrittenLoads ==
  Unread /\ src \in Sources => Values(Loaded(config_contents(kconf).v)) = Values(kconf)

(* So is one that is written in minimal form ("a complete configuration    *)
(* can be derived from it by loading it", write_min_config).  It takes     *)
(* files without a tristate choice that has bool symbols and is not        *)
(* optional: its m mode is not written, since its symbols are all n.       *)
MinimalLoads ==
  Unread /\ src \in Sources => Values(Loaded(min_config_contents(kconf).v)) = Values(kconf)

(* Loading a file leaves the user values a new Kconfig object would have, *)
(* of symbols and of choices, although only what the file does not set is  *)
(* unset, and that after the rest was set ("all existing user values will  *)
(* be cleared", load_config).  One thing does survive: the selection of a  *)
(* choice of which the file sets the mode and no symbol to y; a choice     *)
(* whose mode is set counts as set.                                        *)
LoadReplaces ==
  Unread =>
    \A f \in Files[src] :
      \A k \in {load_config(kconf, f, TRUE)}, l \in {Loaded(f)} :
        /\ k.user = l.user /\ k.missing = l.missing
        /\ \A c \in AllChoices(kconf) :
             c \in DOMAIN l.sel \/ c \notin DOMAIN l.user =>
               \A s \in AllSymbols(kconf) : Is(k.sel, c, s) <=> Is(l.sel, c, s)

-----------------------------------------------------------------------------
(* A reference for parsing: what the lines of a file say, read off their   *)
(* positions.  The value of the tokens of an expression is defined by      *)
(* splitting them at the operators that bind least; -1 if malformed.       *)
TopLevel(ts, op) ==
  {j \in DOMAIN ts : ts[j] = op /\ Cardinality({x \in 1..j : ts[x] = "("})
                                     = Cardinality({x \in 1..j : ts[x] = ")"})}
RECURSIVE TokenValue(_, _)
TokenValue(k, ts) ==
  LET k0 == Len(ts)
      split(op, F(_, _)) ==
        LET j == CHOOSE x \in TopLevel(ts, op) : TRUE
            a == TokenValue(k, SubSeq(ts, 1, j - 1))
            b == TokenValue(k, SubSeq(ts, j + 1, k0))
        IN IF -1 \in {a, b} THEN -1 ELSE F(a, b)
      names == \A j \in DOMAIN ts \ {2} : ts[j] \notin Punctuation
  IN IF k0 = 0 THEN -1
     ELSE IF TopLevel(ts, "||") # {} THEN split("||", LAMBDA a, b : IF a > b THEN a ELSE b)
     ELSE IF TopLevel(ts, "&&") # {} THEN split("&&", LAMBDA a, b : IF a < b THEN a ELSE b)
     ELSE IF ts[1] = "!"
     THEN LET a == TokenValue(k, Tail(ts)) IN IF a = -1 THEN -1 ELSE 2 - a
     ELSE IF ts[1] = "(" /\ ts[k0] = ")" THEN TokenValue(k, SubSeq(ts, 2, k0 - 1))
     ELSE IF k0 = 3 /\ names /\ ts[2] \in Relations
     THEN expr_value(k, <<ts[2], ts[1], ts[3]>>).v
     ELSE IF k0 = 1 /\ names
     THEN IF ts[1] = "m" /\ tri_value(k, "MODULES").v = 0 THEN 0 ELSE tri_value(k, ts[1]).v
     ELSE -1

(* The lines with sourced files in place.                                  *)
RECURSIVE Expanded(_)
Expanded(ls) ==
  FlattenSeq([j \in DOMAIN ls |->
    IF ls[j][1] = "source"
    THEN FlattenSeq([x \in DOMAIN ls[j][3] |-> Expanded(ls[j][3][x])]) ELSE <<ls[j]>>])
Text == Expanded(src)
EndOf == "choice" :> "endchoice" @@ "menu" :> "endmenu" @@ "if" :> "endif"
Ends == {"endchoice", "endmenu", "endif"}
Defines == {"config", "menuconfig", "choice", "menu", "comment"}

(* Whether the block that line b opens is still open at line j.            *)
Encloses(b, j) ==
  /\ b < j /\ Text[b][1] \in DOMAIN EndOf
  /\ \A x \in b..j :
       Cardinality({z \in b..x : Text[z][1] \in DOMAIN EndOf})
         > Cardinality({z \in b..x : Text[z][1] \in Ends})
PropertyLines(b) == {x \in (b + 1)..Len(Text) : \A z \in (b + 1)..x : Text[z][1] \in PropertyKeywords}

(* The conditions the definition at line j is under: its own, and those of *)
(* the blocks around it, out to a choice, which stands for what is around  *)
(* it; and those of every 'visible if' around it.                          *)
Depends(b) ==
  {Text[x][2] : x \in {z \in PropertyLines(b) : Text[z][1] = "depends"}}
DependencyConds(j) ==
  LET near(b) == Encloses(b, j)
                   /\ \A c \in DOMAIN Text : Text[c][1] = "choice" /\ Encloses(c, j) => c <= b
  IN Depends(j) \cup UNION {
       CASE Text[b][1] = "if" -> {Text[b][2]}
         [] Text[b][1] = "choice" -> {<<Text[b][2]>>}
         [] OTHER -> Depends(b) : b \in {x \in DOMAIN Text : near(x)}}
VisibleConds(j) ==
  {Text[x][2] : x \in {z \in UNION {PropertyLines(b) : b \in {c \in DOMAIN Text : Encloses(c, j)}} :
                         Text[z][1] = "visible"}}
PromptConds(j) ==
  LET ps == {x \in PropertyLines(j) :
               Text[x][1] = "prompt" \/ (Text[x][1] = "type" /\ Text[x][3] # <<>>)}
      l == Text[CHOOSE x \in ps : \A z \in ps : z <= x]
      cond == IF l[1] = "prompt" THEN l[2] ELSE l[3][1]
  IN IF ps = {} THEN {} ELSE {cond} \ {<<>>}
Least(S) == IF S = {} THEN 2 ELSE CHOOSE v \in S : \A w \in S : v <= w
LeastValue(conds) == Least({TokenValue(Fresh(kconf), c) : c \in conds})

Definitions == SelectSeq([j \in DOMAIN Text |-> j], LAMBDA j : Text[j][1] \in Defines)

(* The finished tree holds each definition of the file once, in the order  *)
(* of the file, and no 'if' (_finalize_node: implicit submenus, _flatten,  *)
(* _remove_ifs).                                                           *)
TreeKeepsOrder ==
  Unread =>
    LET ns == node_iter(tree.list) IN
    /\ Len(ns) = Len(Definitions)
    /\ \A x \in DOMAIN ns : ns[x].item = Text[Definitions[x]][2]

(* A definition depends on all of what the file puts around it and nothing *)
(* else, and shows its prompt under these conditions, those of 'visible    *)
(* if', and its own (_parse_expr, _propagate_deps).                        *)
ConditionsEnclose ==
  Unread =>
    LET ns == node_iter(tree.list) IN
    \A x \in DOMAIN ns :
      LET j == Definitions[x]
          value(e) == expr_value(Fresh(kconf), e).v
          deps == DependencyConds(j)
          shown == IF ns[x].kind \in {"sym", "choice"}
                   THEN deps \cup VisibleConds(j) \cup PromptConds(j) ELSE deps
      IN /\ value(ns[x].dep) = LeastValue(deps)
         /\ ns[x].prompt # <<>> => value(ns[x].prompt[1]) = LeastValue(shown)

(* The conditions shown to a user read back as what they are, but for      *)
(* those that name a choice, which are not expressions of a Kconfig file   *)
(* (expr_str, "Returns the string representation of the expression 'expr', *)
(* as in a Kconfig file").                                                 *)
PrintedParses ==
  Unread =>
    \A x \in DOMAIN node_iter(tree.list) :
      LET e == node_iter(tree.list)[x].dep IN
      TokenValue(Fresh(kconf), expr_str(kconf.p, e)) =
        IF ItemsIn(e) \cap AllChoices(kconf) # {} THEN -1 ELSE expr_value(Fresh(kconf), e).v

-----------------------------------------------------------------------------
(* A reference for dependency loops: which attributes computing an         *)
(* attribute reads, at most.                                               *)
Reads(p, a) ==
  LET d == p.def[a[1]]
      vals(S) == {<<x, "val">> : x \in S \cap DOMAIN p.def}
      ofChoice(b) == IF d.choice = None THEN {} ELSE {<<d.choice, b>>}
  IN CASE a[2] = "vis" -> vals(Flat(d.prompts)) \cup ofChoice("val")
       [] a[2] = "sel" -> {<<a[1], "val">>} \cup {<<s, "vis">> : s \in ToSet(d.syms)}
                            \cup vals(DependsOn(p, a[1]))
       [] a[2] = "val" -> {<<a[1], "vis">>}
                            \cup (IF a[1] \in ToSet(p.choices) THEN {}
                                 ELSE vals(DependsOn(p, a[1])) \cup ofChoice("sel"))
RECURSIVE ReadsAll(_, _)
ReadsAll(p, S) ==
  LET T == S \cup UNION {Reads(p, a) : a \in S} IN IF T = S THEN S ELSE ReadsAll(p, T)

(* A file is rejected for a dependency loop exactly when computing some    *)
(* value would need the value itself (_check_dep_loop_sym): what is        *)
(* accepted can be computed, what is rejected cannot.                      *)
LoopsRejected ==
  phase \in {"ready", "loop"} =>
    (phase = "loop" <=>
       \E a \in (DOMAIN kconf.p.def) \X {"val", "vis", "sel"} : a \in ReadsAll(kconf.p, Reads(kconf.p, a)))

(* Blocks that are left open or end otherwise, and conditions that are     *)
(* malformed.                                                              *)
Nesting ==
  FoldLeft(LAMBDA open, l :
             IF l[1] \in DOMAIN EndOf THEN Append(open, EndOf[l[1]])
             ELSE IF l[1] \in Ends
             THEN IF open # <<>> /\ Last(open) = l[1] THEN Front(open) ELSE Append(open, "bad")
             ELSE open,
           <<>>, Text)
Malformed ==
  \E j \in DOMAIN Text :
    Text[j][1] \in {"if", "depends", "visible"} /\ TokenValue(New(NoProgram), Text[j][2]) = -1

(* A file is a syntax error exactly when its blocks do not nest or a       *)
(* condition is malformed (_parse_block).                                  *)
SyntaxErrors == phase # "start" => (phase = "syntax" <=> Nesting # <<>> \/ Malformed)

=============================================================================
