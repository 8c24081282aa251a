--------------------------- MODULE KconfigValues ---------------------------
(***************************************************************************)
(* Symbol and choice values of the configuration tool                      *)
(* (src/scripts/menuconfig.py: classes Symbol and Choice, expr_value,      *)
(* _visibility and the invalidation of cached values).                     *)
(*                                                                         *)
(* The operators work on the state of a Kconfig object, a record k:        *)
(*   k.p      what parsing produced: p.syms and p.choices (in definition   *)
(*            order) and p.def, the properties of each of them             *)
(*   k.user   item -> user_value, for the items that have one              *)
(*   k.sel    choice -> user_selection, for the choices that have one      *)
(*   k.missing  whether a loaded file has assigned an undefined symbol     *)
(*   k.cache  <<item, attribute>> -> cached value, for the attributes that *)
(*            are cached: "vis", "tri", "str", "assign", "sel"; and        *)
(*            <<symbol, "write">> -> _write_to_conf                        *)
(*                                                                         *)
(* n, m and y are 0, 1 and 2.  A name that k.p does not define is a        *)
(* constant or an undefined symbol, whose string value is its name.        *)
(***************************************************************************)
EXTENDS Integers, Sequences, FiniteSets, TLC, KconfigLiterals

CONSTANTS
  Number,   \* base -> literal -> the integer int(literal, base) is
  Numeral,  \* type -> integer -> the literal str() or hex() makes of it
  Order     \* the literals, in the order string comparison puts them

LOCAL Lesser(a, b) == IF a < b THEN a ELSE b
LOCAL Greater(a, b) == IF a > b THEN a ELSE b

None == "none"
TRI_TO_STR == [v \in 0..2 |-> <<"n", "m", "y">>[v + 1]]
STR_TO_TRI == [s \in {"n", "m", "y"} |-> CHOOSE v \in 0..2 : TRI_TO_STR[v] = s]

Def(k, i) == k.p.def[i]
Defined(k, i) == i \in DOMAIN k.p.def
AllSymbols(k) == {k.p.syms[j] : j \in DOMAIN k.p.syms}
AllChoices(k) == {k.p.choices[j] : j \in DOMAIN k.p.choices}
OrigType(k, i) ==
  CASE Defined(k, i) -> Def(k, i).type
    [] i \in DOMAIN STR_TO_TRI -> "tristate"
    [] OTHER -> "unknown"

(* The values a Kconfig object starts with.                                *)
New(p) ==
  [p |-> p, user |-> <<>>, sel |-> <<>>, missing |-> FALSE,
   cache |-> [a \in {<<p.syms[j], "write">> : j \in DOMAIN p.syms} |-> FALSE]]

-----------------------------------------------------------------------------
(* An evaluation yields a value v and the cached attributes f it has       *)
(* filled on the way: which ones depends on the path taken.  Then is an    *)
(* evaluation that goes on with the value of another one.                  *)
Ret(v) == [v |-> v, f |-> <<>>]
After(r, next) == [v |-> next.v, f |-> next.f @@ r.f]
Then(r, F(_)) == After(r, F(r.v))

IsBaseN(s, base) == s \in DOMAIN Number[base]
Base(type) == IF type = "hex" THEN 16 ELSE IF type = "int" THEN 10 ELSE 0
IntOrZero(s, base) == IF IsBaseN(s, base) THEN Number[base][s] ELSE 0
Rank(s) == CHOOSE j \in DOMAIN Order : Order[j] = s
Holds(rel, d) ==
  CASE rel = "=" -> d = 0 [] rel = "!=" -> d # 0 [] rel = "<" -> d < 0
    [] rel = "<=" -> d <= 0 [] rel = ">" -> d > 0 [] rel = ">=" -> d >= 0

RECURSIVE expr_value(_, _), Value(_, _, _), First(_, _, _), Splits(_, _), Selectors(_, _, _)

(* A cached attribute is returned; another one is computed and cached.     *)
Cached(k, i, a, r) ==
  IF <<i, a>> \in DOMAIN k.cache THEN Ret(k.cache[<<i, a>>])
  ELSE [v |-> r.v, f |-> (<<i, a>> :> r.v) @@ r.f]

Attribute(k, i, a) ==
  IF Defined(k, i) THEN Value(k, i, a)
  ELSE Ret(CASE a = "str" -> i
             [] a = "tri" /\ i \in DOMAIN STR_TO_TRI -> STR_TO_TRI[i]
             [] OTHER -> 0)
tri_value(k, i) == Attribute(k, i, "tri")
str_value(k, i) == Attribute(k, i, "str")
visibility(k, i) == Attribute(k, i, "vis")

(* Relations compare numbers when both operands are numbers, n, m and y    *)
(* counting as 0, 1 and 2, and strings otherwise.                          *)
SymToNum(k, i) ==
  LET isTri == OrigType(k, i) \in BoolTristate
      b == Base(OrigType(k, i))
  IN [Attribute(k, i, IF isTri THEN "tri" ELSE "str") EXCEPT
       !.v = IF isTri THEN <<TRUE, @>> ELSE <<IsBaseN(@, b), IntOrZero(@, b)>>]
Strcmp(k, a, b) ==
  Then(str_value(k, a), LAMBDA s : [str_value(k, b) EXCEPT !.v = Rank(s) - Rank(@)])
Difference(k, a, b) ==
  IF OrigType(k, a) = "string" /\ OrigType(k, b) = "string" THEN Ret(<<FALSE, 0>>)
  ELSE Then(SymToNum(k, a), LAMBDA x :
         IF ~x[1] THEN Ret(x)
         ELSE [SymToNum(k, b) EXCEPT !.v = <<@[1], x[2] - @[2]>>])
Compare(k, a, b) ==
  Then(Difference(k, a, b), LAMBDA d : IF d[1] THEN Ret(d[2]) ELSE Strcmp(k, a, b))

(* Expressions are <<"sym", item>>, <<"and", e, f>>, <<"or", e, f>>,       *)
(* <<"not", e>> and <<relation, item, item>>.                              *)
expr_value(k, e) ==
  CASE e[1] = "sym" -> tri_value(k, e[2])
    [] e[1] = "and" -> Then(expr_value(k, e[2]), LAMBDA v :
         IF v = 0 THEN Ret(0)
         ELSE [expr_value(k, e[3]) EXCEPT !.v = Lesser(v, @)])
    [] e[1] = "or"  -> Then(expr_value(k, e[2]), LAMBDA v :
         IF v = 2 THEN Ret(2)
         ELSE [expr_value(k, e[3]) EXCEPT !.v = Greater(v, @)])
    [] e[1] = "not" -> [expr_value(k, e[2]) EXCEPT !.v = 2 - @]
    [] OTHER -> [Compare(k, e[2], e[3]) EXCEPT !.v = IF Holds(e[1], @) THEN 2 ELSE 0]

(* The first of the properties ps, from the j-th on, whose condition (its  *)
(* last part) is not n: its index, or 0, and the condition's value.        *)
First(k, ps, j) ==
  IF j > Len(ps) THEN Ret(<<0, 0>>)
  ELSE Then(expr_value(k, ps[j][Len(ps[j])]), LAMBDA v :
         IF v # 0 THEN Ret(<<j, v>>) ELSE First(k, ps, j + 1))

(* The largest value of the conditions es.                                 *)
RECURSIVE Largest(_, _)
Largest(k, es) ==
  IF es = <<>> THEN Ret(0)
  ELSE Then(expr_value(k, Head(es)), LAMBDA v :
         [Largest(k, Tail(es)) EXCEPT !.v = Greater(v, @)])

-----------------------------------------------------------------------------
(* Symbol.type, Choice.type                                                *)
Type(k, i) ==
  IF OrigType(k, i) # "tristate" THEN Ret(OrigType(k, i))
  ELSE Then(IF Def(k, i).choice = None THEN Ret(0) ELSE Value(k, Def(k, i).choice, "mode"),
            LAMBDA v : IF v = 2 THEN Ret("bool")
                       ELSE [tri_value(k, "MODULES") EXCEPT
                              !.v = IF @ = 0 THEN "bool" ELSE "tristate"])

(* m becomes y for what is not a tristate now, and for a symbol that is    *)
(* implied to y.                                                           *)
Promoted_withoutImply(k, i, v) ==
  IF v # 1 THEN Ret(v)
  ELSE [Type(k, i) EXCEPT !.v = IF @ = "bool" THEN 2 ELSE 1]
Promoted(k, i, v) ==
  IF v # 1 THEN Ret(v)
  ELSE Then(Type(k, i), LAMBDA t :
         IF t = "bool" THEN Ret(2)
         ELSE [expr_value(k, Def(k, i).weak) EXCEPT !.v = IF @ = 2 THEN 2 ELSE 1])

(* _visibility(): the largest prompt condition.  Choice symbols are hidden *)
(* in a mode that they cannot have: one that is not a tristate when the    *)
(* choice is in m mode, one that is only m when it is in y mode.           *)
HiddenByMode(k, i, vis) ==
  LET d == Def(k, i)
      onlyY == d.type # "tristate" /\ OrigType(k, d.choice) = "tristate"
      onlyM == d.type = "tristate" /\ vis = 1
  IN IF d.choice # None /\ (onlyY \/ onlyM)
     THEN [Value(k, d.choice, "mode") EXCEPT !.v = (onlyM <=> @ = 2)]
     ELSE Ret(FALSE)
Visibility(k, i) ==
  Then(Largest(k, Def(k, i).prompts), LAMBDA v :
    Then(HiddenByMode(k, i, v), LAMBDA hidden :
      IF hidden THEN Ret(0)
      ELSE IF v # 1 THEN Ret(v)
      ELSE [Type(k, i) EXCEPT !.v = IF @ = "tristate" THEN 1 ELSE 2]))

(* _warn_select_unsatisfied_deps() prints what it evaluates: the selects   *)
(* that exceed the direct dependencies, and their symbols.                 *)
Splits(e, op) == IF e[1] = op THEN Splits(e[2], op) \o Splits(e[3], op) ELSE <<e>>
Described(k, by, e) ==
  Then(str_value(k, by), LAMBDA s :
    Then(expr_value(k, Def(k, by).direct), LAMBDA v :
      IF e[1] = "and" THEN expr_value(k, e[3]) ELSE Ret(0)))
Selectors(k, i, es) ==
  IF es = <<>> THEN Ret(0)
  ELSE Then(expr_value(k, Head(es)), LAMBDA v :
         Then(expr_value(k, Def(k, i).direct), LAMBDA w :
           Then(IF v <= w THEN Ret(0)
                ELSE Described(k, Splits(Head(es), "and")[1][2], Head(es)),
                LAMBDA x : Selectors(k, i, Tail(es)))))

UnsatisfiedDeps(k, i, r) ==
  Then(expr_value(k, Def(k, i).direct), LAMBDA d :
    IF d < r THEN Selectors(k, i, Splits(Def(k, i).rev, "or")) ELSE Ret(0))

(* What select makes of the value v[1] and _write_to_conf v[2].            *)
Selected(k, i, v) ==
  Then(expr_value(k, Def(k, i).rev), LAMBDA r :
    IF r = 0 THEN Ret(v)
    ELSE [UnsatisfiedDeps(k, i, r) EXCEPT !.v = <<Greater(r, v[1]), TRUE>>])

(* What defaults and implies give a symbol, written to .config or not.     *)
Implied(k, d, v) ==
  Then(expr_value(k, d.weak), LAMBDA w :
    IF w = 0 THEN Ret(v)
    ELSE [expr_value(k, d.direct) EXCEPT
           !.v = IF @ = 0 THEN v ELSE <<Greater(w, v[1]), TRUE>>])
DefaultOr0(k, d) ==
  Then(First(k, d.defaults, 1), LAMBDA c :
    IF c[1] = 0 THEN Ret(0)
    ELSE [expr_value(k, d.defaults[c[1]][1]) EXCEPT !.v = Lesser(@, c[2])])
Defaulted(k, i, vis) ==
  Then(DefaultOr0(k, Def(k, i)), LAMBDA v : Implied(k, Def(k, i), <<v, vis # 0 \/ v # 0>>))

(* Symbol.tri_value: the value and _write_to_conf.                         *)
UserOrDefault(k, i, vis) ==
  IF vis # 0 /\ i \in DOMAIN k.user THEN Ret(<<Lesser(k.user[i], vis), TRUE>>)
  ELSE Defaulted(k, i, vis)
TriValue(k, i) ==
  Then(visibility(k, i), LAMBDA vis :
    IF Def(k, i).choice = None
    THEN Then(UserOrDefault(k, i, vis), LAMBDA v :
           Then(Selected(k, i, v), LAMBDA w :
             [Promoted(k, i, w[1]) EXCEPT !.v = <<@, w[2]>>]))
    ELSE IF vis = 2
    THEN [Value(k, Def(k, i).choice, "sel") EXCEPT !.v = <<IF @ = i THEN 2 ELSE 0, TRUE>>]
    ELSE Ret(<<IF vis # 0 /\ i \in DOMAIN k.user /\ k.user[i] # 0 THEN 1 ELSE 0, vis # 0>>))

(* The active default of a symbol that is not a bool or tristate, or       *)
(* nothing, and its active range.                                          *)
StrDefault(k, d) ==
  Then(First(k, d.defaults, 1), LAMBDA c :
    IF c[1] = 0 THEN Ret(<<>>)
    ELSE [str_value(k, d.defaults[c[1]][1][2]) EXCEPT !.v = <<@>>])
ActiveRange(k, d) ==
  Then(First(k, d.ranges, 1), LAMBDA c :
    IF c[1] = 0 THEN Ret(<<>>)
    ELSE Then(str_value(k, d.ranges[c[1]][1]), LAMBDA lo :
           [str_value(k, d.ranges[c[1]][2]) EXCEPT
             !.v = <<IntOrZero(lo, Base(d.type)), IntOrZero(@, Base(d.type))>>]))

(* Symbol.str_value: of int and hex symbols, a user value outside the      *)
(* active range is ignored, a default outside it is clamped.               *)
Fits(num, r) == r = <<>> \/ (r[1] <= num /\ num <= r[2])
Clamped(s, type, r) ==
  LET num == IntOrZero(s, Base(type)) IN
  IF Fits(num, r) THEN s ELSE Numeral[type][IF num < r[1] THEN r[1] ELSE r[2]]
NumValue(k, i, vis) ==
  LET d == Def(k, i) IN
  Then(ActiveRange(k, d), LAMBDA r :
    IF vis # 0 /\ i \in DOMAIN k.user /\ Fits(Number[Base(d.type)][k.user[i]], r)
    THEN Ret(<<k.user[i], TRUE>>)
    ELSE [StrDefault(k, d) EXCEPT
           !.v = IF @ = <<>> THEN <<Clamped("", d.type, r), vis # 0>>
                 ELSE <<Clamped(@[1], d.type, r), TRUE>>])
StringValue(k, i, vis) ==
  IF vis # 0 /\ i \in DOMAIN k.user THEN Ret(<<k.user[i], TRUE>>)
  ELSE [StrDefault(k, Def(k, i)) EXCEPT !.v = IF @ = <<>> THEN <<"", vis # 0>> ELSE <<@[1], TRUE>>]
StrValue(k, i) ==
  Then(visibility(k, i), LAMBDA vis :
    [IF Def(k, i).type = "string" THEN StringValue(k, i, vis) ELSE NumValue(k, i, vis)
     EXCEPT !.v = <<@[1], @[2] /\ ~Def(k, i).env>>])

(* Choice.tri_value                                                        *)
Mode(k, i) ==
  LET d == Def(k, i)
      least == IF d.optional THEN 0 ELSE 1
      want == IF i \in DOMAIN k.user THEN Greater(least, k.user[i]) ELSE least
  IN Then(visibility(k, i), LAMBDA vis :
       IF Lesser(want, vis) # 1 THEN Ret(Lesser(want, vis))
       ELSE [Type(k, i) EXCEPT !.v = IF @ = "bool" THEN 2 ELSE 1])

(* Choice.selection: the user's, when visible, or a visible default, or    *)
(* the first visible symbol.                                               *)
RECURSIVE FirstVisible(_, _)
FirstVisible(k, ss) ==
  IF ss = <<>> THEN Ret(None)
  ELSE Then(visibility(k, Head(ss)), LAMBDA v :
         IF v # 0 THEN Ret(Head(ss)) ELSE FirstVisible(k, Tail(ss)))
RECURSIVE DefaultSelection(_, _, _)
DefaultSelection(k, i, ds) ==
  IF ds = <<>> THEN FirstVisible(k, Def(k, i).syms)
  ELSE Then(expr_value(k, Head(ds)[2]), LAMBDA c :
         IF c = 0 THEN DefaultSelection(k, i, Tail(ds))
         ELSE Then(visibility(k, Head(ds)[1][2]), LAMBDA v :
                IF v # 0 THEN Ret(Head(ds)[1][2]) ELSE DefaultSelection(k, i, Tail(ds))))
SelectionFromDefaults(k, i) == DefaultSelection(k, i, Def(k, i).defaults)
UserVisibility(k, i) == IF i \in DOMAIN k.sel THEN visibility(k, k.sel[i]) ELSE Ret(0)
Selection_ofUserOnly(k, i) ==
  [Value(k, i, "mode") EXCEPT
    !.v = IF @ = 2 /\ i \in DOMAIN k.sel THEN k.sel[i] ELSE None]
Selection(k, i) ==
  Then(Value(k, i, "mode"), LAMBDA mode :
    IF mode # 2 THEN Ret(None)
    ELSE Then(UserVisibility(k, i), LAMBDA v :
           IF v # 0 THEN Ret(k.sel[i]) ELSE SelectionFromDefaults(k, i)))

(* Symbol.assignable, Choice.assignable: the values a user can give.       *)
NeverM(k, i) ==
  Then(Type(k, i), LAMBDA t :
    IF t = "bool" THEN Ret(TRUE) ELSE [expr_value(k, Def(k, i).weak) EXCEPT !.v = (@ = 2)])
SymAssignable(k, i, vis, r) ==
  IF r = 2 \/ (vis = 2 /\ Def(k, i).choice # None) THEN Ret({2})
  ELSE IF vis = 2
  THEN [NeverM(k, i) EXCEPT !.v = {2} \cup (IF @ THEN {} ELSE {1}) \cup (IF r = 0 THEN {0} ELSE {})]
  ELSE IF r = 1 THEN Ret({1})
  ELSE [expr_value(k, Def(k, i).weak) EXCEPT !.v = {0, IF @ = 2 THEN 2 ELSE 1}]
ChoiceAssignable(k, i, vis) ==
  LET none == IF Def(k, i).optional THEN {0} ELSE {} IN
  IF vis = 1 THEN Ret(none \cup {1})
  ELSE [Type(k, i) EXCEPT !.v = none \cup (IF @ = "bool" THEN {2} ELSE {1, 2})]
Assignable(k, i) ==
  IF OrigType(k, i) \notin BoolTristate /\ i \in AllSymbols(k) THEN Ret({})
  ELSE Then(visibility(k, i), LAMBDA vis :
         IF vis = 0 THEN Ret({})
         ELSE IF i \in AllChoices(k) THEN ChoiceAssignable(k, i, vis)
         ELSE Then(expr_value(k, Def(k, i).rev), LAMBDA r : SymAssignable(k, i, vis, r)))

(* The value of an attribute, from the cache or computed; computing a      *)
(* symbol's value also decides _write_to_conf.                             *)
Written(i, a, r) == [v |-> r.v[1], f |-> (<<i, "write">> :> r.v[2]) @@ r.f]
Value(k, i, a) ==
  CASE a = "mode" \/ (a = "tri" /\ i \in AllChoices(k)) -> Mode(k, i)
    [] a = "vis" -> Cached(k, i, a, Visibility(k, i))
    [] a = "assign" -> Cached(k, i, a, Assignable(k, i))
    [] a = "sel" -> Cached(k, i, a, Selection(k, i))
    [] a = "tri" -> Cached(k, i, a, IF OrigType(k, i) \in BoolTristate
                                    THEN Written(i, a, TriValue(k, i)) ELSE Ret(0))
    [] a = "str" -> Cached(k, i, a,
                      CASE OrigType(k, i) \in BoolTristate ->
                             [Value(k, i, "tri") EXCEPT !.v = TRI_TO_STR[@]]
                        [] OrigType(k, i) = "unknown" -> Ret(i)
                        [] OTHER -> Written(i, a, StrValue(k, i)))

(* Reading an attribute leaves what it has cached.                         *)
Read(k, i, a) == [k EXCEPT !.cache = Value(k, i, a).f @@ @]

-----------------------------------------------------------------------------
(* _build_dep() and _add_choice_deps(): the items whose values may change  *)
(* with the value of i.                                                    *)
RECURSIVE ItemsIn(_)
ItemsIn(e) ==
  CASE e[1] = "sym" -> {e[2]}
    [] e[1] = "not" -> ItemsIn(e[2])
    [] e[1] \in {"and", "or"} -> ItemsIn(e[2]) \cup ItemsIn(e[3])
    [] OTHER -> {e[2], e[3]}
Flat(ps) == UNION {ItemsIn(ps[j]) : j \in DOMAIN ps}
DependsOn(p, i) ==
  LET d == p.def[i]
      conds(ps) == UNION {ItemsIn(ps[j][Len(ps[j])]) : j \in DOMAIN ps}
  IN IF i \in {p.choices[j] : j \in DOMAIN p.choices}
     THEN Flat(d.prompts) \cup conds(d.defaults)
     ELSE Flat(d.prompts) \cup conds(d.defaults) \cup conds(d.ranges)
          \cup Flat([j \in DOMAIN d.defaults |-> d.defaults[j][1]])
          \cup UNION {{d.ranges[j][1], d.ranges[j][2]} : j \in DOMAIN d.ranges}
          \cup ItemsIn(d.rev) \cup ItemsIn(d.weak) \cup ItemsIn(d.direct)
Dependents(p) ==
  [i \in DOMAIN p.def |->
     {j \in DOMAIN p.def : i \in DependsOn(p, j)}
       \cup (IF p.def[i].choice = None THEN {} ELSE {p.def[i].choice})]

(* _rec_invalidate(): invalidation goes from an item to its dependents and *)
(* stops at those that have no cached visibility; MODULES invalidates      *)
(* everything.                                                             *)
Affected_once(k, S) ==
  S \cup {j \in UNION {k.p.dependents[i] : i \in S} : <<j, "vis">> \in DOMAIN k.cache}
RECURSIVE Affected(_, _)
Affected(k, S) ==
  LET next == {j \in UNION {k.p.dependents[i] : i \in S} : <<j, "vis">> \in DOMAIN k.cache}
  IN IF "MODULES" \in S THEN DOMAIN k.p.def
     ELSE IF next \subseteq S THEN S ELSE Affected(k, S \cup next)
Invalidated(k, S) ==
  [k EXCEPT !.cache = [a \in {b \in DOMAIN @ : b[1] \in S => b[2] = "write"} |-> @[a]]]
rec_invalidate(k, i) == Invalidated(k, Affected(k, {i}))
rec_invalidate_if_has_prompt(k, i) ==
  IF Def(k, i).prompts = <<>> THEN k ELSE rec_invalidate(k, i)

-----------------------------------------------------------------------------
With(f, x, v) == (x :> v) @@ f
Without(f, x) == [y \in DOMAIN f \ {x} |-> f[y]]
Is(f, x, v) == x \in DOMAIN f /\ f[x] = v

(* Symbol.set_value(): v is a value of the symbol's kind; one that is      *)
(* invalid for its type is ignored.  (_was_set matters to load_config()    *)
(* alone, and is with it.)                                                 *)
Valid(k, i, v) ==
  CASE OrigType(k, i) = "bool" -> v \in {0, 2}
    [] OrigType(k, i) = "tristate" -> v \in {0, 1, 2}
    [] OrigType(k, i) = "string" -> TRUE
    [] OrigType(k, i) = "int" -> IsBaseN(v, 10)
    [] OrigType(k, i) = "hex" -> IsBaseN(v, 16) /\ Number[16][v] >= 0
    [] OTHER -> FALSE
SymSetValue(k, i, v) ==
  LET c == Def(k, i).choice
      s == [k EXCEPT !.user = With(@, i, v)]
  IN IF (Is(k.user, i, v) /\ c = None) \/ ~Valid(k, i, v) THEN k
     ELSE IF c # None /\ v = 2
     THEN rec_invalidate([s EXCEPT !.sel = With(@, c, i)], c)
     ELSE rec_invalidate_if_has_prompt(s, i)

(* Choice.set_value()                                                      *)
ChoiceSetValue(k, i, v) ==
  IF Is(k.user, i, v) \/ ~Valid(k, i, v) THEN k
  ELSE rec_invalidate([k EXCEPT !.user = With(@, i, v)], i)
set_value(k, i, v) == IF i \in AllChoices(k) THEN ChoiceSetValue(k, i, v) ELSE SymSetValue(k, i, v)

(* Symbol.unset_value(), Choice.unset_value()                              *)
unset_value(k, i) ==
  IF i \in AllChoices(k)
  THEN IF i \notin DOMAIN k.user /\ i \notin DOMAIN k.sel THEN k
       ELSE rec_invalidate([k EXCEPT !.user = Without(@, i), !.sel = Without(@, i)], i)
  ELSE IF i \notin DOMAIN k.user THEN k
       ELSE rec_invalidate_if_has_prompt([k EXCEPT !.user = Without(@, i)], i)

=============================================================================
