---------------------------- MODULE KconfigFile ----------------------------
(***************************************************************************)
(* Configuration files (src/scripts/menuconfig.py: load_config,            *)
(* write_config, write_min_config).                                        *)
(*                                                                         *)
(* A .config file is a sequence of lines, <<"set", name, literal>> for     *)
(* CONFIG_name=literal and <<"unset", name>> for "# CONFIG_name is not     *)
(* set"; comments are left out.  The operators that write yield a value v  *)
(* and what they have cached f, as evaluations do.                         *)
(***************************************************************************)
EXTENDS KconfigTree

CONSTANTS
  Initial    \* literal -> its first character

(* Reading the string values of the symbols in turn, F of each symbol and  *)
(* its value being what is written of those that are written.              *)
Lines(k, syms, F(_, _)) ==
  LET line(acc, s, r) ==
        [v |-> IF ((r.f @@ acc.f) @@ k.cache)[<<s, "write">>] THEN acc.v \o F(s, r.v) ELSE acc.v,
         f |-> r.f @@ acc.f]
  IN FoldLeft(LAMBDA acc, s : line(acc, s, str_value(k, s)), Ret(<<>>), syms)

(* Symbol.config_string                                                    *)
ConfigString_withoutN(k, s, v) ==
  CASE OrigType(k, s) \in BoolTristate /\ v = "n" -> <<>>
    [] OrigType(k, s) = "string" -> << <<"set", s, Quoted[v]>> >>
    [] OTHER -> << <<"set", s, v>> >>
ConfigString(k, s, v) ==
  CASE OrigType(k, s) \in BoolTristate /\ v = "n" -> << <<"unset", s>> >>
    [] OrigType(k, s) = "string" -> << <<"set", s, Quoted[v]>> >>
    [] OTHER -> << <<"set", s, v>> >>

(* _config_contents(): the first definition of each symbol, in order.      *)
config_contents(k) == Lines(k, k.p.syms, LAMBDA s, v : ConfigString(k, s, v))

(* The symbols that are written, with their string values.                 *)
written_values(k) ==
  LET lines == Lines(k, k.p.syms, LAMBDA s, v : << <<s, v>> >>).v IN
  FoldLeft(LAMBDA f, l : With(f, l[1], l[2]), <<>>, lines)

(* _str_default(): the value a symbol would have without a user value.     *)
TriDefault(k, s, v) ==
  Then(expr_value(k, Def(k, s).rev), LAMBDA r :
    Then(expr_value(k, Def(k, s).weak), LAMBDA w :
      IF Max({v, r, w}) # 1 THEN Ret(TRI_TO_STR[Max({v, r, w})])
      ELSE [Type(k, s) EXCEPT !.v = IF @ = "bool" THEN "y" ELSE "m"]))
str_default(k, s) ==
  CASE Def(k, s).type \in BoolTristate ->
         IF Def(k, s).choice # None THEN Ret("n")
         ELSE Then(DefaultOr0(k, Def(k, s)), LAMBDA v : TriDefault(k, s, v))
    [] Def(k, s).type = "unknown" -> Ret("")
    [] OTHER -> [StrDefault(k, Def(k, s)) EXCEPT !.v = IF @ = <<>> THEN "" ELSE @[1]]

(* _min_config_contents(): leaves out the symbols that cannot be changed   *)
(* and the ones that have their default.                                   *)
Omitted_optionalToo(k, s) ==
  LET c == Def(k, s).choice IN
  Then(str_value(k, s), LAMBDA v :
    Then(str_default(k, s), LAMBDA w :
      IF v = w THEN Ret(TRUE)
      ELSE IF c = None THEN Ret(FALSE)
      ELSE [SelectionFromDefaults(k, c) EXCEPT !.v = (@ = s /\ v = "y")]))
AtDefault(k, s) ==
  LET c == Def(k, s).choice IN
  Then(str_value(k, s), LAMBDA v :
    Then(str_default(k, s), LAMBDA w :
      IF v = w THEN Ret(TRUE)
      ELSE IF c = None \/ Def(k, c).optional THEN Ret(FALSE)
      ELSE [SelectionFromDefaults(k, c) EXCEPT
             !.v = (@ = s /\ Def(k, s).type = "bool" /\ v = "y")]))
Omitted(k, s) ==
  Then(IF Def(k, s).choice # None THEN Ret(FALSE)
       ELSE Then(visibility(k, s), LAMBDA vis :
              [expr_value(k, Def(k, s).rev) EXCEPT !.v = (vis <= @)]),
       LAMBDA fixed : IF fixed THEN Ret(TRUE) ELSE AtDefault(k, s))
min_config_contents(k) ==
  Lines(k, SelectSeq(k.p.syms, LAMBDA s : ~Omitted(k, s).v), LAMBDA s, v : ConfigString(k, s, v))

-----------------------------------------------------------------------------
(* _load_config(): one line.  acc holds the Kconfig object k and the items *)
(* whose _was_set is true.  The mode of a choice is inferred from the      *)
(* values assigned to its symbols.                                         *)
LoadLine(acc, l) ==
  LET s == l[2]
      type == OrigType(acc.k, s)
      c == Def(acc.k, s).choice
      literal == IF l[1] = "unset" THEN "n" ELSE l[3]
      initial == Initial[literal]
      assign(k, set, v) ==
        [k |-> set_value(k, s, v),
         set |-> set \cup (IF ~Valid(k, s, v) THEN {}
                           ELSE IF c # None /\ v = 2 THEN {s, c} ELSE {s})]
      tristate ==
        LET v == STR_TO_TRI[initial]
            mode == c # None /\ v # 0
        IN assign(IF mode THEN set_value(acc.k, c, v) ELSE acc.k,
                  IF mode /\ Valid(acc.k, c, v) THEN acc.set \cup {c} ELSE acc.set, v)
  IN IF s \notin AllSymbols(acc.k) THEN [acc EXCEPT !.k.missing = TRUE]
     ELSE CASE type \in BoolTristate ->
                 IF initial \in (IF type = "bool" THEN {"n", "y"} ELSE {"n", "m", "y"})
                 THEN tristate ELSE acc
            [] type = "string" /\ l[1] = "set" ->
                 IF literal \in DOMAIN Unquoted THEN assign(acc.k, acc.set, Unquoted[literal]) ELSE acc
            [] type \in {"int", "hex"} /\ l[1] = "set" -> assign(acc.k, acc.set, literal)
            [] OTHER -> acc

(* load_config(): with replace, what the file has not set is unset.        *)
load_config_keepsChoices(k, file, replace) ==
  LET end == FoldLeft(LoadLine, [k |-> [k EXCEPT !.missing = @ /\ ~replace], set |-> {}], file)
      rest == SelectSeq(k.p.syms, LAMBDA i : i \notin end.set)
  IN IF replace THEN FoldLeft(unset_value, end.k, rest) ELSE end.k
load_config(k, file, replace) ==
  LET unset(end) ==
        FoldLeft(unset_value, end.k,
                 SelectSeq(k.p.syms \o k.p.choices, LAMBDA i : replace /\ i \notin end.set))
  IN unset(FoldLeft(LoadLine, [k |-> [k EXCEPT !.missing = @ /\ ~replace], set |-> {}], file))

=============================================================================
