---------------------------- MODULE KconfigTree ----------------------------
(***************************************************************************)
(* From the lines of Kconfig files to the menu tree and the properties of  *)
(* symbols and choices (src/scripts/menuconfig.py: Kconfig._init,          *)
(* _parse_block, _parse_props, _parse_expr, _finalize_node, _build_dep and *)
(* _check_dep_loop_sym).                                                   *)
(*                                                                         *)
(* A file is a sequence of tokenized lines.  The first part of a line is   *)
(* its keyword:                                                            *)
(*   <<"config", name>>, <<"menuconfig", name>>, <<"choice", name>>,       *)
(*   <<"menu", name>>, <<"comment", name>>, <<"if", tokens>>,              *)
(*   <<"endchoice">>, <<"endmenu">>, <<"endif">>, <<"mainmenu">>,          *)
(*   <<"source", obligatory, files>>, each file a sequence of lines;       *)
(*   <<"type", type, prompts>>, prompts empty or one condition,            *)
(*   <<"prompt", cond>>, <<"depends", tokens>>, <<"visible", tokens>>,     *)
(*   <<"default", tokens, cond>>, <<"def", type, tokens, cond>>,           *)
(*   <<"select", name, cond>>, <<"imply", name, cond>>,                    *)
(*   <<"range", low, high, cond>>, <<"optional">>, <<"env", value>>.       *)
(* A condition is the tokens after "if", none when there is no "if".       *)
(* Left out are 'option' lines other than env (modules, defconfig_list,    *)
(* allnoconfig_y, which no value in this repository depends on) and        *)
(* environment variables that are not set, which is a warning.             *)
(***************************************************************************)
EXTENDS KconfigValues, SequencesExt

y == <<"sym", "y">>
n == <<"sym", "n">>
m == <<"sym", "m">>

(* _make_and(), _make_or()                                                 *)
make_and(e, f) ==
  CASE e = y -> f
    [] e # y /\ f = y -> e
    [] e # y /\ f # y /\ n \in {e, f} -> n
    [] OTHER -> <<"and", e, f>>
make_or(e, f) ==
  CASE e = n -> f
    [] e # n /\ f = n -> e
    [] e # n /\ f # n /\ y \in {e, f} -> y
    [] OTHER -> <<"or", e, f>>

-----------------------------------------------------------------------------
(* Expressions.  A parse yields ok, the expression and the next token.     *)
Relations == {"=", "!=", "<", "<=", ">", ">="}
Punctuation == Relations \cup {"&&", "||", "!", "(", ")"}
Bad == [ok |-> FALSE, e |-> n, i |-> 0]
Parsed(e, i) == [ok |-> TRUE, e |-> e, i |-> i]
TokenAt(ts, i, t) == i <= Len(ts) /\ ts[i] = t
SymAt(ts, i) == i <= Len(ts) /\ ts[i] \notin Punctuation

(* e op f, of the operands r and s.                                        *)
Joined(op, r, s) == IF s.ok THEN Parsed(<<op, r.e, s.e>>, s.i) ELSE Bad

RECURSIVE parse_expr(_, _, _), parse_and_expr(_, _, _), parse_factor(_, _, _)
parse_factor(ts, i, transform_m) ==
  LET negation(r) == IF r.ok THEN Parsed(<<"not", r.e>>, r.i) ELSE Bad
      closed(r) == IF r.ok /\ TokenAt(ts, r.i, ")") THEN Parsed(r.e, r.i + 1) ELSE Bad
  IN IF SymAt(ts, i)
     THEN IF i < Len(ts) /\ ts[i + 1] \in Relations
          THEN IF SymAt(ts, i + 2) THEN Parsed(<<ts[i + 1], ts[i], ts[i + 2]>>, i + 3) ELSE Bad
          ELSE Parsed(IF transform_m /\ ts[i] = "m" THEN <<"and", m, <<"sym", "MODULES">>>>
                      ELSE <<"sym", ts[i]>>, i + 1)
     ELSE IF TokenAt(ts, i, "!") THEN negation(parse_factor(ts, i + 1, transform_m))
     ELSE IF TokenAt(ts, i, "(") THEN closed(parse_expr(ts, i + 1, transform_m))
     ELSE Bad
parse_and_expr(ts, i, transform_m) ==
  LET and(r) == IF r.ok /\ TokenAt(ts, r.i, "&&")
                THEN Joined("and", r, parse_and_expr(ts, r.i + 1, transform_m)) ELSE r
  IN and(parse_factor(ts, i, transform_m))
parse_expr(ts, i, transform_m) ==
  LET or(r) == IF r.ok /\ TokenAt(ts, r.i, "||")
               THEN Joined("or", r, parse_expr(ts, r.i + 1, transform_m)) ELSE r
  IN or(parse_and_expr(ts, i, transform_m))

(* _expect_expr_and_eol(), and _parse_cond(): y when there is no "if".     *)
ExprAndEol_ignoresRest(ts, transform_m) == parse_expr(ts, 1, transform_m)
ExprAndEol(ts, transform_m) ==
  LET eol(r) == IF r.ok /\ r.i = Len(ts) + 1 THEN r ELSE Bad
  IN eol(parse_expr(ts, 1, transform_m))
parse_cond(ts) == IF ts = <<>> THEN Parsed(y, 1) ELSE ExprAndEol(ts, TRUE)

(* expr_str(), _parenthesize() and standard_sc_expr_str(): the tokens of   *)
(* an expression.  A quoted constant is a token like a name, and is        *)
(* printed as it was read; of a choice, which no expression of a file can  *)
(* name but which stands in the conditions of its symbols, <choice name>   *)
(* is printed.                                                             *)
sc_expr_str(p, i) == IF i \in ToSet(p.choices) THEN <<"<", "choice", i, ">">> ELSE <<i>>
RECURSIVE expr_str(_, _)
parenthesize_never(p, e, op) == expr_str(p, e)
parenthesize(p, e, op) ==
  IF e[1] = op THEN <<"(">> \o expr_str(p, e) \o <<")">> ELSE expr_str(p, e)
expr_str(p, e) ==
  CASE e[1] = "sym" -> sc_expr_str(p, e[2])
    [] e[1] = "and" -> parenthesize(p, e[2], "or") \o <<"&&">> \o parenthesize(p, e[3], "or")
    [] e[1] = "or"  -> parenthesize(p, e[2], "and") \o <<"||">> \o parenthesize(p, e[3], "and")
    [] e[1] = "not" -> IF e[2][1] = "sym" THEN <<"!">> \o expr_str(p, e[2])
                       ELSE <<"!", "(">> \o expr_str(p, e[2]) \o <<")">>
    [] OTHER -> sc_expr_str(p, e[2]) \o <<e[1]>> \o sc_expr_str(p, e[3])

-----------------------------------------------------------------------------
(* MenuNode: kind is "sym", "choice", "menu", "comment" or "if"; prompt    *)
(* holds the prompt's condition, when there is a prompt.                   *)
Node(kind, item) ==
  [kind |-> kind, item |-> item, is_menuconfig |-> kind \in {"menu", "choice"},
   prompt |-> IF kind \in {"menu", "comment"} THEN <<y>> ELSE <<>>,
   dep |-> y, visibility |-> y, type |-> "unknown", optional |-> FALSE, env |-> FALSE,
   defaults |-> <<>>, ranges |-> <<>>, selects |-> <<>>, implies |-> <<>>, list |-> <<>>]

PropertyKeywords ==
  {"type", "prompt", "depends", "visible", "default", "def", "select", "imply", "range",
   "optional", "env"}

(* A property line: its condition and its expression, when it has one, and *)
(* the node with the property.                                             *)
Condition(l) ==
  CASE l[1] = "type" -> IF l[3] = <<>> THEN Parsed(y, 1) ELSE parse_cond(l[3][1])
    [] l[1] \in {"depends", "visible", "optional", "env"} -> Parsed(y, 1)
    [] OTHER -> parse_cond(l[Len(l)])
Expression(l) ==
  CASE l[1] \in {"depends", "visible"} -> ExprAndEol(l[2], TRUE)
    [] l[1] = "default" -> ExprAndEol(l[2], FALSE)
    [] l[1] = "def" -> ExprAndEol(l[3], FALSE)
    [] OTHER -> Parsed(y, 1)
WithProperty(node, l, c, e) ==
  CASE l[1] = "type" ->
         [node EXCEPT !.type = l[2], !.prompt = IF l[3] = <<>> THEN @ ELSE <<c>>]
    [] l[1] = "prompt" -> [node EXCEPT !.prompt = <<c>>]
    [] l[1] = "depends" -> [node EXCEPT !.dep = make_and(@, e)]
    [] l[1] = "visible" -> [node EXCEPT !.visibility = make_and(@, e)]
    [] l[1] = "default" -> [node EXCEPT !.defaults = Append(@, <<e, c>>)]
    [] l[1] = "def" -> [node EXCEPT !.type = l[2], !.defaults = Append(@, <<e, c>>)]
    [] l[1] = "select" -> [node EXCEPT !.selects = Append(@, <<l[2], c>>)]
    [] l[1] = "imply" -> [node EXCEPT !.implies = Append(@, <<l[2], c>>)]
    [] l[1] = "range" -> [node EXCEPT !.ranges = Append(@, <<l[2], l[3], c>>)]
    [] l[1] = "optional" -> [node EXCEPT !.optional = TRUE]
    [] l[1] = "env" ->
         [node EXCEPT !.env = TRUE, !.defaults = Append(@, <<<<"sym", l[2]>>, y>>)]
Property(node, l) ==
  LET allowed == CASE l[1] \in {"select", "imply"} -> node.kind = "sym"
                   [] l[1] = "optional" -> node.kind = "choice"
                   [] OTHER -> TRUE
      put(c, e) == [ok |-> c.ok /\ e.ok /\ allowed, node |-> WithProperty(node, l, c.e, e.e)]
  IN put(Condition(l), Expression(l))

(* _parse_props(): the lines from the i-th on, up to one that is not a     *)
(* property.                                                               *)
RECURSIVE parse_props(_, _, _)
parse_props(ls, i, node) ==
  IF i > Len(ls) \/ ls[i][1] \notin PropertyKeywords
  THEN [ok |-> TRUE, node |-> node, i |-> i]
  ELSE LET next(p) == IF p.ok THEN parse_props(ls, i + 1, p.node)
                      ELSE [ok |-> FALSE, node |-> node, i |-> i]
       IN next(Property(node, ls[i]))

(* _parse_block(): the nodes of the lines from the i-th on, up to the end  *)
(* keyword of the block; a file ends with its last line.  Entry is what    *)
(* begins at one line: a leaf, a block with its nodes, or other files.     *)
Failed == [ok |-> FALSE, nodes |-> <<>>, i |-> 0]
Leaf(p) == IF p.ok THEN [ok |-> TRUE, nodes |-> <<p.node>>, i |-> p.i] ELSE Failed
Enclosing(node, b) ==
  IF b.ok THEN [b EXCEPT !.nodes = <<[node EXCEPT !.list = b.nodes]>>] ELSE Failed
IfNode(e, i) == [ok |-> e.ok, node |-> [Node("if", None) EXCEPT !.dep = e.e], i |-> i]

RECURSIVE parse_block(_, _, _), parse_files(_)
Block(ls, p, end) == IF p.ok THEN Enclosing(p.node, parse_block(ls, p.i, end)) ELSE Failed
Entry(ls, i) ==
  LET l == ls[i]
      props(node) == parse_props(ls, i + 1, node)
  IN CASE l[1] \in {"config", "menuconfig"} ->
            IF l[2] \in DOMAIN STR_TO_TRI THEN Failed
            ELSE Leaf(props([Node("sym", l[2]) EXCEPT !.is_menuconfig = l[1] = "menuconfig"]))
       [] l[1] = "comment" -> Leaf(props(Node("comment", l[2])))
       [] l[1] = "choice" -> Block(ls, props(Node("choice", l[2])), "endchoice")
       [] l[1] = "menu" -> Block(ls, props(Node("menu", l[2])), "endmenu")
       [] l[1] = "if" -> Block(ls, IfNode(ExprAndEol(l[2], TRUE), i + 1), "endif")
       [] l[1] = "source" ->
            IF l[2] /\ l[3] = <<>> THEN Failed ELSE [parse_files(l[3]) EXCEPT !.i = i + 1]
       [] l[1] = "mainmenu" -> [ok |-> TRUE, nodes |-> <<>>, i |-> i + 1]
       [] OTHER -> Failed
parse_block(ls, i, end) ==
  LET before(nodes, r) == IF r.ok THEN [r EXCEPT !.nodes = nodes \o @] ELSE Failed
      rest(x) == IF x.ok THEN before(x.nodes, parse_block(ls, x.i, end)) ELSE Failed
  IN IF i > Len(ls) THEN IF end = "eof" THEN [ok |-> TRUE, nodes |-> <<>>, i |-> i] ELSE Failed
     ELSE IF ls[i][1] = end THEN [ok |-> TRUE, nodes |-> <<>>, i |-> i + 1]
     ELSE rest(Entry(ls, i))
parse_files(fs) ==
  LET both(f, r) == IF f.ok /\ r.ok THEN [f EXCEPT !.nodes = @ \o r.nodes] ELSE Failed
  IN IF fs = <<>> THEN [ok |-> TRUE, nodes |-> <<>>, i |-> 0]
     ELSE both(parse_block(Head(fs), 1, "eof"), parse_files(Tail(fs)))

-----------------------------------------------------------------------------
(* _propagate_deps(): the dependencies of a node, or the choice it holds,  *)
(* go to its children and to their properties.                             *)
PropagateTo_withoutVisibleIf(node, visible_if, cur) ==
  LET dep == make_and(cur.dep, IF node.kind = "choice" THEN <<"sym", node.item>> ELSE node.dep)
      conds(ps) == [j \in DOMAIN ps |-> [ps[j] EXCEPT ![Len(ps[j])] = make_and(@, dep)]]
  IN [cur EXCEPT !.dep = dep, !.prompt = [j \in DOMAIN @ |-> make_and(@[j], dep)],
                 !.defaults = conds(@), !.ranges = conds(@),
                 !.selects = conds(@), !.implies = conds(@)]
PropagateTo(node, visible_if, cur) ==
  LET base == IF node.kind = "choice" THEN <<"sym", node.item>> ELSE node.dep
      dep == make_and(cur.dep, base)
      conds(ps) == [j \in DOMAIN ps |-> [ps[j] EXCEPT ![Len(ps[j])] = make_and(@, dep)]]
      limits == IF cur.kind \in {"sym", "choice"} THEN make_and(visible_if, dep) ELSE dep
  IN [cur EXCEPT !.dep = dep,
                 !.prompt = [j \in DOMAIN @ |-> make_and(@[j], limits)],
                 !.defaults = conds(@), !.ranges = conds(@),
                 !.selects = conds(@), !.implies = conds(@)]

(* _expr_depends_on(), _auto_menu_dep(): whether node b goes into an       *)
(* implicit submenu of the symbol of node a.                               *)
RECURSIVE expr_depends_on(_, _)
expr_depends_on(e, i) ==
  CASE e[1] = "sym" -> e[2] = i
    [] e[1] = "and" -> expr_depends_on(e[2], i) \/ expr_depends_on(e[3], i)
    [] e[1] \in {"=", "!="} ->
         /\ i \in {e[2], e[3]}
         /\ LET other == IF e[3] = i THEN e[2] ELSE e[3] IN
            \/ e[1] = "=" /\ other = "m"
            \/ other = "y"
            \/ e[1] = "!=" /\ other = "n"
    [] OTHER -> FALSE
auto_menu_dep(a, b) == expr_depends_on(IF b.prompt # <<>> THEN b.prompt[1] ELSE b.dep, a.item)

(* _flatten(): the children of a node without a prompt go after it.        *)
(* _remove_ifs() drops the 'if' nodes.                                     *)
RECURSIVE flatten(_)
flatten_drops(ns) ==
  [j \in DOMAIN ns |-> IF ns[j].prompt = <<>> /\ ns[j].kind # "choice"
                       THEN [ns[j] EXCEPT !.list = <<>>] ELSE ns[j]]
flatten(ns) ==
  FlattenSeq([j \in DOMAIN ns |->
    IF ns[j].prompt = <<>> /\ ns[j].kind # "choice"
    THEN <<[ns[j] EXCEPT !.list = <<>>]>> \o flatten(ns[j].list) ELSE <<ns[j]>>])
remove_ifs(ns) == SelectSeq(ns, LAMBDA nd : nd.kind # "if")
Level(node) == [node EXCEPT !.list = remove_ifs(flatten(@))]

(* _finalize_node(): finalizes the first of the siblings ns, which may     *)
(* take siblings after it into an implicit submenu.                        *)
RECURSIVE finalize_node(_, _), finalize_list(_, _), TakeDependents(_, _, _)
TakeDependents(node, rest, visible_if) ==
  LET take(r) == TakeDependents([node EXCEPT !.list = Append(@, r.node)], r.rest, visible_if)
  IN IF rest # <<>> /\ auto_menu_dep(node, Head(rest)) THEN take(finalize_node(rest, visible_if))
     ELSE [node |-> Level(node), rest |-> rest]
finalize_node(ns, visible_if) ==
  LET node == Head(ns)
      vis == IF node.kind = "menu" THEN make_and(visible_if, node.visibility) ELSE visible_if
      children == [j \in DOMAIN node.list |-> PropagateTo(node, vis, node.list[j])]
  IN IF node.kind = "sym" THEN TakeDependents(node, Tail(ns), visible_if)
     ELSE [node |-> Level([node EXCEPT !.list = finalize_list(children, vis)]), rest |-> Tail(ns)]
finalize_list(ns, visible_if) ==
  IF ns = <<>> THEN <<>>
  ELSE LET first(r) == <<r.node>> \o finalize_list(r.rest, visible_if)
       IN first(finalize_node(ns, visible_if))

(* node_iter(): the nodes of a tree, each before its children.             *)
RECURSIVE node_iter(_)
node_iter(ns) ==
  FlattenSeq([j \in DOMAIN ns |-> <<ns[j]>> \o node_iter(ns[j].list)])

-----------------------------------------------------------------------------
(* _add_props_to_sym() and _finalize_choice(): what the nodes of a tree,   *)
(* in order, say of the symbols and choices.                               *)
Unique(s) == FoldLeft(LAMBDA acc, x : IF Contains(acc, x) THEN acc ELSE Append(acc, x), <<>>, s)
ItemsOf(ns, kind) ==
  LET items(nodes) == Unique([j \in DOMAIN nodes |-> nodes[j].item])
  IN items(SelectSeq(ns, LAMBDA nd : nd.kind = kind))
ChoiceSyms(ns, c) ==
  LET lists == FlattenSeq([j \in DOMAIN ns |->
                 IF ns[j].kind = "choice" /\ ns[j].item = c THEN ns[j].list ELSE <<>>])
      syms == SelectSeq(lists, LAMBDA nd : nd.kind = "sym")
  IN [j \in DOMAIN syms |-> syms[j].item]
Collect(nodes, F(_)) == FlattenSeq([j \in DOMAIN nodes |-> F(nodes[j])])
ReverseDep(ns, i, F(_)) ==
  LET conds == Collect(SelectSeq(ns, LAMBDA nd : nd.kind = "sym"), LAMBDA nd :
                 LET ts == SelectSeq(F(nd), LAMBDA t : t[1] = i)
                 IN [j \in DOMAIN ts |-> make_and(<<"sym", nd.item>>, ts[j][2])])
  IN FoldLeft(make_or, n, conds)

Properties(ns, choices, i) ==
  LET nodes == SelectSeq(ns, LAMBDA nd : nd.item = i /\ nd.kind \in {"sym", "choice"})
      types == SelectSeq([j \in DOMAIN nodes |-> nodes[j].type], LAMBDA t : t # "unknown")
      of == SelectSeq(choices, LAMBDA c : Contains(ChoiceSyms(ns, c), i))
  IN [type |-> IF types = <<>> THEN "unknown" ELSE Last(types),
      prompts |-> Collect(nodes, LAMBDA nd : nd.prompt),
      defaults |-> Collect(nodes, LAMBDA nd : nd.defaults),
      ranges |-> Collect(nodes, LAMBDA nd : nd.ranges),
      direct |-> FoldLeft(make_or, n, [j \in DOMAIN nodes |-> nodes[j].dep]),
      rev |-> ReverseDep(ns, i, LAMBDA nd : nd.selects),
      weak |-> ReverseDep(ns, i, LAMBDA nd : nd.implies),
      choice |-> IF of = <<>> THEN None ELSE Last(of),
      syms |-> ChoiceSyms(ns, i),
      optional |-> \E j \in DOMAIN nodes : nodes[j].optional,
      env |-> \E j \in DOMAIN nodes : nodes[j].env]

(* A choice without a type takes the first one of its symbols', a choice   *)
(* symbol without a type takes the choice's.                               *)
Typed(def) ==
  LET choiceType(c) ==
        LET ts == SelectSeq([j \in DOMAIN def[c].syms |-> def[def[c].syms[j]].type],
                            LAMBDA t : t # "unknown")
        IN IF def[c].type # "unknown" \/ ts = <<>> THEN def[c].type ELSE Head(ts)
  IN [i \in DOMAIN def |->
        [def[i] EXCEPT !.type =
           IF def[i].syms # <<>> THEN choiceType(i)
           ELSE IF @ = "unknown" /\ def[i].choice # None THEN choiceType(def[i].choice) ELSE @]]

(* What parsing leaves in the Kconfig object.                              *)
Program(ns) ==
  LET define(syms, choices) ==
        [syms |-> syms, choices |-> choices, dependents |-> <<>>,
         def |-> Typed([i \in ToSet(syms) \cup ToSet(choices) |-> Properties(ns, choices, i)])]
      build_dep(p) == [p EXCEPT !.dependents = Dependents(p)]
  IN build_dep(define(ItemsOf(ns, "sym"), ItemsOf(ns, "choice")))

(* The errors of _check_sym_sanity() and _check_choice_sanity(): a default *)
(* that should be a single symbol is an expression.                        *)
Insane(p) ==
  \E i \in DOMAIN p.def :
    /\ i \in ToSet(p.choices) \/ p.def[i].type \in {"string", "int", "hex"}
    /\ \E j \in DOMAIN p.def[i].defaults : p.def[i].defaults[j][1][1] # "sym"

-----------------------------------------------------------------------------
(* _check_dep_loop_sym() and _check_dep_loop_choice(): a depth-first       *)
(* search over the dependents as they are before _add_choice_deps().       *)
(* seen[i] is _visited: 1 while i is on the search's path, 2 after it.     *)
(* A choice entered through one of its symbols does not go back to it, nor *)
(* does a symbol entered through its choice.                               *)
RECURSIVE check_dep_loop(_, _, _, _), check_each(_, _, _)
check_dep_loop_ignoresChoices(p, i, from, s) ==
  LET users == SelectSeq(p.syms, LAMBDA j : i \in DependsOn(p, j))
      leave(r) == IF r.loop THEN r ELSE [r EXCEPT !.seen[i] = 2]
  IN IF s.loop \/ s.seen[i] = 2 THEN s
     ELSE IF s.seen[i] = 1 THEN [s EXCEPT !.loop = TRUE]
     ELSE leave(check_each(p, [j \in DOMAIN users |-> <<users[j], None>>], [s EXCEPT !.seen[i] = 1]))
check_dep_loop(p, i, from, s) ==
  LET c == p.def[i].choice
      entered(js, by) == [j \in DOMAIN js |-> <<js[j], by>>]
      users == SelectSeq(p.syms \o p.choices, LAMBDA j : i \in DependsOn(p, j))
      next == IF i \in ToSet(p.choices)
              THEN entered(SelectSeq(p.def[i].syms, LAMBDA j : j # from), i)
              ELSE entered(users, None) \o (IF c = None \/ from = c THEN <<>> ELSE <<<<c, i>>>>)
      leave(r) == IF r.loop THEN r ELSE [r EXCEPT !.seen[i] = 2]
  IN IF s.loop \/ s.seen[i] = 2 THEN s
     ELSE IF s.seen[i] = 1 THEN [s EXCEPT !.loop = TRUE]
     ELSE leave(check_each(p, next, [s EXCEPT !.seen[i] = 1]))
check_each(p, next, s) ==
  IF next = <<>> THEN s
  ELSE check_each(p, Tail(next), check_dep_loop(p, Head(next)[1], Head(next)[2], s))
HasDepLoop(p) ==
  check_each(p, [j \in DOMAIN p.syms |-> <<p.syms[j], None>>],
             [seen |-> [i \in DOMAIN p.def |-> 0], loop |-> FALSE]).loop

-----------------------------------------------------------------------------
(* Kconfig._init(): parse, finalize, check, build the dependencies, look   *)
(* for dependency loops.  An error ends the program.                       *)
Top == Node("menu", "top")
NoProgram == [syms |-> <<>>, choices |-> <<>>, def |-> <<>>, dependents |-> <<>>]
Checked(tree, p) ==
  [tree |-> tree, p |-> p,
   phase |-> IF Insane(p) THEN "sanity" ELSE IF HasDepLoop(p) THEN "loop" ELSE "ready"]
Finished(tree) == Checked(tree, Program(node_iter(tree.list)))
ParseKconfig(ls) ==
  LET finalize(b) ==
        IF b.ok THEN Finished(finalize_node(<<[Top EXCEPT !.list = b.nodes]>>, y).node)
        ELSE [phase |-> "syntax", tree |-> Top, p |-> NoProgram]
  IN finalize(parse_block(ls, 1, "eof"))

=============================================================================
