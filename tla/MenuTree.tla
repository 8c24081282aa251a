------------------------------ MODULE MenuTree ------------------------------
(***************************************************************************)
(* What the menu interface asks of the menu tree and of the values         *)
(* (src/scripts/menuconfig.py: _shown_nodes, _parent_menu, _visible,       *)
(* _changeable, _check_valid).  A node is named by its path in the tree t  *)
(* whose root is Kconfig.top_node.                                         *)
(***************************************************************************)
EXTENDS KconfigFile

RECURSIVE NodeAt(_, _), Paths(_, _)
NodeAt(t, path) == IF path = <<>> THEN t ELSE NodeAt(t.list[Head(path)], Tail(path))
Paths(t, path) ==
  <<path>> \o FlattenSeq([j \in DOMAIN t.list |-> Paths(t.list[j], Append(path, j))])
PathsOf(t, Test(_)) == SelectSeq(Paths(t, <<>>), LAMBDA p : Test(NodeAt(t, p)))

(* _visible()                                                              *)
visible(k, node) ==
  /\ node.prompt # <<>>
  /\ \A e \in {node.prompt[1]} \cup (IF node.kind = "menu" THEN {node.visibility} ELSE {}) :
       expr_value(k, e).v # 0

(* The children of a node that are shown, with those of implicit submenus, *)
(* and the invisible symbols that have children to show.                   *)
RECURSIVE ShownBelow(_, _, _, _)
ShownFrom(node, k, all, p, below) ==
  IF visible(k, node) \/ all \/ (node.kind = "sym" /\ below # <<>>)
  THEN <<p>> \o (IF node.is_menuconfig THEN <<>> ELSE below) ELSE <<>>
ShownBelow(node, k, all, path) ==
  FlattenSeq([j \in DOMAIN node.list |->
    ShownFrom(node.list[j], k, all, Append(path, j),
              ShownBelow(node.list[j], k, all, Append(path, j)))])

(* _shown_nodes(): a choice shows the symbols of all of its definitions,   *)
(* those of the one that is entered in preference.                         *)
Syms(nodes) == {nd.item : nd \in {x \in nodes : x.kind = "sym"}}
MenuNodes(t, menu) ==
  IF NodeAt(t, menu).kind # "choice" THEN <<menu>>
  ELSE PathsOf(t, LAMBDA nd : nd.kind = "choice" /\ nd.item = NodeAt(t, menu).item)
Merged(t, menu, nodes, lists) ==
  LET add(a, c, p, nd) == IF nd.item \notin a.seen \/ c = menu
                          THEN [res |-> Append(a.res, p), seen |-> a.seen \cup Syms({nd})] ELSE a
      mine == Syms({NodeAt(t, p) : p \in ToSet(lists[menu])})
  IN IF NodeAt(t, menu).kind # "choice" THEN lists[menu]
     ELSE FoldLeft(LAMBDA acc, c : FoldLeft(LAMBDA a, p : add(a, c, p, NodeAt(t, p)), acc, lists[c]),
                   [res |-> <<>>, seen |-> mine], nodes).res
shown_nodes(t, k, all, menu) ==
  Merged(t, menu, MenuNodes(t, menu),
         [c \in ToSet(MenuNodes(t, menu)) |-> ShownBelow(NodeAt(t, c), k, all, c)])

(* _parent_menu()                                                          *)
RECURSIVE parent_menu(_, _)
parent_menu(t, path) ==
  IF NodeAt(t, Front(path)).is_menuconfig THEN Front(path) ELSE parent_menu(t, Front(path))

(* Choice.selection.nodes                                                  *)
selection_nodes(t, k, menu) ==
  LET nodesOf(s) == PathsOf(t, LAMBDA nd : nd.kind = "sym" /\ nd.item = s)
  IN nodesOf(Value(k, NodeAt(t, menu).item, "sel").v)

-----------------------------------------------------------------------------
(* What may be changed.                                                    *)
assignable(k, i) == Value(k, i, "assign").v
IsText(k, i) == OrigType(k, i) \in {"string", "int", "hex"}
Current(k, i) == IF IsText(k, i) THEN str_value(k, i).v ELSE tri_value(k, i).v
is_y_mode_choice_sym(k, i) ==
  i \in AllSymbols(k) /\ Def(k, i).choice # None /\ visibility(k, i).v = 2

(* _changeable()                                                           *)
changeable(k, node) ==
  /\ node.kind \in {"sym", "choice"}
  /\ node.prompt # <<>> /\ expr_value(k, node.prompt[1]).v # 0
  /\ \/ IsText(k, node.item)
     \/ Cardinality(assignable(k, node.item)) > 1
     \/ is_y_mode_choice_sym(k, node.item)

(* _check_valid(): what may be entered for a number.  The bounds of a      *)
(* range are numbers; with others int() raises an error, which ends the    *)
(* program.                                                                *)
check_valid(k, i, s) ==
  OrigType(k, i) \in {"int", "hex"} =>
    /\ IsBaseN(s, Base(OrigType(k, i)))
    /\ Fits(Number[Base(OrigType(k, i))][s], ActiveRange(k, Def(k, i)).v)

=============================================================================
