----------------------------- MODULE Menuconfig -----------------------------
(***************************************************************************)
(* The menu interface (src/scripts/menuconfig.py from _menuconfig() on):   *)
(* a cursor in the list of the nodes of a menu that are shown, which the   *)
(* keys move and which must follow as values, and with them what is shown, *)
(* change.                                                                 *)
(*                                                                         *)
(* The functions of the code work on the record ui of the globals of the   *)
(* interface: kconf, cur_menu, shown, sel_node_i, menu_scroll,             *)
(* parent_screen_rows, show_all, conf_changed, conf_filename, the height   *)
(* of the menu window, and error, which says that list.index() did not     *)
(* find what it looked for and the program is gone.  What it asks the menu *)
(* tree and the symbols is given by constant operators, which MenuTree     *)
(* computes for Kconfig files.  A dialog is a part of the action that      *)
(* opens it: while it is open the terminal may be resized, which it may be *)
(* before as well.                                                         *)
(* A definition with an underscored suffix is a mutant of the one after    *)
(* it: a bug the properties must tell from the code.                       *)
(***************************************************************************)
EXTENDS Integers, SequencesExt

CONSTANTS
  Sources,     \* Kconfig files
  Filenames,   \* names of configuration files
  Writable,    \* those of them that can be written
  Faulty,      \* Kconfig file -> those of them whose writing may fail half-way
  ConfigName,  \* standard_config_filename(), .config as a rule
  Handwritten, \* Kconfig file -> file name -> what is in it at first
  Heights,     \* the heights the menu window may have
  ScrollOffset, PgJump,  \* _SCROLL_OFFSET, _PG_JUMP
  Configs,     \* Kconfig file -> the values its symbols may have
  InBounds(_),          \* values -> whether the interface is followed to them (a bound)
  NodesOf(_),           \* Kconfig file -> its menu nodes, but for the top one
  NodeOf(_, _),         \* Kconfig file, node -> its kind, item, is_menuconfig, list of nodes
  ShownNodes(_, _, _, _),  \* Kconfig file, values, show-all, menu -> _shown_nodes()
  ParentMenu(_, _),     \* Kconfig file, node -> _parent_menu()
  SelectionNodes(_, _, _),  \* Kconfig file, values, choice node -> the nodes of its selection
  Changeable(_, _, _),  \* Kconfig file, values, node -> _changeable()
  InYMode(_, _),        \* values, item -> _is_y_mode_choice_sym()
  TakesText(_, _),      \* values, item -> whether it is a string or a number
  ValidTexts(_, _),     \* values, item -> what users type that _check_valid() accepts
  AssignableTo(_, _),   \* values, item -> its assignable
  ValueNow(_, _),       \* values, item -> its str_value or tri_value
  WithValue(_, _, _),   \* values, item, value -> the values after set_value()
  Fresh(_),             \* Kconfig file -> the values before anything is loaded
  Loaded(_, _),         \* values, file -> the values after load_config()
  SavedAs(_), MinimalAs(_),  \* values -> what write_config(), write_min_config() write
  ValuesOf(_)           \* values -> the str_value of every symbol

TopMenu == <<>>
Menus(s) == {p \in NodesOf(s) : NodeOf(s, p).is_menuconfig} \cup {TopMenu}
FilesOf(s) ==
  {Handwritten[s][f] : f \in Filenames} \cup {<<>> : f \in Faulty[s]}
    \cup {SavedAs(k) : k \in Configs[s]} \cup {MinimalAs(k) : k \in Configs[s]}
IsItem(node) == node.kind \in {"sym", "choice"}
Offered(k, i) == AssignableTo(k, i) \cup (IF TakesText(k, i) THEN ValidTexts(k, i) ELSE {})
CanJumpInto(node) == node.kind \in {"choice", "menu"} /\ node.list # <<>>

(* What is relied on.  Windows have rows, and neither the files that are   *)
(* loaded nor, within the bound, the values that are set lead out of       *)
(* Configs.  Only symbols and choices are changed, and those that do not   *)
(* take a text have a value to change to.                                  *)
ASSUME ConstantsAssumption ==
  /\ Heights \subseteq Nat \ {0} /\ Max(Heights) \in Heights
  /\ ScrollOffset \in Nat /\ PgJump \in Nat
  /\ Writable \subseteq Filenames /\ ConfigName \in Filenames
ASSUME ConfigsAssumption ==
  \A s \in Sources :
    /\ Handwritten[s] = [f \in Filenames |-> Handwritten[s][f]]
    /\ Faulty[s] \subseteq Writable
    /\ \A f \in FilesOf(s) : Loaded(Fresh(s), f) \in Configs[s]
    /\ \A k \in Configs[s], f \in FilesOf(s) : Loaded(k, f) \in Configs[s]
ASSUME ChangesAssumption ==
  \A s \in Sources : \A k \in Configs[s], p \in NodesOf(s) :
    /\ IsItem(NodeOf(s, p)) =>
         \A v \in Offered(k, NodeOf(s, p).item) :
           LET l == WithValue(k, NodeOf(s, p).item, v) IN InBounds(l) => l \in Configs[s]
    /\ Changeable(s, k, p) =>
         /\ IsItem(NodeOf(s, p))
         /\ TakesText(k, NodeOf(s, p).item)
              \/ AssignableTo(k, NodeOf(s, p).item) \in (SUBSET (0..2)) \ {{}}

(* The lists are lists of nodes, of menus; with show-all they have at      *)
(* least the nodes they have without, and the one of the top menu is not   *)
(* empty (there is something to configure).                                *)
ASSUME TreeAssumption ==
  \A s \in Sources : \A p \in NodesOf(s) :
    /\ ParentMenu(s, p) \in Menus(s)
    /\ CanJumpInto(NodeOf(s, p)) => p \in Menus(s)
ASSUME ShownAssumption ==
  \A s \in Sources : \A k \in Configs[s] :
    /\ ShownNodes(s, k, TRUE, TopMenu) # <<>>
    /\ \A m \in Menus(s) :
         /\ \A all \in BOOLEAN : ShownNodes(s, k, all, m) \in Seq(NodesOf(s))
         /\ ToSet(ShownNodes(s, k, FALSE, m)) \subseteq ToSet(ShownNodes(s, k, TRUE, m))
         /\ NodeOf(s, m).kind = "choice" => SelectionNodes(s, k, m) \in Seq(NodesOf(s))

(* What is saved, minimal or not, loads as what it was (WrittenLoads and   *)
(* MinimalLoads of KconfigSession).                                        *)
ASSUME SavedLoads ==
  \A s \in Sources : \A k \in Configs[s] :
    /\ ValuesOf(Loaded(Fresh(s), SavedAs(k))) = ValuesOf(k)
    /\ ValuesOf(Loaded(Fresh(s), MinimalAs(k))) = ValuesOf(k)

VARIABLES
  src,    \* the Kconfig file
  ui,     \* the interface, see above
  files,  \* file name -> its lines
  cut     \* the files that a save which failed has left empty (history)

vars == <<src, ui, files, cut>>

At(p) == NodeOf(src, p)
Listed(k, all, menu) == ShownNodes(src, k, all, menu)

(* list.index(), from 0; -1 when it raises an error.                       *)
IndexIn(found) == IF found = {} THEN -1 ELSE Min(found) - 1
Index(list, node) == IndexIn({j \in DOMAIN list : list[j] = node})

-----------------------------------------------------------------------------
(* The cursor.                                                             *)
SelNode(u) == u.shown[u.sel + 1]
Row(u) == u.sel - u.scroll
MaxScroll(len, height) == Max({0, len - height})

(* _select_next_menu_entry(), _select_prev_menu_entry() and their copies   *)
(* in _jump_to_dialog(), in a list of length len.                          *)
NextEntry(len, height, c) ==
  IF c.sel >= len - 1 THEN c
  ELSE [sel |-> c.sel + 1,
        scroll |-> IF /\ c.sel + 1 >= c.scroll + height - ScrollOffset
                      /\ c.scroll < MaxScroll(len, height)
                   THEN c.scroll + 1 ELSE c.scroll]
PrevEntry(len, height, c) ==
  IF c.sel <= 0 THEN c
  ELSE [sel |-> c.sel - 1,
        scroll |-> IF c.sel - 1 < c.scroll + ScrollOffset THEN Max({c.scroll - 1, 0}) ELSE c.scroll]
Cursors == [sel : Nat, scroll : Nat]
Iterated(step, times, c) ==
  LET after[n \in 0..times] == IF n = 0 THEN c ELSE step[after[n - 1]] IN after[times]
Moves(len, height, c) ==
  LET down == [d \in Cursors |-> NextEntry(len, height, d)]
      up == [d \in Cursors |-> PrevEntry(len, height, d)]
  IN { down[c], up[c], Iterated(down, PgJump, c), Iterated(up, PgJump, c),
       [sel |-> len - 1, scroll |-> MaxScroll(len, height)], [sel |-> 0, scroll |-> 0] }

(* _resize_main()                                                          *)
resize_main(u, height) ==
  [u EXCEPT !.height = height,
            !.scroll = IF Row(u) >= height THEN u.sel - height + 1 ELSE @]

(* _center_vertically()                                                    *)
center_vertically(u) ==
  [u EXCEPT !.scroll = Min({Max({u.sel - u.height \div 2, 0}), MaxScroll(Len(u.shown), u.height)})]

(* The list becomes shown and the cursor goes to node, on the row it was   *)
(* on if possible.                                                         *)
ReselectAt(u, shown, j) ==
  IF j = -1 THEN [u EXCEPT !.error = TRUE]
  ELSE [u EXCEPT !.shown = shown, !.sel = j, !.scroll = Max({j - Row(u), 0})]
Reselect(u, shown, node) == ReselectAt(u, shown, Index(shown, node))

(* _update_menu()                                                          *)
update_menu(u) == Reselect(u, Listed(u.k, u.all, u.cur), SelNode(u))

(* _select_selected_choice_sym()                                           *)
SelectFirst(u, nodes, found) ==
  IF found = {} THEN u ELSE center_vertically([u EXCEPT !.sel = Index(u.shown, nodes[Min(found)])])
SelectAmong(u, nodes) == SelectFirst(u, nodes, {j \in DOMAIN nodes : Contains(u.shown, nodes[j])})
select_selected_choice_sym(u) == SelectAmong(u, SelectionNodes(src, u.k, u.cur))

(* _enter_menu(): an empty menu is not entered.                            *)
Enterable(u, p) == At(p).is_menuconfig /\ Listed(u.k, u.all, p) # <<>>
Entered(u, p, shown) ==
  [u EXCEPT !.rows = Append(@, Row(u)), !.cur = p, !.shown = shown, !.sel = 0, !.scroll = 0]
enter_menu(u, p) ==
  LET select(v) == IF At(p).kind = "choice" THEN select_selected_choice_sym(v) ELSE v
  IN select(Entered(u, p, Listed(u.k, u.all, p)))

(* _leave_menu()                                                           *)
LeaveTo_sameRow(u, parent, shown, j) ==
  IF j = -1 THEN [u EXCEPT !.error = TRUE]
  ELSE IF u.rows = <<>>
  THEN center_vertically([u EXCEPT !.cur = parent, !.shown = shown, !.sel = j])
  ELSE [u EXCEPT !.cur = parent, !.shown = shown, !.sel = j, !.rows = Front(@),
                 !.scroll = Max({j - Last(u.rows), 0})]
LeaveTo(u, parent, shown, j) ==
  IF j = -1 THEN [u EXCEPT !.error = TRUE]
  ELSE IF u.rows = <<>>
  THEN center_vertically([u EXCEPT !.cur = parent, !.shown = shown, !.sel = j])
  ELSE [u EXCEPT !.cur = parent, !.shown = shown, !.sel = j, !.rows = Front(@),
                 !.scroll = Max({j - Min({Last(u.rows), u.height - 1}), 0})]
LeaveInto(u, parent, shown) == LeaveTo(u, parent, shown, Index(shown, u.cur))
LeaveFor(u, parent) == LeaveInto(u, parent, Listed(u.k, u.all, parent))
leave_menu(u) == IF u.cur = TopMenu THEN u ELSE LeaveFor(u, ParentMenu(src, u.cur))

(* _toggle_show_all(): the cursor stays, or goes to the closest node that  *)
(* is still shown; what would show nothing is not turned off.              *)
Closest(kept, sel) ==
  IF \E j \in kept : j <= sel + 1 THEN Max({j \in kept : j <= sel + 1}) ELSE Min(kept)
toggle_show_all(u) ==
  LET reselect(shown, kept) ==
        IF kept = {} THEN [u EXCEPT !.all = TRUE]
        ELSE [Reselect(u, shown, u.shown[Closest(kept, u.sel)]) EXCEPT !.all = ~@]
      toggle(shown) == reselect(shown, {j \in DOMAIN u.shown : Contains(shown, u.shown[j])})
  IN toggle(Listed(u.k, ~u.all, u.cur))

(* _jump_to(): into a menu or choice that is not empty, or to a node.      *)
ShowMenu(u, cur, node, all, shown) ==
  [u EXCEPT !.rows = <<>>, !.cur = cur, !.all = all, !.shown = shown, !.sel = Index(shown, node)]
ShowAllIf(u, cur, node, hidden) ==
  ShowMenu(u, cur, node, u.all \/ hidden, Listed(u.k, u.all \/ hidden, cur))
ShowNode(u, cur, node) ==
  ShowAllIf(u, cur, node, ~Contains(Listed(u.k, u.all, cur), node))
JumpedInto(old, u) ==
  LET centered == center_vertically(IF u.all # old.all THEN toggle_show_all(u) ELSE u)
  IN IF At(u.cur).kind = "choice" THEN select_selected_choice_sym(centered) ELSE centered
Jumped(old, u, into) ==
  IF u.sel = -1 THEN [old EXCEPT !.error = TRUE]
  ELSE IF into THEN JumpedInto(old, u) ELSE center_vertically(u)
jump_to(u, p) ==
  LET into == CanJumpInto(At(p)) IN
  Jumped(u, ShowNode(u, IF into THEN p ELSE ParentMenu(src, p), IF into THEN At(p).list[1] ELSE p), into)

-----------------------------------------------------------------------------
(* Changing values.                                                        *)

(* _set_val()                                                              *)
set_val_keepsMenu(u, i, v) ==
  IF v = ValueNow(u.k, i) THEN u
  ELSE [u EXCEPT !.k = WithValue(u.k, i, v), !.changed = TRUE]
set_val(u, i, v) ==
  IF v = ValueNow(u.k, i) THEN u
  ELSE update_menu([u EXCEPT !.k = WithValue(u.k, i, v), !.changed = TRUE])

(* _change_node(): a text is entered, s being what it is in the end; other *)
(* symbols get the next assignable value.                                  *)
Leaves(u, p) ==
  IF InYMode(u.k, At(p).item) /\ At(p).list = <<>> /\ ~u.error THEN leave_menu(u) ELSE u
Toggled(values, now) ==
  IF \E v \in values : v > now THEN Min({v \in values : v > now}) ELSE Min(values)
ChangeTristate(u, p, values, now) ==
  IF Cardinality(values) > 1 /\ now \notin values THEN [u EXCEPT !.error = TRUE]
  ELSE Leaves(set_val(u, At(p).item, Toggled(values, now)), p)
change_node(u, p) ==
  IF TakesText(u.k, At(p).item)
  THEN {u} \cup {set_val(u, At(p).item, s) : s \in ValidTexts(u.k, At(p).item)}
  ELSE {ChangeTristate(u, p, AssignableTo(u.k, At(p).item), ValueNow(u.k, At(p).item))}

-----------------------------------------------------------------------------
(* The keys.  The program starts with the configuration that is there, or  *)
(* shows everything when nothing would be visible.                         *)
NeedsSave == TRUE
Opened(k, all) ==
  [k |-> k, cur |-> TopMenu, shown |-> Listed(k, all, TopMenu), sel |-> 0, scroll |-> 0,
   rows |-> <<>>, all |-> all, changed |-> NeedsSave, name |-> ConfigName, height |-> Max(Heights),
   error |-> FALSE]
OpenedOn(k) == Opened(k, Listed(k, FALSE, TopMenu) = <<>>)
Started(lines) == OpenedOn(Loaded(Fresh(src), lines))

Init ==
  /\ src \in Sources
  /\ files = Handwritten[src] /\ cut = {}
  /\ ui = Started(files[ConfigName])

Key == ~ui.error /\ src' = src
Display == Key /\ UNCHANGED <<files, cut>>

Resize == Display /\ \E h \in Heights : ui' = resize_main(ui, h)
Move ==
  /\ Display
  /\ \E c \in Moves(Len(ui.shown), ui.height, [sel |-> ui.sel, scroll |-> ui.scroll]) :
       ui' = [ui EXCEPT !.sel = c.sel, !.scroll = c.scroll]

(* Space changes what it can and enters the rest; Enter does the reverse.  *)
Bounded == ui'.k = ui.k \/ InBounds(ui'.k)
Activate(p, first) ==
  \E change \in {Changeable(src, ui.k, p)}, enter \in {Enterable(ui, p)} :
    \/ change /\ (first = "change" \/ ~enter) /\ ui' \in change_node(ui, p)
    \/ enter /\ (first = "enter" \/ ~change) /\ ui' = enter_menu(ui, p)
Space == Display /\ Activate(SelNode(ui), "change") /\ Bounded
Enter == Display /\ Activate(SelNode(ui), "enter") /\ Bounded

(* n, m and y: _set_sel_node_tri_val()                                     *)
SetTristate ==
  /\ Display
  /\ IsItem(At(SelNode(ui)))
  /\ \E v \in AssignableTo(ui.k, At(SelNode(ui)).item) :
       ui' = set_val(ui, At(SelNode(ui)).item, v)
  /\ Bounded

Leave == Display /\ ui.cur # TopMenu /\ ui' = leave_menu(ui)
ToggleAll == Display /\ ui' = toggle_show_all(ui)

(* _jump_to_dialog(), to any node; the window is fitted afterwards.        *)
Jump ==
  /\ Display
  /\ \E p \in NodesOf(src), h \in Heights : ui' = resize_main(jump_to(ui, p), h)

(* _load_dialog(): the selected node may disappear.                        *)
LoadDialog_keepsShowAll ==
  /\ Display
  /\ \E f \in Filenames :
       ui' = update_menu([ui EXCEPT !.k = Loaded(ui.k, files[f]), !.name = f,
                                    !.changed = NeedsSave])
LoadInto(k, f) ==
  update_menu([ui EXCEPT !.k = k, !.name = f, !.changed = NeedsSave,
                         !.all = @ \/ ~Contains(Listed(k, @, ui.cur), SelNode(ui))])
LoadDialog ==
  /\ Display
  /\ \E f \in Filenames : ui' = LoadInto(Loaded(ui.k, files[f]), f)

(* _save_dialog(), of the configuration and of a minimal one.              *)
Save(f, contents) ==
  /\ f \in Writable
  /\ files' = [files EXCEPT ![f] = contents]
  /\ cut' = cut \ {f}
SaveDialog_keepsName ==
  /\ Key
  /\ ui' = [ui EXCEPT !.changed = FALSE]
  /\ \E f \in Filenames : Save(f, SavedAs(ui.k))
SaveDialog ==
  /\ Key
  /\ \E f \in Filenames :
       Save(f, SavedAs(ui.k)) /\ ui' = [ui EXCEPT !.name = f, !.changed = FALSE]
SaveMinimal == Key /\ ui' = ui /\ \E f \in Filenames : Save(f, MinimalAs(ui.k))

(* A save that fails, here or on quitting: when the file cannot be opened  *)
(* nothing changes; when it cannot be written it is left empty; and when   *)
(* config.h or config.mk cannot be, it is saved all the same.  The menu    *)
(* goes on as if nothing had been saved.                                   *)
SaveFails ==
  /\ Key /\ ui' = ui
  /\ \E f \in Faulty[src] :
       \/ files' = [files EXCEPT ![f] = <<>>] /\ cut' = cut \cup {f}
       \/ Save(f, SavedAs(ui.k))

(* _quit_dialog(), which asks only after changes, and the next start.      *)
Quit ==
  /\ Key
  /\ UNCHANGED <<files, cut>> \/ (ui.changed /\ Save(ui.name, SavedAs(ui.k)))
  /\ ui' = Started(files'[ConfigName])

Next ==
  \/ Resize \/ Move \/ Space \/ Enter \/ SetTristate \/ Leave \/ ToggleAll \/ Jump
  \/ LoadDialog \/ SaveDialog \/ SaveMinimal \/ SaveFails \/ Quit

Spec == Init /\ [][Next]_vars

-----------------------------------------------------------------------------
(* The Kconfig files whose nodes stay in their lists: the node an item is  *)
(* changed on; with show-all, every node; and a menu that shows something. *)
(* A value that can be changed is one of those it can be changed to.       *)
ItemsStay(s) ==
  \A k \in Configs[s], m \in Menus(s), all \in BOOLEAN :
    \A p \in {q \in ToSet(ShownNodes(s, k, all, m)) : IsItem(NodeOf(s, q))} :
      \A v \in Offered(k, NodeOf(s, p).item) :
        \A l \in {WithValue(k, NodeOf(s, p).item, v)} \cap Configs[s] :
          p \in ToSet(ShownNodes(s, l, all, m))
AllStay(s) ==
  \A k, l \in Configs[s], m \in Menus(s), all \in BOOLEAN :
    ToSet(ShownNodes(s, k, all, m)) \subseteq ToSet(ShownNodes(s, l, TRUE, m))
AllListed(s) ==
  \A k \in Configs[s], p \in NodesOf(s) :
    /\ p \in ToSet(ShownNodes(s, k, TRUE, ParentMenu(s, p)))
    /\ CanJumpInto(NodeOf(s, p)) => NodeOf(s, p).list[1] \in ToSet(ShownNodes(s, k, TRUE, p))
MenusListed(s) ==
  \A k \in Configs[s], m \in Menus(s) \ {TopMenu}, all \in BOOLEAN :
    ShownNodes(s, k, all, m) # <<>> => m \in ToSet(ShownNodes(s, k, all, ParentMenu(s, m)))
ValuesAssignable(s) ==
  \A k \in Configs[s] : \A p \in {q \in NodesOf(s) : Changeable(s, k, q)} :
    \A i \in {NodeOf(s, p).item} :
      ~TakesText(k, i) /\ Cardinality(AssignableTo(k, i)) > 1 =>
        ValueNow(k, i) \in AssignableTo(k, i)
NodesStay(s) ==
  ItemsStay(s) /\ AllStay(s) /\ AllListed(s) /\ MenusListed(s) /\ ValuesAssignable(s)

(* The program never loses the node the cursor is on: no key, in whatever  *)
(* menu and after whatever loads, jumps and toggles of show-all, makes it  *)
(* look for a node that is not shown ("the implementation relies on always *)
(* having a selected node").  There are Kconfig files for which the code   *)
(* does not keep this promise; NodesStay says what it takes of the files,  *)
(* and README.md lists the shapes that do not have it.                     *)
CursorKept == ~ui.error /\ ui.sel \in 0..(Len(ui.shown) - 1)

(* The list on the screen is the list for the values of now, whichever     *)
(* key changed them (_set_val, _load_dialog, _jump_to against              *)
(* _shown_nodes).                                                          *)
ShownIsCurrent == ~ui.error => ui.shown = Listed(ui.k, ui.all, ui.cur)

(* The selected entry is on the screen after every key, also when the      *)
(* terminal has shrunk or entries have disappeared above it.               *)
CursorOnScreen == Row(ui) \in 0..(ui.height - 1)

(* When nothing is asked on quitting, nothing is lost: the file that was   *)
(* last saved or loaded gives the values of now (_conf_changed), unless a  *)
(* later save of it failed and left it empty, of which the code takes no   *)
(* note.                                                                   *)
QuitLosesNothing ==
  ~ui.changed /\ ui.name \notin cut =>
    ValuesOf(Loaded(Fresh(src), files[ui.name])) = ValuesOf(ui.k)

=============================================================================
