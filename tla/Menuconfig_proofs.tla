------------------------- MODULE Menuconfig_proofs -------------------------
(***************************************************************************)
(* The menu interface: what is on the screen is what there is, the cursor  *)
(* is on it, and a quit without a question loses nothing, for every tree   *)
(* of menus, every height of the window and every sequence of keys; and    *)
(* the condition on Kconfig files under which no key loses the cursor.     *)
(***************************************************************************)
EXTENDS Menuconfig, WellFoundedInduction, TLAPS

(* The interface between two keys: the cursor is in the list, the list is  *)
(* that of the menu, and the row of the cursor is one of the window.       *)
Ui ==
  [k : Configs[src], cur : Menus(src), shown : Seq(NodesOf(src)), sel : Nat, scroll : Int,
   rows : Seq(Nat), all : BOOLEAN, changed : BOOLEAN, name : Filenames, height : Heights,
   error : BOOLEAN]
InList(u) == u \in Ui /\ u.sel < Len(u.shown)
Placed(u) == InList(u) /\ (~u.error => u.shown = Listed(u.k, u.all, u.cur))
OnScreen(u) == u.scroll \in Nat /\ Row(u) \in 0..(u.height - 1)
Good(u) == Placed(u) /\ OnScreen(u)

(* From u to v nothing has been changed that is not remembered.            *)
SameConfig(u, v) == v.k = u.k /\ v.changed = u.changed /\ v.name = u.name
KeepsSaved(u, v) == ~v.changed => SameConfig(u, v)

FilesInv ==
  /\ files \in [Filenames -> FilesOf(src)]
  /\ ~ui.changed /\ ui.name \notin cut => files[ui.name] \in {SavedAs(ui.k), MinimalAs(ui.k)}
IInv == src \in Sources /\ Good(ui) /\ FilesInv

-----------------------------------------------------------------------------
(* The smallest and the largest of a set of numbers.                       *)
LEMMA LeastOfNat ==
  ASSUME NEW S \in SUBSET Nat, S # {}
  PROVE  Min(S) \in S /\ \A j \in S : Min(S) <= j
<1> DEFINE R == {ss \in Nat \X Nat : ss[1] < ss[2]}
<1>1. IsWellFoundedOn(R, Nat)
  BY NatLessThanWellFounded DEF OpToRel
<1>2. PICK x \in S : \A y \in S : ~(<<y, x>> \in R)
  <2> HIDE DEF R
  <2> QED BY <1>1, WFMin
<1>3. ASSUME NEW y \in S PROVE x <= y
  <2>1. x \in Nat /\ y \in Nat
    OBVIOUS
  <2>2. ~(y < x)
    BY <1>2, <2>1
  <2> QED BY <2>1, <2>2
<1> QED BY <1>3 DEF Min

LEMMA GreatestBelow ==
  ASSUME NEW S \in SUBSET Nat, S # {}, NEW n \in Nat, \A j \in S : j <= n
  PROVE  Max(S) \in S /\ \A j \in S : j <= Max(S)
<1> DEFINE T == {d \in Nat : n - d \in S}
<1>1. PICK j \in S : TRUE
  OBVIOUS
<1>2. n - j \in T
  OBVIOUS
<1>3. Min(T) \in T /\ \A d \in T : Min(T) <= d
  BY <1>2, LeastOfNat
<1>4. \A i \in S : n - i \in T
  OBVIOUS
<1>5. \A i \in S : i <= n - Min(T)
  BY <1>3, <1>4
<1>6. \E x \in S : \A y \in S : x >= y
  BY <1>3, <1>5
<1> QED BY <1>6 DEF Max

LEMMA MaxOfTwo ==
  ASSUME NEW a \in Int, NEW b \in Int
  PROVE  Max({a, b}) = IF a >= b THEN a ELSE b
BY DEF Max
LEMMA MinOfTwo ==
  ASSUME NEW a \in Int, NEW b \in Int
  PROVE  Min({a, b}) = IF a <= b THEN a ELSE b
BY DEF Min

(* list.index() finds what is in the list, and nothing else.               *)
LEMMA IndexFinds ==
  ASSUME NEW S, NEW list \in Seq(S), NEW x
  PROVE  /\ x \in ToSet(list) => /\ Index(list, x) \in 0..(Len(list) - 1)
                                 /\ list[Index(list, x) + 1] = x
         /\ x \notin ToSet(list) => Index(list, x) = -1
<1> DEFINE F == {j \in DOMAIN list : list[j] = x}
<1>1. F \in SUBSET Nat
  OBVIOUS
<1>2. F # {} => Min(F) \in F
  BY <1>1, LeastOfNat
<1>3. F = {} <=> x \notin ToSet(list)
  BY DEF ToSet
<1> QED BY <1>2, <1>3 DEF Index, IndexIn

LEMMA ContainsIsIn ==
  ASSUME NEW S, NEW list \in Seq(S), NEW x
  PROVE  Contains(list, x) <=> x \in ToSet(list)
BY DEF Contains, ToSet

(* What is done any number of times keeps what doing it once keeps.        *)
LEMMA IteratedKeeps ==
  ASSUME NEW S, NEW step, NEW times \in Nat, NEW c \in S, \A d \in S : step[d] \in S
  PROVE  Iterated(step, times, c) \in S
<1> DEFINE Is(f, n) == f = [j \in 0..n |-> IF j = 0 THEN c ELSE step[f[j - 1]]]
<1>1. ASSUME NEW n \in Nat, NEW f, Is(f, n), NEW i \in 0..n PROVE f[i] \in S
  <2> DEFINE Bad == {j \in 0..n : f[j] \notin S}
  <2>1. \A j \in 0..n : f[j] = IF j = 0 THEN c ELSE step[f[j - 1]]
    BY <1>1
  <2>2. SUFFICES ASSUME Bad # {} PROVE FALSE
    OBVIOUS
  <2>3. Min(Bad) \in Bad /\ \A j \in Bad : Min(Bad) <= j
    <3>1. Bad \in SUBSET Nat
      OBVIOUS
    <3> HIDE DEF Bad
    <3> QED BY <2>2, <3>1, LeastOfNat
  <2>4. PICK j \in 0..n : f[j] \notin S /\ \A m \in Bad : j <= m
    BY <2>3
  <2>5. j # 0
    BY <2>1, <2>4
  <2>6. f[j - 1] \in S
    BY <2>4, <2>5
  <2> QED BY <2>1, <2>4, <2>5, <2>6
<1>2. \A n \in Nat : \E f : Is(f, n)
  <2> DEFINE Bad == {n \in Nat : ~\E f : Is(f, n)}
  <2>1. SUFFICES ASSUME Bad # {} PROVE FALSE
    OBVIOUS
  <2>2. Min(Bad) \in Bad /\ \A j \in Bad : Min(Bad) <= j
    <3>1. Bad \in SUBSET Nat
      OBVIOUS
    <3> HIDE DEF Bad
    <3> QED BY <2>1, <3>1, LeastOfNat
  <2>3. PICK n \in Nat : (~\E f : Is(f, n)) /\ \A m \in Bad : n <= m
    BY <2>2
  <2>4. n # 0
    <3> DEFINE f == [j \in 0..0 |-> c]
    <3>1. Is(f, 0)
      OBVIOUS
    <3> QED BY <2>3, <3>1
  <2>5. n - 1 \in Nat /\ n - 1 \notin Bad
    BY <2>3, <2>4
  <2>6. PICK g : Is(g, n - 1)
    BY <2>5
  <2> DEFINE f == [j \in 0..n |-> IF j = n THEN step[g[n - 1]] ELSE g[j]]
  <2>7. \A j \in 0..n : f[j] = IF j = 0 THEN c ELSE step[f[j - 1]]
    <3> SUFFICES ASSUME NEW j \in 0..n PROVE f[j] = IF j = 0 THEN c ELSE step[f[j - 1]]
      OBVIOUS
    <3>1. CASE j = n
      BY <2>4, <3>1
    <3>2. CASE j # n
      <4>1. j \in 0..(n - 1) /\ f[j] = g[j]
        BY <3>2
      <4>2. g[j] = IF j = 0 THEN c ELSE step[g[j - 1]]
        BY <2>6, <4>1
      <4>3. j # 0 => f[j - 1] = g[j - 1]
        BY <4>1
      <4> QED BY <4>1, <4>2, <4>3
    <3> QED BY <3>1, <3>2
  <2>8. Is(f, n)
    <3>1. f = [j \in 0..n |-> f[j]]
      OBVIOUS
    <3> HIDE DEF f
    <3> QED BY <2>7, <3>1
  <2> QED BY <2>3, <2>8
<1> DEFINE after == CHOOSE f : Is(f, times)
<1>3. Is(after, times)
  BY <1>2
<1>4. after[times] \in S
  <2> HIDE DEF after
  <2> QED BY <1>1, <1>3
<1>5. Iterated(step, times, c) = after[times]
  BY DEF Iterated
<1> QED BY <1>4, <1>5

-----------------------------------------------------------------------------
(* The cursor moves in the list and on the screen.                         *)
CursorsIn(len, height) == {c \in Cursors : c.sel < len /\ c.sel - c.scroll \in 0..(height - 1)}

LEMMA MaxScrollIs ==
  ASSUME NEW len \in Nat, NEW height \in Nat
  PROVE  MaxScroll(len, height) = IF len <= height THEN 0 ELSE len - height
BY MaxOfTwo DEF MaxScroll
LEMMA NextEntryStays ==
  ASSUME NEW len \in Nat \ {0}, NEW height \in Nat \ {0}, NEW c \in CursorsIn(len, height)
  PROVE  NextEntry(len, height, c) \in CursorsIn(len, height)
BY MaxScrollIs, ConstantsAssumption DEF CursorsIn, Cursors, NextEntry
LEMMA PrevEntryStays ==
  ASSUME NEW len \in Nat \ {0}, NEW height \in Nat \ {0}, NEW c \in CursorsIn(len, height)
  PROVE  PrevEntry(len, height, c) \in CursorsIn(len, height)
<1>1. Max({c.scroll - 1, 0}) = IF c.scroll >= 1 THEN c.scroll - 1 ELSE 0
  BY MaxOfTwo DEF CursorsIn, Cursors
<1> QED BY <1>1, ConstantsAssumption DEF CursorsIn, Cursors, PrevEntry
LEMMA MovesStay ==
  ASSUME NEW len \in Nat \ {0}, NEW height \in Nat \ {0}, NEW c \in CursorsIn(len, height)
  PROVE  Moves(len, height, c) \subseteq CursorsIn(len, height)
<1> DEFINE S == CursorsIn(len, height)
           down == [d \in Cursors |-> NextEntry(len, height, d)]
           up == [d \in Cursors |-> PrevEntry(len, height, d)]
<1>1. S \subseteq Cursors
  BY DEF CursorsIn
<1>2. \A d \in S : down[d] \in S /\ up[d] \in S
  BY <1>1, NextEntryStays, PrevEntryStays
<1>3. Iterated(down, PgJump, c) \in S /\ Iterated(up, PgJump, c) \in S
  <2> HIDE DEF down, up, S
  <2> QED BY <1>2, IteratedKeeps, ConstantsAssumption DEF S
<1>4. [sel |-> len - 1, scroll |-> MaxScroll(len, height)] \in S
  BY MaxScrollIs DEF CursorsIn, Cursors
<1>5. [sel |-> 0, scroll |-> 0] \in S
  BY DEF CursorsIn, Cursors
<1> HIDE DEF S
<1> QED BY <1>2, <1>3, <1>4, <1>5 DEF Moves, S

LEMMA UiTypes ==
  ASSUME NEW u \in Ui
  PROVE  /\ u.k \in Configs[src] /\ u.cur \in Menus(src) /\ u.shown \in Seq(NodesOf(src))
         /\ u.sel \in Nat /\ u.scroll \in Int /\ u.rows \in Seq(Nat) /\ u.all \in BOOLEAN
         /\ u.changed \in BOOLEAN /\ u.name \in Filenames /\ u.height \in Heights
         /\ u.height \in Nat \ {0} /\ u.error \in BOOLEAN /\ Len(u.shown) \in Nat
<1>1. /\ u.k \in Configs[src] /\ u.cur \in Menus(src) /\ u.shown \in Seq(NodesOf(src))
      /\ u.sel \in Nat /\ u.scroll \in Int /\ u.rows \in Seq(Nat) /\ u.all \in BOOLEAN
      /\ u.changed \in BOOLEAN /\ u.name \in Filenames /\ u.height \in Heights
      /\ u.error \in BOOLEAN
  BY DEF Ui
<1>2. u.height \in Nat \ {0}
  BY <1>1, ConstantsAssumption
<1>3. Len(u.shown) \in Nat
  BY <1>1
<1> QED BY <1>1, <1>2, <1>3

LEMMA UiCursor ==
  ASSUME NEW u \in Ui, NEW sel \in Nat, NEW scroll \in Int
  PROVE  [u EXCEPT !.sel = sel, !.scroll = scroll] \in Ui
BY DEF Ui

(* _resize_main(), _center_vertically()                                    *)
LEMMA ResizeGood ==
  ASSUME NEW u, Good(u), NEW h \in Heights
  PROVE  /\ Good(resize_main(u, h)) /\ SameConfig(u, resize_main(u, h))
         /\ resize_main(u, h).error = u.error
<1> DEFINE v == resize_main(u, h)
<1>1. v.scroll = IF Row(u) >= h THEN u.sel - h + 1 ELSE u.scroll
  BY DEF Good, Placed, InList, Ui, resize_main
<1>2. /\ v.height = h /\ v.sel = u.sel /\ v.shown = u.shown /\ v.error = u.error
      /\ v.cur = u.cur /\ v.all = u.all /\ SameConfig(u, v)
  BY DEF Good, Placed, InList, Ui, resize_main, SameConfig
<1>3. v \in Ui
  <2> DEFINE top == IF Row(u) >= h THEN u.sel - h + 1 ELSE u.scroll
  <2>1. u \in Ui /\ top \in Int
    BY UiTypes, ConstantsAssumption DEF Good, Placed, InList, Row
  <2>2. v = [u EXCEPT !.height = h, !.scroll = top]
    BY <2>1 DEF resize_main, Ui
  <2> HIDE DEF top, v
  <2> QED BY <2>1, <2>2 DEF Ui
<1>4. OnScreen(v)
  <2>1. u.sel \in Nat /\ u.scroll \in Nat /\ h \in Nat \ {0} /\ Row(u) >= 0 /\ Row(u) = u.sel - u.scroll
    BY ConstantsAssumption DEF Good, Placed, InList, Ui, OnScreen, Row
  <2> HIDE DEF v
  <2> QED BY <1>1, <1>2, <2>1 DEF OnScreen, Row
<1> HIDE DEF v
<1>5. Good(v)
  BY <1>2, <1>3, <1>4 DEF Good, Placed, InList, SameConfig
<1> QED BY <1>2, <1>5 DEF v
LEMMA CenterGood ==
  ASSUME NEW u, Placed(u)
  PROVE  /\ Good(center_vertically(u)) /\ SameConfig(u, center_vertically(u))
         /\ center_vertically(u).error = u.error /\ center_vertically(u).cur = u.cur
<1> DEFINE h == u.height
           len == Len(u.shown)
           half == u.sel - h \div 2
           low == Max({half, 0})
           top == Min({low, MaxScroll(len, h)})
<1>1. h \in Nat \ {0} /\ len \in Nat /\ u.sel \in 0..(len - 1)
  BY UiTypes DEF Placed, InList
<1>2. h \div 2 \in 0..(h - 1) /\ half \in Int
  <2> HIDE DEF h
  <2> QED BY <1>1
<1>3. low = IF half >= 0 THEN half ELSE 0
  <2> HIDE DEF half
  <2> QED BY <1>2, MaxOfTwo
<1>4. MaxScroll(len, h) = IF len <= h THEN 0 ELSE len - h
  BY <1>1, MaxScrollIs
<1>5. top = IF low <= MaxScroll(len, h) THEN low ELSE MaxScroll(len, h)
  <2>1. low \in Int /\ MaxScroll(len, h) \in Int
    <3> HIDE DEF half, low
    <3> QED BY <1>1, <1>2, <1>3, <1>4
  <2> HIDE DEF low
  <2> QED BY <2>1, MinOfTwo
<1>6. top \in Nat /\ u.sel - top \in 0..(h - 1)
  <2> DEFINE d == h \div 2
  <2>1. half = u.sel - d /\ d \in 0..(h - 1)
    BY <1>2
  <2> HIDE DEF top, low, half, d, h, len
  <2> QED BY <1>1, <2>1, <1>3, <1>4, <1>5
<1>7. center_vertically(u) = [u EXCEPT !.scroll = top]
  BY DEF center_vertically
<1> DEFINE v == center_vertically(u)
<1> HIDE DEF top
<1>8. /\ v \in Ui /\ v.scroll = top /\ v.height = u.height /\ v.sel = u.sel /\ v.shown = u.shown
      /\ v.error = u.error /\ v.cur = u.cur /\ v.all = u.all
  BY <1>6, <1>7 DEF Placed, InList, Ui
<1>9. SameConfig(u, v)
  BY <1>7 DEF Placed, InList, Ui, SameConfig
<1>10. Good(v)
  <2> HIDE DEF v
  <2> QED BY <1>6, <1>8, <1>9 DEF Good, Placed, InList, OnScreen, Row, SameConfig
<1> QED BY <1>8, <1>9, <1>10

(* The cursor goes to a node of a new list, if it is there.                *)
LEMMA ReselectGood ==
  ASSUME NEW u, InList(u), NEW list \in Seq(NodesOf(src)), NEW node, NEW v,
         v = Reselect(u, list, node)
  PROVE  /\ InList(v) /\ SameConfig(u, v) /\ v.cur = u.cur /\ v.all = u.all
         /\ v.error <=> u.error \/ node \notin ToSet(list)
         /\ node \in ToSet(list) => v.shown = list
         /\ OnScreen(u) => OnScreen(v)
<1> DEFINE j == Index(list, node)
<1>1. CASE node \notin ToSet(list)
  <2>1. v = [u EXCEPT !.error = TRUE]
    BY <1>1, IndexFinds DEF Reselect, ReselectAt
  <2> QED BY <1>1, <2>1 DEF InList, Ui, SameConfig, OnScreen, Row
<1>2. CASE node \in ToSet(list)
  <2>1. j \in 0..(Len(list) - 1)
    BY <1>2, IndexFinds
  <2>2. v = [u EXCEPT !.shown = list, !.sel = j, !.scroll = Max({j - Row(u), 0})]
    BY <2>1 DEF Reselect, ReselectAt
  <2>3. Row(u) \in Int
    BY DEF InList, Ui, Row
  <2>4. Max({j - Row(u), 0}) = IF j - Row(u) >= 0 THEN j - Row(u) ELSE 0
    BY <2>1, <2>3, MaxOfTwo
  <2> HIDE DEF j
  <2> DEFINE top == Max({j - Row(u), 0})
  <2>5. top \in Nat
    BY <2>1, <2>3, <2>4
  <2> HIDE DEF top
  <2>6. v = [u EXCEPT !.shown = list, !.sel = j, !.scroll = top]
    BY <2>2 DEF top
  <2>7. /\ v \in Ui /\ v.cur = u.cur /\ v.all = u.all /\ v.error = u.error /\ v.shown = list
        /\ v.sel = j /\ v.height = u.height /\ v.scroll = top
    <3>1. u \in Ui /\ j \in Nat /\ top \in Int
      BY <2>1, <2>5 DEF InList
    <3>2. v \in Ui
      BY <2>6, <3>1 DEF Ui
    <3> QED BY <2>6, <3>1, <3>2 DEF Ui
  <2>8. SameConfig(u, v)
    BY <2>6 DEF InList, Ui, SameConfig
  <2>9. OnScreen(u) => OnScreen(v)
    <3>1. top = IF j - Row(u) >= 0 THEN j - Row(u) ELSE 0
      BY <2>4 DEF top
    <3>2. u.height \in Nat \ {0}
      BY ConstantsAssumption DEF InList, Ui
    <3> QED BY <2>1, <2>3, <2>5, <2>7, <3>1, <3>2 DEF OnScreen, Row
  <2>10. InList(v)
    BY <2>1, <2>7 DEF InList
  <2> QED BY <1>2, <2>7, <2>8, <2>9, <2>10
<1> QED BY <1>1, <1>2

-----------------------------------------------------------------------------
(* The menus.  What leads to another list leads to a list of nodes that is *)
(* that of the menu.                                                       *)
LEMMA ListedNodes ==
  ASSUME src \in Sources, NEW k \in Configs[src], NEW m \in Menus(src), NEW all \in BOOLEAN
  PROVE  Listed(k, all, m) \in Seq(NodesOf(src))
BY ShownAssumption DEF Listed

LEMMA SelNodeIsNode ==
  ASSUME NEW u, InList(u)
  PROVE  SelNode(u) \in NodesOf(src) /\ SelNode(u) \in ToSet(u.shown)
<1>1. u.shown \in Seq(NodesOf(src)) /\ u.sel + 1 \in 1..Len(u.shown)
  BY UiTypes DEF InList
<1> QED BY <1>1 DEF SelNode, ToSet

LEMMA NotEmpty ==
  ASSUME NEW u, InList(u)
  PROVE  u.shown # <<>>
BY UiTypes DEF InList

(* _update_menu()                                                          *)
LEMMA UpdateMenuGood ==
  ASSUME src \in Sources, NEW u, InList(u), ~u.error, NEW v, v = update_menu(u)
  PROVE  /\ Placed(v) /\ SameConfig(u, v) /\ v.cur = u.cur /\ v.all = u.all
         /\ v.error <=> SelNode(u) \notin ToSet(Listed(u.k, u.all, u.cur))
         /\ OnScreen(u) => OnScreen(v)
<1> DEFINE list == Listed(u.k, u.all, u.cur)
<1>1. list \in Seq(NodesOf(src))
  BY UiTypes, ListedNodes DEF InList
<1>2. v = Reselect(u, list, SelNode(u))
  BY DEF update_menu
<1>3. /\ InList(v) /\ SameConfig(u, v) /\ v.cur = u.cur /\ v.all = u.all
      /\ v.error <=> SelNode(u) \notin ToSet(list)
      /\ SelNode(u) \in ToSet(list) => v.shown = list
      /\ OnScreen(u) => OnScreen(v)
  <2> HIDE DEF list
  <2> QED BY <1>1, <1>2, ReselectGood
<1> QED BY <1>3 DEF Placed, SameConfig

(* _select_selected_choice_sym()                                           *)
LEMMA SelectGood ==
  ASSUME src \in Sources, NEW u, Placed(u), At(u.cur).kind = "choice",
         NEW v, v = select_selected_choice_sym(u)
  PROVE  Placed(v) /\ SameConfig(u, v) /\ v.error = u.error /\ (OnScreen(u) => OnScreen(v))
<1> DEFINE nodes == SelectionNodes(src, u.k, u.cur)
           found == {j \in DOMAIN nodes : Contains(u.shown, nodes[j])}
           at == Index(u.shown, nodes[Min(found)])
<1>1. nodes \in Seq(NodesOf(src))
  BY UiTypes, ShownAssumption DEF Placed, InList, At
<1>2. v = SelectFirst(u, nodes, found)
  BY DEF select_selected_choice_sym, SelectAmong
<1>3. CASE found = {}
  BY <1>2, <1>3 DEF SelectFirst, SameConfig
<1>4. CASE found # {}
  <2>1. Min(found) \in found
    <3>1. found \in SUBSET Nat
      BY <1>1
    <3> HIDE DEF found
    <3> QED BY <1>4, <3>1, LeastOfNat
  <2>2. u.shown \in Seq(NodesOf(src)) /\ nodes[Min(found)] \in ToSet(u.shown)
    <3>1. u.shown \in Seq(NodesOf(src))
      BY UiTypes DEF Placed, InList
    <3> QED BY <2>1, <3>1, ContainsIsIn
  <2>3. at \in 0..(Len(u.shown) - 1)
    <3> HIDE DEF found, nodes
    <3> QED BY <2>2, IndexFinds
  <2> DEFINE w == [u EXCEPT !.sel = at]
  <2>4. v = center_vertically(w)
    BY <1>2, <1>4 DEF SelectFirst
  <2> HIDE DEF at
  <2>5. /\ w \in Ui /\ w.sel = at /\ w.shown = u.shown /\ w.error = u.error
        /\ w.k = u.k /\ w.all = u.all /\ w.cur = u.cur
    <3>1. u \in Ui /\ at \in Nat
      BY <2>3 DEF Placed, InList
    <3>2. w \in Ui
      BY <3>1 DEF Ui
    <3> QED BY <3>1, <3>2 DEF Ui
  <2>6. SameConfig(u, w)
    BY DEF Placed, InList, Ui, SameConfig
  <2> HIDE DEF w
  <2>7. Placed(w)
    BY <2>3, <2>5 DEF Placed, InList
  <2>8. Good(v) /\ SameConfig(w, v) /\ v.error = w.error
    BY <2>4, <2>7, CenterGood
  <2> QED BY <2>5, <2>6, <2>8 DEF Good, SameConfig
<1> QED BY <1>3, <1>4

(* _enter_menu()                                                           *)
LEMMA EnterGood ==
  ASSUME src \in Sources, NEW u, Good(u), ~u.error, NEW p \in NodesOf(src), Enterable(u, p),
         NEW v, v = enter_menu(u, p)
  PROVE  Good(v) /\ SameConfig(u, v) /\ ~v.error
<1> DEFINE list == Listed(u.k, u.all, p)
           w == Entered(u, p, list)
<1>1. u \in Ui /\ Row(u) \in Nat
  BY UiTypes DEF Good, Placed, InList, OnScreen, Row
<1>2. p \in Menus(src)
  BY DEF Enterable, At, Menus
<1>3. list \in Seq(NodesOf(src)) /\ list # <<>>
  BY <1>1, <1>2, UiTypes, ListedNodes DEF Enterable
<1> HIDE DEF list
<1>4. w = [u EXCEPT !.rows = Append(u.rows, Row(u)), !.cur = p, !.shown = list, !.sel = 0, !.scroll = 0]
  BY <1>1 DEF Entered, Ui
<1>5. w \in Ui
  <2> DEFINE rows == Append(u.rows, Row(u))
  <2>1. rows \in Seq(Nat)
    BY <1>1, UiTypes
  <2>2. w = [u EXCEPT !.rows = rows, !.cur = p, !.shown = list, !.sel = 0, !.scroll = 0]
    BY <1>4
  <2> HIDE DEF rows, w
  <2> DEFINE x == [u EXCEPT !.rows = rows, !.cur = p, !.shown = list]
  <2>3. x \in Ui
    BY <1>1, <1>2, <1>3, <2>1 DEF Ui
  <2>4. w = [x EXCEPT !.sel = 0, !.scroll = 0]
    BY <1>1, <2>2 DEF Ui
  <2> HIDE DEF x
  <2>5. 0 \in Nat /\ 0 \in Int
    OBVIOUS
  <2> QED BY <2>3, <2>4, <2>5, UiCursor, Zenon
<1>6. /\ w.cur = p /\ w.shown = list /\ w.sel = 0 /\ w.scroll = 0 /\ w.height = u.height
      /\ w.error = u.error /\ w.k = u.k /\ w.all = u.all
  BY <1>1, <1>4 DEF Ui
<1>7. SameConfig(u, w)
  BY <1>1, <1>4 DEF Ui, SameConfig
<1>8. v = IF At(p).kind = "choice" THEN select_selected_choice_sym(w) ELSE w
  BY DEF enter_menu, list
<1> HIDE DEF w
<1>9. Placed(w)
  BY <1>3, <1>5, <1>6 DEF Placed, InList, list
<1>10. OnScreen(w)
  BY <1>1, <1>6, UiTypes DEF OnScreen, Row
<1>11. CASE At(p).kind = "choice"
  BY <1>6, <1>7, <1>8, <1>9, <1>10, <1>11, SelectGood DEF Good, SameConfig
<1>12. CASE At(p).kind # "choice"
  BY <1>6, <1>7, <1>8, <1>9, <1>10, <1>12 DEF Good, SameConfig
<1> QED BY <1>11, <1>12

(* _leave_menu()                                                           *)
LEMMA LeaveGood ==
  ASSUME src \in Sources, NEW u, Good(u), ~u.error, NEW v, v = leave_menu(u)
  PROVE  Good(v) /\ SameConfig(u, v) /\ (MenusListed(src) => ~v.error)
<1> DEFINE parent == ParentMenu(src, u.cur)
           list == Listed(u.k, u.all, parent)
           j == Index(list, u.cur)
<1>1. u \in Ui /\ Row(u) \in Nat
  BY UiTypes DEF Good, Placed, InList, OnScreen, Row
<1>2. CASE u.cur = TopMenu
  BY <1>2 DEF leave_menu, SameConfig
<1>3. CASE u.cur # TopMenu
  <2>1. u.cur \in NodesOf(src) /\ parent \in Menus(src)
    BY <1>1, <1>3, UiTypes, TreeAssumption DEF Menus
  <2>2. list \in Seq(NodesOf(src))
    BY <1>1, <2>1, UiTypes, ListedNodes
  <2>3. v = LeaveTo(u, parent, list, j)
    BY <1>3 DEF leave_menu, LeaveFor, LeaveInto
  <2>4. MenusListed(src) => u.cur \in ToSet(list)
    <3>1. u.shown = ShownNodes(src, u.k, u.all, u.cur) /\ u.shown # <<>>
      BY NotEmpty DEF Good, Placed, Listed
    <3> QED BY <1>1, <1>3, <3>1, UiTypes DEF MenusListed, Listed
  <2>5. CASE u.cur \notin ToSet(list)
    <3>1. v = [u EXCEPT !.error = TRUE]
      BY <2>2, <2>3, <2>5, IndexFinds DEF LeaveTo
    <3>2. /\ v \in Ui /\ v.error /\ v.sel = u.sel /\ v.shown = u.shown /\ v.scroll = u.scroll
          /\ v.height = u.height
      BY <1>1, <3>1 DEF Ui
    <3>3. SameConfig(u, v)
      BY <1>1, <3>1 DEF Ui, SameConfig
    <3> QED BY <2>4, <2>5, <3>2, <3>3 DEF Good, Placed, InList, OnScreen, Row
  <2>6. CASE u.cur \in ToSet(list)
    <3>1. j \in 0..(Len(list) - 1)
      BY <2>2, <2>6, IndexFinds
    <3>2. j # -1
      BY <3>1
    <3> HIDE DEF list, j, parent
    <3>3. CASE u.rows = <<>>
      <4> DEFINE w == [u EXCEPT !.cur = parent, !.shown = list, !.sel = j]
      <4>1. v = center_vertically(w)
        BY <2>3, <3>2, <3>3 DEF LeaveTo
      <4>2. w \in Ui
        <5>1. j \in Nat
          BY <3>1
        <5> QED BY <1>1, <2>1, <2>2, <5>1 DEF Ui
      <4>3. /\ w.sel = j /\ w.shown = list /\ w.cur = parent /\ w.k = u.k /\ w.all = u.all
            /\ w.error = u.error
        BY <1>1 DEF Ui
      <4>4. SameConfig(u, w)
        BY <1>1 DEF Ui, SameConfig
      <4> HIDE DEF w
      <4>5. Placed(w)
        BY <3>1, <4>2, <4>3 DEF Placed, InList, list
      <4> QED BY <4>1, <4>3, <4>4, <4>5, CenterGood DEF SameConfig
    <3>4. CASE u.rows # <<>>
      <4> DEFINE row == Min({Last(u.rows), u.height - 1})
                 top == Max({j - row, 0})
                 rows == Front(u.rows)
      <4>1. u.height \in Nat \ {0} /\ Last(u.rows) \in Nat /\ rows \in Seq(Nat)
        BY <1>1, <3>4, UiTypes DEF Last, Front
      <4>2. row \in 0..(u.height - 1)
        <5>1. row = IF Last(u.rows) <= u.height - 1 THEN Last(u.rows) ELSE u.height - 1
          BY <4>1, MinOfTwo
        <5> HIDE DEF row
        <5> QED BY <4>1, <5>1
      <4> HIDE DEF row
      <4>3. top = IF j - row >= 0 THEN j - row ELSE 0
        BY <3>1, <4>1, <4>2, MaxOfTwo
      <4>4. top \in Int /\ top \in Nat
        <5> HIDE DEF top
        <5> QED BY <3>1, <4>1, <4>2, <4>3
      <4>5. v = [u EXCEPT !.cur = parent, !.shown = list, !.sel = j, !.rows = rows, !.scroll = top]
        BY <1>1, <2>3, <3>2, <3>4 DEF LeaveTo, row, Ui
      <4> HIDE DEF top, rows
      <4>6. v \in Ui
        <5> DEFINE x == [u EXCEPT !.cur = parent, !.shown = list, !.rows = rows]
        <5>1. x \in Ui
          BY <1>1, <2>1, <2>2, <4>1 DEF Ui
        <5>2. v = [x EXCEPT !.sel = j, !.scroll = top]
          BY <1>1, <4>5 DEF Ui
        <5>3. j \in Nat
          BY <3>1
        <5> HIDE DEF x
        <5> QED BY <4>4, <5>1, <5>2, <5>3, UiCursor
      <4>7. /\ v.sel = j /\ v.shown = list /\ v.cur = parent /\ v.k = u.k /\ v.all = u.all
            /\ v.error = u.error /\ v.scroll = top /\ v.height = u.height
        BY <1>1, <4>5 DEF Ui
      <4>8. SameConfig(u, v)
        BY <1>1, <4>5 DEF Ui, SameConfig
      <4>9. Placed(v)
        BY <3>1, <4>6, <4>7 DEF Placed, InList, list
      <4>10. OnScreen(v)
        BY <3>1, <4>1, <4>2, <4>3, <4>4, <4>7 DEF OnScreen, Row
      <4> QED BY <4>7, <4>8, <4>9, <4>10 DEF Good
    <3> QED BY <3>3, <3>4
  <2> QED BY <2>5, <2>6
<1> QED BY <1>2, <1>3

(* _toggle_show_all(): the closest node that stays is one that stays.      *)
LEMMA ClosestIsKept ==
  ASSUME NEW kept \in SUBSET Nat, kept # {}, NEW sel \in Nat
  PROVE  Closest(kept, sel) \in kept
<1> DEFINE below == {j \in kept : j <= sel + 1}
<1>1. CASE \E j \in kept : j <= sel + 1
  <2>1. below \in SUBSET Nat /\ sel + 1 \in Nat /\ \A j \in below : j <= sel + 1
    <3>1. below \in SUBSET Nat /\ \A j \in below : j <= sel + 1
      BY Zenon
    <3> QED BY <3>1
  <2>2. Max(below) \in below
    <3>1. below # {}
      BY <1>1
    <3> HIDE DEF below
    <3> QED BY <2>1, <3>1, GreatestBelow
  <2>3. Closest(kept, sel) = Max(below)
    BY <1>1 DEF Closest
  <2> QED BY <2>2, <2>3
<1>2. CASE ~\E j \in kept : j <= sel + 1
  BY <1>2, LeastOfNat DEF Closest
<1> QED BY <1>1, <1>2

LEMMA ToggleGood ==
  ASSUME src \in Sources, NEW u, Placed(u), ~u.error, NEW v, v = toggle_show_all(u)
  PROVE  /\ Placed(v) /\ SameConfig(u, v) /\ v.cur = u.cur /\ ~v.error
         /\ OnScreen(u) => OnScreen(v)
<1> DEFINE flip == ~u.all
           list == Listed(u.k, flip, u.cur)
           kept == {j \in DOMAIN u.shown : Contains(list, u.shown[j])}
           node == u.shown[Closest(kept, u.sel)]
<1>1. u \in Ui /\ u.shown \in Seq(NodesOf(src)) /\ u.sel + 1 \in DOMAIN u.shown
  BY UiTypes DEF Placed, InList
<1>2. flip \in BOOLEAN
  OBVIOUS
<1>3. list \in Seq(NodesOf(src))
  <2> HIDE DEF flip
  <2> QED BY <1>1, <1>2, UiTypes, ListedNodes
<1>4. v = IF kept = {} THEN [u EXCEPT !.all = TRUE]
          ELSE [Reselect(u, list, node) EXCEPT !.all = ~@]
  BY DEF toggle_show_all
<1>5. CASE kept = {}
  <2>1. u.all = TRUE
    <3>1. SUFFICES ASSUME u.all = FALSE PROVE FALSE
      BY <1>1, UiTypes
    <3>2. list = ShownNodes(src, u.k, TRUE, u.cur) /\ u.shown = ShownNodes(src, u.k, FALSE, u.cur)
      BY <3>1 DEF Placed, Listed
    <3>3. ToSet(u.shown) \subseteq ToSet(list)
      BY <1>1, <3>2, UiTypes, ShownAssumption
    <3>4. u.shown[u.sel + 1] \in ToSet(list)
      BY <1>1, <3>3 DEF ToSet
    <3>5. Contains(list, u.shown[u.sel + 1])
      <4> HIDE DEF list
      <4> QED BY <1>3, <3>4, ContainsIsIn
    <3> QED BY <1>1, <1>5, <3>5
  <2>2. v = u
    BY <1>1, <1>4, <1>5, <2>1 DEF Ui
  <2> QED BY <2>2 DEF SameConfig
<1>6. CASE kept # {}
  <2> DEFINE w == Reselect(u, list, node)
  <2>1. Closest(kept, u.sel) \in kept
    <3>1. kept \in SUBSET Nat /\ u.sel \in Nat
      BY <1>1, UiTypes
    <3> HIDE DEF kept
    <3> QED BY <1>6, <3>1, ClosestIsKept
  <2>2. node \in ToSet(list)
    <3>1. Contains(list, node)
      BY <2>1
    <3> HIDE DEF node, list
    <3> QED BY <1>3, <3>1, ContainsIsIn
  <2>3. /\ InList(w) /\ SameConfig(u, w) /\ w.cur = u.cur /\ w.all = u.all /\ ~w.error
        /\ w.shown = list /\ (OnScreen(u) => OnScreen(w))
    <3> HIDE DEF node, list
    <3> QED BY <1>3, <2>2, ReselectGood DEF Placed
  <2>4. v = [w EXCEPT !.all = flip]
    BY <1>4, <1>6, <2>3 DEF InList, Ui
  <2> HIDE DEF w, flip
  <2>5. v \in Ui
    BY <1>2, <2>3, <2>4 DEF InList, Ui
  <2>6. /\ v.all = flip /\ v.cur = w.cur /\ v.shown = w.shown /\ v.sel = w.sel /\ v.error = w.error
        /\ v.scroll = w.scroll /\ v.height = w.height
    BY <2>3, <2>4 DEF InList, Ui
  <2>7. SameConfig(w, v)
    BY <2>3, <2>4 DEF InList, Ui, SameConfig
  <2>8. Placed(v)
    BY <2>3, <2>5, <2>6, <2>7 DEF Placed, InList, SameConfig
  <2> QED BY <2>3, <2>6, <2>7, <2>8 DEF SameConfig, OnScreen, Row
<1> QED BY <1>5, <1>6

(* _jump_to(): to a node that is in the list, with show-all if need be.    *)
NotFound(w) == w.sel = -1
LEMMA ShowNodeGood ==
  ASSUME src \in Sources, NEW u, Good(u), ~u.error, NEW cur \in Menus(src), NEW node,
         NEW w, w = ShowNode(u, cur, node)
  PROVE  /\ NotFound(w) \/ (Placed(w) /\ SameConfig(u, w) /\ w.cur = cur /\ ~w.error)
         /\ node \in ToSet(Listed(u.k, TRUE, cur)) => ~NotFound(w)
<1> DEFINE hidden == ~Contains(Listed(u.k, u.all, cur), node)
           all == u.all \/ hidden
           list == Listed(u.k, all, cur)
           at == Index(list, node)
<1>1. u \in Ui
  BY DEF Good, Placed, InList
<1>2. all \in BOOLEAN /\ (~all => ~u.all /\ ~hidden)
  OBVIOUS
<1>3. list \in Seq(NodesOf(src))
  <2> HIDE DEF all
  <2> QED BY <1>1, <1>2, UiTypes, ListedNodes
<1>4. w = [u EXCEPT !.rows = <<>>, !.cur = cur, !.all = all, !.shown = list, !.sel = at]
  BY DEF ShowNode, ShowAllIf, ShowMenu
<1>5. node \in ToSet(Listed(u.k, TRUE, cur)) => node \in ToSet(list)
  <2>1. SUFFICES ASSUME node \in ToSet(Listed(u.k, TRUE, cur)) PROVE node \in ToSet(list)
    OBVIOUS
  <2>2. CASE all
    <3>1. list = Listed(u.k, TRUE, cur)
      BY <1>2, <2>2
    <3> QED BY <2>1, <3>1
  <2>3. CASE ~all
    <3>1. u.all = FALSE /\ all = FALSE
      BY <1>1, <1>2, <2>3, UiTypes
    <3>2. Contains(list, node)
      BY <1>2, <2>3, <3>1
    <3> HIDE DEF list
    <3> QED BY <1>3, <3>2, ContainsIsIn
  <2> QED BY <2>2, <2>3
<1> HIDE DEF all, list, at
<1>6. w.sel = at
  BY <1>1, <1>4 DEF Ui
<1>7. CASE node \notin ToSet(list)
  BY <1>3, <1>5, <1>6, <1>7, IndexFinds DEF at, NotFound
<1>8. CASE node \in ToSet(list)
  <2>1. at \in 0..(Len(list) - 1) /\ at \in Nat /\ at # -1
    <3>1. at \in 0..(Len(list) - 1)
      BY <1>3, <1>8, IndexFinds DEF at
    <3> QED BY <1>3, <3>1
  <2>2. w \in Ui
    <3> DEFINE none == <<>>
               x == [u EXCEPT !.rows = none, !.cur = cur, !.all = all]
    <3>1. none \in Seq(Nat)
      OBVIOUS
    <3>2. w = [x EXCEPT !.shown = list, !.sel = at]
      BY <1>1, <1>4 DEF Ui
    <3> HIDE DEF none
    <3>3. x \in Ui
      BY <1>1, <1>2, <3>1 DEF Ui
    <3> HIDE DEF x
    <3> QED BY <1>3, <2>1, <3>2, <3>3 DEF Ui
  <2>3. /\ w.cur = cur /\ w.all = all /\ w.shown = list /\ w.k = u.k /\ w.error = u.error
    BY <1>1, <1>4 DEF Ui
  <2>4. SameConfig(u, w)
    BY <1>1, <1>4 DEF Ui, SameConfig
  <2>5. Placed(w)
    BY <1>6, <2>1, <2>2, <2>3 DEF Placed, InList, list
  <2> QED BY <1>6, <2>1, <2>3, <2>4, <2>5 DEF NotFound
<1> QED BY <1>7, <1>8

LEMMA JumpedIntoGood ==
  ASSUME src \in Sources, NEW old, NEW u, Placed(u), ~u.error, NEW v, v = JumpedInto(old, u)
  PROVE  Good(v) /\ SameConfig(u, v) /\ ~v.error
<1> DEFINE w == IF u.all # old.all THEN toggle_show_all(u) ELSE u
           c == center_vertically(w)
<1>1. Placed(w) /\ SameConfig(u, w) /\ w.cur = u.cur /\ ~w.error
  BY ToggleGood DEF SameConfig
<1> HIDE DEF w
<1>2. Good(c) /\ SameConfig(w, c) /\ c.cur = u.cur /\ ~c.error
  BY <1>1, CenterGood
<1>3. v = IF At(u.cur).kind = "choice" THEN select_selected_choice_sym(c) ELSE c
  BY DEF JumpedInto, w
<1> HIDE DEF c
<1>4. CASE At(u.cur).kind = "choice"
  BY <1>1, <1>2, <1>3, <1>4, SelectGood DEF Good, SameConfig
<1>5. CASE At(u.cur).kind # "choice"
  BY <1>1, <1>2, <1>3, <1>5 DEF SameConfig
<1> QED BY <1>4, <1>5

LEMMA JumpGood ==
  ASSUME src \in Sources, NEW u, Good(u), ~u.error, NEW p \in NodesOf(src), NEW v, v = jump_to(u, p)
  PROVE  Good(v) /\ SameConfig(u, v) /\ (AllListed(src) => ~v.error)
<1> DEFINE into == CanJumpInto(At(p))
           cur == IF into THEN p ELSE ParentMenu(src, p)
           node == IF into THEN At(p).list[1] ELSE p
           w == ShowNode(u, cur, node)
<1>1. u \in Ui
  BY DEF Good, Placed, InList
<1>2. cur \in Menus(src)
  BY TreeAssumption DEF At
<1>3. AllListed(src) => node \in ToSet(Listed(u.k, TRUE, cur))
  <2>1. u.k \in Configs[src]
    BY <1>1, UiTypes
  <2>2. CASE into
    BY <2>1, <2>2 DEF AllListed, Listed, At
  <2>3. CASE ~into
    BY <2>1, <2>3 DEF AllListed, Listed
  <2> QED BY <2>2, <2>3
<1>4. v = Jumped(u, w, into)
  BY DEF jump_to
<1> HIDE DEF cur, node, into
<1>5. /\ NotFound(w) \/ (Placed(w) /\ SameConfig(u, w) /\ w.cur = cur /\ ~w.error)
      /\ node \in ToSet(Listed(u.k, TRUE, cur)) => ~NotFound(w)
  BY <1>2, ShowNodeGood
<1> HIDE DEF w
<1>6. CASE NotFound(w)
  <2>1. v = [u EXCEPT !.error = TRUE]
    BY <1>4, <1>6 DEF Jumped, NotFound
  <2>2. /\ v \in Ui /\ v.error /\ v.sel = u.sel /\ v.shown = u.shown /\ v.scroll = u.scroll
        /\ v.height = u.height
    BY <1>1, <2>1 DEF Ui
  <2>3. SameConfig(u, v)
    BY <1>1, <2>1 DEF Ui, SameConfig
  <2> QED BY <1>3, <1>5, <1>6, <2>2, <2>3 DEF Good, Placed, InList, OnScreen, Row
<1>7. CASE ~NotFound(w)
  <2>1. v = IF into THEN JumpedInto(u, w) ELSE center_vertically(w)
    BY <1>4, <1>7 DEF Jumped, NotFound
  <2> QED BY <1>5, <1>7, <2>1, JumpedIntoGood, CenterGood DEF SameConfig
<1> QED BY <1>6, <1>7

-----------------------------------------------------------------------------
(* Values.  Whatever is changed, what is looked for is what was selected.  *)
LEMMA UpdateKeepsK ==
  ASSUME NEW u, "k" \in DOMAIN u
  PROVE  update_menu(u).k = u.k /\ "k" \in DOMAIN update_menu(u)
BY DEF update_menu, Reselect, ReselectAt
LEMMA LeaveKeepsK ==
  ASSUME NEW u, "k" \in DOMAIN u
  PROVE  leave_menu(u).k = u.k
BY DEF leave_menu, LeaveFor, LeaveInto, LeaveTo, center_vertically

(* _set_val(), of the item of the node that is selected                    *)
LEMMA SetValK ==
  ASSUME NEW u \in Ui, NEW i, NEW x
  PROVE  /\ "k" \in DOMAIN set_val(u, i, x)
         /\ x # ValueNow(u.k, i) => set_val(u, i, x).k = WithValue(u.k, i, x)
<1> DEFINE w == [u EXCEPT !.k = WithValue(u.k, i, x), !.changed = TRUE]
<1>1. "k" \in DOMAIN u /\ "k" \in DOMAIN w /\ w.k = WithValue(u.k, i, x)
  BY DEF Ui
<1>2. set_val(u, i, x) = IF x = ValueNow(u.k, i) THEN u ELSE update_menu(w)
  BY DEF set_val
<1> HIDE DEF w
<1> QED BY <1>1, <1>2, UpdateKeepsK

(* Within the bound, what is set is in Configs.                            *)
LEMMA SetValInConfigs ==
  ASSUME src \in Sources, NEW u \in Ui, NEW p \in NodesOf(src), IsItem(At(p)),
         NEW x \in Offered(u.k, At(p).item), NEW v, v = set_val(u, At(p).item, x),
         v.k = u.k \/ InBounds(v.k)
  PROVE  v.k \in Configs[src]
<1>1. u.k \in Configs[src]
  BY UiTypes
<1>2. CASE x = ValueNow(u.k, At(p).item)
  BY <1>1, <1>2 DEF set_val
<1>3. CASE x # ValueNow(u.k, At(p).item)
  <2>1. v.k = WithValue(u.k, At(p).item, x)
    BY <1>3, SetValK
  <2>2. InBounds(WithValue(u.k, At(p).item, x)) => WithValue(u.k, At(p).item, x) \in Configs[src]
    BY <1>1, ChangesAssumption DEF At
  <2> QED BY <1>1, <2>1, <2>2
<1> QED BY <1>2, <1>3

LEMMA SetValGood ==
  ASSUME src \in Sources, NEW u, Good(u), ~u.error, NEW i, NEW x,
         NEW v, v = set_val(u, i, x), v.k \in Configs[src]
  PROVE  /\ Good(v) /\ KeepsSaved(u, v)
         /\ /\ ItemsStay(src) /\ IsItem(At(SelNode(u)))
            /\ i = At(SelNode(u)).item /\ x \in Offered(u.k, i)
            => ~v.error
<1>1. u \in Ui
  BY DEF Good, Placed, InList
<1>2. CASE x = ValueNow(u.k, i)
  BY <1>2 DEF set_val, KeepsSaved, SameConfig
<1>3. CASE x # ValueNow(u.k, i)
  <2> DEFINE k == WithValue(u.k, i, x)
             w == [u EXCEPT !.k = k, !.changed = TRUE]
  <2>1. v = update_menu(w)
    BY <1>3 DEF set_val
  <2>2. k \in Configs[src]
    BY <1>1, <1>3, SetValK
  <2> HIDE DEF k
  <2>3. w \in Ui
    BY <1>1, <2>2 DEF Ui
  <2>4. /\ w.k = k /\ w.changed /\ w.sel = u.sel /\ w.shown = u.shown /\ w.all = u.all
        /\ w.cur = u.cur /\ w.error = u.error /\ w.scroll = u.scroll /\ w.height = u.height
    BY <1>1 DEF Ui
  <2> HIDE DEF w
  <2>5. InList(w) /\ OnScreen(w) /\ ~w.error /\ SelNode(w) = SelNode(u)
    BY <2>3, <2>4 DEF Good, Placed, InList, OnScreen, Row, SelNode
  <2>6. /\ Placed(v) /\ SameConfig(w, v) /\ OnScreen(v)
        /\ v.error <=> SelNode(w) \notin ToSet(Listed(w.k, w.all, w.cur))
    BY <2>1, <2>5, UpdateMenuGood
  <2>7. ASSUME ItemsStay(src), IsItem(At(SelNode(u))), i = At(SelNode(u)).item, x \in Offered(u.k, i)
        PROVE  ~v.error
    <3>1. SelNode(u) \in ToSet(ShownNodes(src, u.k, u.all, u.cur))
      BY SelNodeIsNode DEF Good, Placed, Listed
    <3>2. SelNode(u) \in ToSet(ShownNodes(src, k, u.all, u.cur))
      <4>1. u.k \in Configs[src] /\ u.cur \in Menus(src) /\ u.all \in BOOLEAN
        BY <1>1, UiTypes
      <4>2. \A p \in {q \in ToSet(ShownNodes(src, u.k, u.all, u.cur)) : IsItem(NodeOf(src, q))} :
              \A y \in Offered(u.k, NodeOf(src, p).item) :
                \A l \in {WithValue(u.k, NodeOf(src, p).item, y)} \cap Configs[src] :
                  p \in ToSet(ShownNodes(src, l, u.all, u.cur))
        BY <2>7, <4>1 DEF ItemsStay
      <4> QED BY <2>2, <2>7, <3>1, <4>2 DEF At, k
    <3> QED BY <2>4, <2>5, <2>6, <3>2 DEF Listed
  <2> QED BY <2>4, <2>6, <2>7 DEF Good, KeepsSaved, SameConfig
<1> QED BY <1>2, <1>3

LEMMA ToggledIsOffered ==
  ASSUME NEW values \in SUBSET (0..2), values # {}, NEW now
  PROVE  Toggled(values, now) \in values
<1> DEFINE above == {x \in values : x > now}
<1>1. values \in SUBSET Nat /\ above \in SUBSET Nat
  <2>1. values \in SUBSET Nat
    OBVIOUS
  <2> QED BY <2>1, Zenon
<1>2. CASE \E x \in values : x > now
  <2>1. above # {}
    BY <1>2
  <2>2. Toggled(values, now) = Min(above)
    BY <1>2 DEF Toggled
  <2>3. Min(above) \in above
    <3> HIDE DEF above
    <3> QED BY <1>1, <2>1, LeastOfNat
  <2> QED BY <2>2, <2>3
<1>3. CASE ~\E x \in values : x > now
  BY <1>1, <1>3, LeastOfNat DEF Toggled
<1> QED BY <1>2, <1>3

(* _change_node(), of the node that is selected                            *)
LEMMA ChangeGood ==
  ASSUME src \in Sources, NEW u, Good(u), ~u.error, NEW p, p = SelNode(u),
         Changeable(src, u.k, p), NEW v \in change_node(u, p), v.k = u.k \/ InBounds(v.k)
  PROVE  Good(v) /\ KeepsSaved(u, v) /\ (NodesStay(src) => ~v.error)
<1> DEFINE i == At(p).item
<1>1. u \in Ui /\ p \in NodesOf(src) /\ u.k \in Configs[src]
  BY UiTypes, SelNodeIsNode DEF Good, Placed, InList
<1>2. NodesStay(src) => ItemsStay(src) /\ MenusListed(src) /\ ValuesAssignable(src)
  BY DEF NodesStay
<1>3. /\ IsItem(At(p))
      /\ ~TakesText(u.k, i) => AssignableTo(u.k, i) \in (SUBSET (0..2)) \ {{}}
      /\ NodesStay(src) /\ ~TakesText(u.k, i) /\ Cardinality(AssignableTo(u.k, i)) > 1 =>
           ValueNow(u.k, i) \in AssignableTo(u.k, i)
  BY <1>1, <1>2, ChangesAssumption DEF ValuesAssignable, At
<1>4. CASE TakesText(u.k, i)
  <2>1. v = u \/ \E x \in ValidTexts(u.k, i) : v = set_val(u, i, x)
    BY <1>4 DEF change_node
  <2>2. CASE v = u
    BY <2>2 DEF KeepsSaved, SameConfig
  <2>3. ASSUME NEW x \in ValidTexts(u.k, i), v = set_val(u, i, x)
        PROVE  Good(v) /\ KeepsSaved(u, v) /\ (NodesStay(src) => ~v.error)
    <3>1. x \in Offered(u.k, i)
      BY <1>4 DEF Offered
    <3>2. v.k \in Configs[src]
      BY <1>1, <1>3, <2>3, <3>1, SetValInConfigs
    <3> QED BY <1>2, <1>3, <2>3, <3>1, <3>2, SetValGood
  <2> QED BY <2>1, <2>2, <2>3
<1>5. CASE ~TakesText(u.k, i)
  <2> DEFINE values == AssignableTo(u.k, i)
             now == ValueNow(u.k, i)
             x == Toggled(values, now)
             w == set_val(u, i, x)
  <2>1. v = ChangeTristate(u, p, values, now)
    BY <1>5 DEF change_node
  <2>2. CASE Cardinality(values) > 1 /\ now \notin values
    <3>1. v = [u EXCEPT !.error = TRUE]
      BY <2>1, <2>2 DEF ChangeTristate
    <3>2. /\ v \in Ui /\ v.error /\ v.sel = u.sel /\ v.shown = u.shown /\ v.scroll = u.scroll
          /\ v.height = u.height
      BY <1>1, <3>1 DEF Ui
    <3>3. SameConfig(u, v)
      BY <1>1, <3>1 DEF Ui, SameConfig
    <3>4. Good(v)
      BY <3>2 DEF Good, Placed, InList, OnScreen, Row
    <3> QED BY <1>3, <1>5, <2>2, <3>3, <3>4 DEF KeepsSaved
  <2>3. CASE ~(Cardinality(values) > 1 /\ now \notin values)
    <3>1. v = Leaves(w, p)
      BY <2>1, <2>3 DEF ChangeTristate
    <3>2. v = w \/ (~w.error /\ v = leave_menu(w))
      <4> HIDE DEF w
      <4> QED BY <3>1 DEF Leaves
    <3>3. x \in Offered(u.k, i)
      <4> SUFFICES x \in values
        BY DEF Offered
      <4>1. values \in SUBSET (0..2) /\ values # {}
        BY <1>3, <1>5
      <4> HIDE DEF values, now
      <4> QED BY <4>1, ToggledIsOffered
    <3> HIDE DEF x
    <3>4. w.k \in Configs[src]
      <4>1. "k" \in DOMAIN w
        BY <1>1, SetValK
      <4>2. w.k = v.k
        <5> HIDE DEF w
        <5> QED BY <3>2, <4>1, LeaveKeepsK
      <4> QED BY <1>1, <1>3, <3>3, <4>2, SetValInConfigs
    <3>5. Good(w) /\ KeepsSaved(u, w) /\ (NodesStay(src) => ~w.error)
      BY <1>2, <1>3, <3>3, <3>4, SetValGood
    <3> HIDE DEF w
    <3> QED BY <1>2, <3>2, <3>5, LeaveGood DEF KeepsSaved, SameConfig
  <2> QED BY <2>2, <2>3
<1> QED BY <1>4, <1>5

(* _load_dialog(), and the start                                           *)
LEMMA LoadGood ==
  ASSUME src \in Sources, Good(ui), ~ui.error, NEW k \in Configs[src], NEW f \in Filenames,
         NEW v, v = LoadInto(k, f)
  PROVE  Good(v) /\ v.changed /\ (AllStay(src) => ~v.error)
<1> DEFINE node == SelNode(ui)
           all == ui.all \/ ~Contains(Listed(k, ui.all, ui.cur), node)
           w == [ui EXCEPT !.k = k, !.name = f, !.changed = TRUE, !.all = all]
<1>1. ui \in Ui /\ all \in BOOLEAN /\ (~all => ~ui.all /\ Contains(Listed(k, ui.all, ui.cur), node))
  BY DEF Good, Placed, InList
<1>2. v = update_menu(w)
  BY <1>1 DEF LoadInto, NeedsSave, Ui
<1>3. AllStay(src) => node \in ToSet(Listed(k, all, ui.cur))
  <2>1. SUFFICES ASSUME AllStay(src) PROVE node \in ToSet(Listed(k, all, ui.cur))
    OBVIOUS
  <2>2. /\ ui.k \in Configs[src] /\ ui.cur \in Menus(src) /\ ui.all \in BOOLEAN
        /\ node \in ToSet(ShownNodes(src, ui.k, ui.all, ui.cur))
    BY <1>1, UiTypes, SelNodeIsNode DEF Good, Placed, Listed
  <2>3. CASE all
    <3>1. node \in ToSet(ShownNodes(src, k, TRUE, ui.cur))
      BY <2>1, <2>2 DEF AllStay
    <3>2. all = TRUE
      BY <1>1, <2>3
    <3> QED BY <3>1, <3>2 DEF Listed
  <2>4. CASE ~all
    <3>1. ui.all = FALSE /\ all = FALSE /\ Contains(Listed(k, ui.all, ui.cur), node)
      BY <1>1, <2>2, <2>4
    <3>2. Listed(k, ui.all, ui.cur) \in Seq(NodesOf(src))
      BY <2>2, ListedNodes
    <3>3. node \in ToSet(Listed(k, ui.all, ui.cur))
      BY <3>1, <3>2, ContainsIsIn
    <3> QED BY <3>1, <3>3
  <2> QED BY <2>3, <2>4
<1> HIDE DEF all
<1>4. w \in Ui
  <2> DEFINE x == [ui EXCEPT !.k = k, !.name = f]
             yes == TRUE
  <2>1. x \in Ui
    BY <1>1 DEF Ui
  <2>2. w = [x EXCEPT !.changed = yes, !.all = all]
    BY <1>1 DEF Ui
  <2>3. yes \in BOOLEAN
    OBVIOUS
  <2> HIDE DEF x, yes
  <2> QED BY <1>1, <2>1, <2>2, <2>3 DEF Ui
<1>5. /\ w.k = k /\ w.changed /\ w.sel = ui.sel /\ w.shown = ui.shown /\ w.all = all
      /\ w.cur = ui.cur /\ w.error = ui.error /\ w.scroll = ui.scroll /\ w.height = ui.height
  BY <1>1 DEF Ui
<1> HIDE DEF w
<1>6. InList(w) /\ OnScreen(w) /\ ~w.error /\ SelNode(w) = node
  BY <1>4, <1>5 DEF Good, Placed, InList, OnScreen, Row, SelNode
<1>7. /\ Placed(v) /\ SameConfig(w, v) /\ OnScreen(v)
      /\ v.error <=> SelNode(w) \notin ToSet(Listed(w.k, w.all, w.cur))
  BY <1>2, <1>6, UpdateMenuGood
<1>8. AllStay(src) => ~v.error
  BY <1>3, <1>5, <1>6, <1>7
<1> QED BY <1>5, <1>7, <1>8 DEF Good, SameConfig

LEMMA StartedGood ==
  ASSUME src \in Sources, NEW lines \in FilesOf(src), NEW v, v = Started(lines)
  PROVE  Good(v) /\ v.changed /\ ~v.error
<1> DEFINE k == Loaded(Fresh(src), lines)
           all == (Listed(k, FALSE, TopMenu) = <<>>)
           list == Listed(k, all, TopMenu)
           height == Max(Heights)
           none == <<>>
           top == 0
           no == FALSE
           yes == TRUE
<1>1. k \in Configs[src] /\ TopMenu \in Menus(src) /\ height \in Heights /\ height \in Nat \ {0}
  BY ConfigsAssumption, ConstantsAssumption DEF Menus
<1>2. all \in BOOLEAN /\ no \in BOOLEAN /\ yes \in BOOLEAN
  OBVIOUS
<1>3. top \in Nat /\ top \in Int /\ none \in Seq(Nat) /\ ConfigName \in Filenames
  BY ConstantsAssumption
<1>4. list \in Seq(NodesOf(src)) /\ list # <<>>
  <2>1. list # <<>>
    <3>1. CASE all
      <4>1. list = ShownNodes(src, k, TRUE, TopMenu)
        BY <1>2, <3>1 DEF Listed
      <4> QED BY <1>1, <4>1, ShownAssumption
    <3>2. CASE ~all
      <4>1. list = Listed(k, FALSE, TopMenu)
        BY <1>2, <3>2
      <4> QED BY <3>2, <4>1
    <3> QED BY <3>1, <3>2
  <2> HIDE DEF all, k
  <2> QED BY <1>1, <1>2, <2>1, ListedNodes
<1>5. v = [k |-> k, cur |-> TopMenu, shown |-> list, sel |-> top, scroll |-> top, rows |-> none,
           all |-> all, changed |-> yes, name |-> ConfigName, height |-> height, error |-> no]
  BY DEF Started, OpenedOn, Opened, NeedsSave
<1> HIDE DEF k, all, list, height, none, top, no, yes
<1>6. v \in Ui
  BY <1>1, <1>2, <1>3, <1>4, <1>5 DEF Ui
<1>7. /\ v.k = k /\ v.cur = TopMenu /\ v.shown = list /\ v.sel = top /\ v.scroll = top
      /\ v.all = all /\ v.changed = yes /\ v.height = height /\ v.error = no
  BY <1>5
<1>8. InList(v)
  BY <1>4, <1>6, <1>7 DEF InList, top
<1>9. OnScreen(v)
  BY <1>1, <1>7 DEF OnScreen, Row, top
<1> QED BY <1>7, <1>8, <1>9 DEF Good, Placed, list, yes, no

-----------------------------------------------------------------------------
(* The keys, one lemma each.  With Kconfig files whose nodes stay, no key  *)
(* loses the cursor.                                                       *)
AllNodesStay == \A s \in Sources : NodesStay(s)

LEMMA PrimedGood ==
  ASSUME src' = src, Good(ui')
  PROVE  Good(ui)'
BY DEF Good, Placed, InList, Ui, OnScreen, Row, Listed

LEMMA DisplayStep ==
  ASSUME IInv, Display, Good(ui'), KeepsSaved(ui, ui')
  PROVE  IInv'
<1>1. src' = src /\ files' = files /\ cut' = cut
  BY DEF Display, Key
<1>2. Good(ui)'
  BY <1>1, PrimedGood
<1>3. FilesInv'
  BY <1>1 DEF IInv, FilesInv, KeepsSaved, SameConfig, FilesOf
<1> QED BY <1>1, <1>2, <1>3 DEF IInv

LEMMA ResizeStep ==
  ASSUME IInv, Resize PROVE IInv' /\ ~ui'.error
<1>1. PICK h \in Heights : ui' = resize_main(ui, h)
  BY DEF Resize
<1>2. Good(ui') /\ SameConfig(ui, ui') /\ ~ui'.error
  BY <1>1, ResizeGood DEF IInv, Resize, Display, Key
<1> QED BY <1>2, DisplayStep DEF Resize, KeepsSaved

LEMMA MoveStep ==
  ASSUME IInv, Move PROVE IInv' /\ ~ui'.error
<1> DEFINE c == [sel |-> ui.sel, scroll |-> ui.scroll]
           len == Len(ui.shown)
<1>1. PICK d \in Moves(len, ui.height, c) : ui' = [ui EXCEPT !.sel = d.sel, !.scroll = d.scroll]
  BY DEF Move
<1>2. ui \in Ui /\ len \in Nat \ {0} /\ ui.height \in Nat \ {0}
  BY UiTypes DEF IInv, Good, Placed, InList
<1>3. c \in CursorsIn(len, ui.height)
  BY <1>2, UiTypes DEF IInv, Good, Placed, InList, OnScreen, Row, CursorsIn, Cursors
<1>4. d \in CursorsIn(len, ui.height)
  <2> HIDE DEF c, len
  <2> QED BY <1>1, <1>2, <1>3, MovesStay
<1>5. d.sel \in Nat /\ d.scroll \in Nat /\ d.sel < len /\ d.sel - d.scroll \in 0..(ui.height - 1)
  BY <1>4 DEF CursorsIn, Cursors
<1>6. ui' \in Ui
  <2>1. d.sel \in Nat /\ d.scroll \in Int
    BY <1>5
  <2> QED BY <1>1, <1>2, <2>1, UiCursor, Zenon
<1>7. /\ ui'.sel = d.sel /\ ui'.scroll = d.scroll /\ ui'.shown = ui.shown /\ ui'.all = ui.all
      /\ ui'.cur = ui.cur /\ ui'.height = ui.height /\ ui'.error = ui.error /\ ui'.k = ui.k
  BY <1>1, <1>2 DEF Ui
<1>8. SameConfig(ui, ui')
  BY <1>1, <1>2 DEF Ui, SameConfig
<1>9. Placed(ui')
  BY <1>5, <1>6, <1>7 DEF IInv, Good, Placed, InList
<1>10. OnScreen(ui')
  BY <1>5, <1>7 DEF OnScreen, Row
<1>11. ~ui'.error
  BY <1>7 DEF Move, Display, Key
<1> QED BY <1>8, <1>9, <1>10, <1>11, DisplayStep DEF Good, KeepsSaved, Move

LEMMA ActivateStep ==
  ASSUME IInv, Display, NEW first, Activate(SelNode(ui), first), Bounded
  PROVE  IInv' /\ (AllNodesStay => ~ui'.error)
<1> DEFINE p == SelNode(ui)
<1>1. src \in Sources /\ Good(ui) /\ ~ui.error /\ p \in NodesOf(src)
  BY SelNodeIsNode DEF IInv, Good, Placed, Display, Key
<1>2. CASE Changeable(src, ui.k, p) /\ ui' \in change_node(ui, p)
  <2>1. Good(ui') /\ KeepsSaved(ui, ui') /\ (NodesStay(src) => ~ui'.error)
    BY <1>1, <1>2, ChangeGood DEF Bounded
  <2> QED BY <1>1, <2>1, DisplayStep DEF AllNodesStay
<1>3. CASE Enterable(ui, p) /\ ui' = enter_menu(ui, p)
  <2>1. Good(ui') /\ SameConfig(ui, ui') /\ ~ui'.error
    BY <1>1, <1>3, EnterGood
  <2> QED BY <2>1, DisplayStep DEF KeepsSaved
<1> QED BY <1>2, <1>3 DEF Activate

LEMMA SetTristateStep ==
  ASSUME IInv, SetTristate PROVE IInv' /\ (AllNodesStay => ~ui'.error)
<1> DEFINE p == SelNode(ui)
           i == At(p).item
<1>1. /\ src \in Sources /\ Good(ui) /\ ~ui.error /\ IsItem(At(p)) /\ ui \in Ui /\ p \in NodesOf(src)
  BY SelNodeIsNode DEF IInv, Good, Placed, InList, SetTristate, Display, Key
<1>2. PICK x \in AssignableTo(ui.k, i) : ui' = set_val(ui, i, x)
  BY DEF SetTristate
<1>3. x \in Offered(ui.k, i)
  BY DEF Offered
<1>4. ui'.k \in Configs[src]
  BY <1>1, <1>2, <1>3, SetValInConfigs DEF SetTristate, Bounded
<1>5. Good(ui') /\ KeepsSaved(ui, ui') /\ (ItemsStay(src) => ~ui'.error)
  BY <1>1, <1>2, <1>3, <1>4, SetValGood
<1> QED BY <1>1, <1>5, DisplayStep DEF SetTristate, AllNodesStay, NodesStay

LEMMA LeaveStep ==
  ASSUME IInv, Leave PROVE IInv' /\ (AllNodesStay => ~ui'.error)
<1>1. src \in Sources /\ Good(ui) /\ ~ui.error /\ ui' = leave_menu(ui)
  BY DEF IInv, Leave, Display, Key
<1>2. Good(ui') /\ SameConfig(ui, ui') /\ (MenusListed(src) => ~ui'.error)
  BY <1>1, LeaveGood
<1> QED BY <1>1, <1>2, DisplayStep DEF Leave, KeepsSaved, AllNodesStay, NodesStay

LEMMA ToggleAllStep ==
  ASSUME IInv, ToggleAll PROVE IInv' /\ ~ui'.error
<1>1. src \in Sources /\ Good(ui) /\ ~ui.error /\ ui' = toggle_show_all(ui)
  BY DEF IInv, ToggleAll, Display, Key
<1>2. Good(ui') /\ SameConfig(ui, ui') /\ ~ui'.error
  BY <1>1, ToggleGood DEF Good
<1> QED BY <1>2, DisplayStep DEF ToggleAll, KeepsSaved

LEMMA JumpStep ==
  ASSUME IInv, Jump PROVE IInv' /\ (AllNodesStay => ~ui'.error)
<1>1. src \in Sources /\ Good(ui) /\ ~ui.error
  BY DEF IInv, Jump, Display, Key
<1>2. PICK p \in NodesOf(src), h \in Heights : ui' = resize_main(jump_to(ui, p), h)
  BY DEF Jump
<1> DEFINE w == jump_to(ui, p)
<1>3. Good(w) /\ SameConfig(ui, w) /\ (AllListed(src) => ~w.error)
  BY <1>1, JumpGood
<1> HIDE DEF w
<1>4. Good(ui') /\ SameConfig(w, ui') /\ ui'.error = w.error
  BY <1>2, <1>3, ResizeGood DEF w
<1>5. KeepsSaved(ui, ui')
  BY <1>3, <1>4 DEF KeepsSaved, SameConfig
<1> QED BY <1>1, <1>3, <1>4, <1>5, DisplayStep DEF Jump, AllNodesStay, NodesStay

LEMMA LoadStep ==
  ASSUME IInv, LoadDialog PROVE IInv' /\ (AllNodesStay => ~ui'.error)
<1>1. src \in Sources /\ Good(ui) /\ ~ui.error
  BY DEF IInv, LoadDialog, Display, Key
<1>2. PICK f \in Filenames : ui' = LoadInto(Loaded(ui.k, files[f]), f)
  BY DEF LoadDialog
<1>3. ui.k \in Configs[src] /\ files[f] \in FilesOf(src)
  BY <1>1, UiTypes DEF Good, Placed, InList, IInv, FilesInv
<1>4. Loaded(ui.k, files[f]) \in Configs[src]
  BY <1>1, <1>3, ConfigsAssumption
<1>5. Good(ui') /\ ui'.changed /\ (AllStay(src) => ~ui'.error)
  BY <1>1, <1>2, <1>4, LoadGood
<1> QED BY <1>1, <1>5, DisplayStep DEF LoadDialog, KeepsSaved, AllNodesStay, NodesStay

(* Files are written with what the values are.                             *)
LEMMA SavedIsFile ==
  ASSUME IInv, NEW f, NEW contents \in {SavedAs(ui.k), MinimalAs(ui.k)}, Save(f, contents)
  PROVE  /\ files' \in [Filenames -> FilesOf(src)] /\ f \in Filenames /\ files'[f] = contents
         /\ \A g \in Filenames \ {f} : files'[g] = files[g] /\ (g \in cut' <=> g \in cut)
<1>1. ui.k \in Configs[src]
  BY UiTypes DEF IInv, Good, Placed, InList
<1>2. contents \in FilesOf(src)
  BY <1>1 DEF FilesOf
<1>3. f \in Filenames /\ files' = [files EXCEPT ![f] = contents] /\ cut' = cut \ {f}
  BY ConstantsAssumption DEF Save
<1> QED BY <1>2, <1>3 DEF IInv, FilesInv

LEMMA SaveStep ==
  ASSUME IInv, SaveDialog PROVE IInv' /\ ~ui'.error
<1>1. src' = src /\ src \in Sources /\ Good(ui) /\ ~ui.error /\ ui \in Ui
  BY DEF IInv, SaveDialog, Key, Good, Placed, InList
<1>2. PICK f \in Filenames : Save(f, SavedAs(ui.k)) /\ ui' = [ui EXCEPT !.name = f, !.changed = FALSE]
  BY DEF SaveDialog
<1>3. files' \in [Filenames -> FilesOf(src)] /\ files'[f] = SavedAs(ui.k)
  BY <1>2, SavedIsFile
<1>4. ui' \in Ui
  <2> DEFINE no == FALSE
  <2>1. no \in BOOLEAN /\ ui' = [ui EXCEPT !.name = f, !.changed = no]
    BY <1>2
  <2> HIDE DEF no
  <2> QED BY <1>1, <2>1 DEF Ui
<1>5. /\ ui'.k = ui.k /\ ui'.name = f /\ ui'.sel = ui.sel /\ ui'.shown = ui.shown
      /\ ui'.all = ui.all /\ ui'.cur = ui.cur /\ ui'.scroll = ui.scroll /\ ui'.height = ui.height
      /\ ui'.error = ui.error
  BY <1>1, <1>2 DEF Ui
<1>6. Good(ui')
  BY <1>1, <1>4, <1>5 DEF Good, Placed, InList, OnScreen, Row
<1>7. Good(ui)'
  BY <1>1, <1>6, PrimedGood
<1>8. FilesInv'
  BY <1>1, <1>3, <1>5 DEF FilesInv, FilesOf
<1> QED BY <1>1, <1>5, <1>7, <1>8 DEF IInv

(* A file is written and the interface does not take note of it.           *)
LEMMA WrittenStep ==
  ASSUME IInv, Key, ui' = ui, NEW f, NEW contents \in {SavedAs(ui.k), MinimalAs(ui.k)},
         Save(f, contents)
  PROVE  IInv' /\ ~ui'.error
<1>1. src' = src /\ src \in Sources /\ Good(ui) /\ ~ui.error /\ ui.name \in Filenames
  BY UiTypes DEF IInv, Key, Good, Placed, InList
<1>2. /\ files' \in [Filenames -> FilesOf(src)] /\ files'[f] = contents
      /\ \A g \in Filenames \ {f} : files'[g] = files[g] /\ (g \in cut' <=> g \in cut)
  BY SavedIsFile
<1>3. Good(ui)'
  BY <1>1, PrimedGood
<1>4. FilesInv'
  BY <1>1, <1>2 DEF IInv, FilesInv, FilesOf
<1> QED BY <1>1, <1>3, <1>4 DEF IInv

LEMMA SaveMinimalStep ==
  ASSUME IInv, SaveMinimal PROVE IInv' /\ ~ui'.error
BY WrittenStep DEF SaveMinimal

LEMMA SaveFailsStep ==
  ASSUME IInv, SaveFails PROVE IInv' /\ ~ui'.error
<1>1. PICK f \in Faulty[src] :
        \/ files' = [files EXCEPT ![f] = <<>>] /\ cut' = cut \cup {f}
        \/ Save(f, SavedAs(ui.k))
  BY DEF SaveFails
<1>2. CASE Save(f, SavedAs(ui.k))
  BY <1>2, WrittenStep DEF SaveFails
<1>3. CASE files' = [files EXCEPT ![f] = <<>>] /\ cut' = cut \cup {f}
  <2>1. src' = src /\ src \in Sources /\ Good(ui) /\ ~ui.error /\ ui' = ui /\ ui.name \in Filenames
    BY UiTypes DEF IInv, SaveFails, Key, Good, Placed, InList
  <2>2. Good(ui)'
    BY <2>1, PrimedGood
  <2>3. <<>> \in FilesOf(src) /\ f \in Filenames
    BY <2>1, ConstantsAssumption, ConfigsAssumption DEF FilesOf
  <2>4. FilesInv'
    BY <1>3, <2>1, <2>3 DEF IInv, FilesInv, FilesOf
  <2> QED BY <2>1, <2>2, <2>4 DEF IInv
<1> QED BY <1>1, <1>2, <1>3

LEMMA QuitStep ==
  ASSUME IInv, Quit PROVE IInv' /\ ~ui'.error
<1>1. src' = src /\ src \in Sources
  BY DEF IInv, Quit, Key
<1>2. files' \in [Filenames -> FilesOf(src)]
  <2>1. CASE files' = files
    BY <2>1 DEF IInv, FilesInv
  <2>2. CASE Save(ui.name, SavedAs(ui.k))
    BY <2>2, SavedIsFile
  <2> QED BY <2>1, <2>2 DEF Quit
<1>3. files'[ConfigName] \in FilesOf(src)
  BY <1>2, ConstantsAssumption
<1>4. ui' = Started(files'[ConfigName])
  BY DEF Quit
<1>5. Good(ui') /\ ui'.changed /\ ~ui'.error
  BY <1>1, <1>3, <1>4, StartedGood
<1>6. Good(ui)'
  BY <1>1, <1>5, PrimedGood
<1>7. FilesInv'
  BY <1>1, <1>2, <1>5 DEF FilesInv, FilesOf
<1> QED BY <1>1, <1>5, <1>6, <1>7 DEF IInv

LEMMA InitIInv == Init => IInv /\ ~ui.error
<1> SUFFICES ASSUME Init PROVE IInv /\ ~ui.error
  OBVIOUS
<1>1. src \in Sources /\ files = Handwritten[src] /\ ui = Started(files[ConfigName])
  BY DEF Init
<1>2. \A f \in Filenames : files[f] \in FilesOf(src)
  BY <1>1 DEF FilesOf
<1>3. Good(ui) /\ ui.changed /\ ~ui.error
  BY <1>1, <1>2, StartedGood, ConstantsAssumption
<1>4. files \in [Filenames -> FilesOf(src)]
  BY <1>1, <1>2, ConfigsAssumption
<1> QED BY <1>1, <1>3, <1>4 DEF IInv, FilesInv

LEMMA StutterStep ==
  ASSUME IInv, UNCHANGED vars PROVE IInv'
BY DEF vars, IInv, Good, Placed, InList, Ui, OnScreen, Row, Listed, FilesInv, FilesOf

LEMMA NextIInv ==
  ASSUME IInv, Next PROVE IInv' /\ (AllNodesStay => ~ui'.error)
<1>1. CASE Resize
  BY <1>1, ResizeStep
<1>2. CASE Move
  BY <1>2, MoveStep
<1>3. CASE Space
  BY <1>3, ActivateStep DEF Space
<1>4. CASE Enter
  BY <1>4, ActivateStep DEF Enter
<1>5. CASE SetTristate
  BY <1>5, SetTristateStep
<1>6. CASE Leave
  BY <1>6, LeaveStep
<1>7. CASE ToggleAll
  BY <1>7, ToggleAllStep
<1>8. CASE Jump
  BY <1>8, JumpStep
<1>9. CASE LoadDialog
  BY <1>9, LoadStep
<1>10. CASE SaveDialog
  BY <1>10, SaveStep
<1>11. CASE SaveMinimal
  BY <1>11, SaveMinimalStep
<1>12. CASE SaveFails
  BY <1>12, SaveFailsStep
<1>13. CASE Quit
  BY <1>13, QuitStep
<1> QED
  BY <1>1, <1>2, <1>3, <1>4, <1>5, <1>6, <1>7, <1>8, <1>9, <1>10, <1>11, <1>12, <1>13 DEF Next

LEMMA AlwaysIInv == Spec => []IInv
<1>1. IInv /\ [Next]_vars => IInv'
  BY NextIInv, StutterStep
<1> QED BY <1>1, InitIInv, PTL DEF Spec

-----------------------------------------------------------------------------
(* The list on the screen is the one of the menu, the values and show-all, *)
(* for every tree of menus and after every sequence of keys (_shown        *)
(* against _shown_nodes()).                                                *)
THEOREM ListIsAlwaysCurrent == Spec => []ShownIsCurrent
<1>1. IInv => ShownIsCurrent
  BY DEF IInv, Good, Placed, ShownIsCurrent
<1> QED BY <1>1, AlwaysIInv, PTL

(* The cursor is on a row of the window, for every height of it and every  *)
(* scroll offset, whatever is resized, entered, left and jumped to.        *)
THEOREM CursorIsAlwaysOnScreen == Spec => []CursorOnScreen
<1>1. IInv => CursorOnScreen
  BY DEF IInv, Good, OnScreen, CursorOnScreen
<1> QED BY <1>1, AlwaysIInv, PTL

(* A quit without a question loses nothing: what was last saved, minimal   *)
(* or not, loads as the values of now (_conf_changed), unless a later save *)
(* of the same file failed and left it empty.                              *)
THEOREM QuittingLosesNothing == Spec => []QuitLosesNothing
<1>1. IInv => QuitLosesNothing
  BY UiTypes, SavedLoads DEF IInv, Good, Placed, InList, FilesInv, QuitLosesNothing
<1> QED BY <1>1, AlwaysIInv, PTL

(* No key looks for a node that is not in the list, in Kconfig files whose *)
(* nodes stay where they are: list.index() in _update_menu(),              *)
(* _leave_menu(), _jump_to() and the change of a value never fails.        *)
THEOREM CursorIsKept ==
  ASSUME \A s \in Sources : NodesStay(s)
  PROVE  Spec => []CursorKept
<1> DEFINE Inv == IInv /\ ~ui.error
<1>1. Init => Inv
  BY InitIInv
<1>2. Inv /\ [Next]_vars => Inv'
  <2>1. ASSUME Inv, Next PROVE Inv'
    BY <2>1, NextIInv DEF AllNodesStay
  <2>2. ASSUME Inv, UNCHANGED vars PROVE Inv'
    BY <2>2, StutterStep DEF vars
  <2> QED BY <2>1, <2>2
<1>3. Inv => CursorKept
  <2> SUFFICES ASSUME Inv PROVE CursorKept
    OBVIOUS
  <2>1. ui.sel \in Nat /\ Len(ui.shown) \in Nat /\ ui.sel < Len(ui.shown)
    BY UiTypes DEF IInv, Good, Placed, InList
  <2> QED BY <2>1 DEF CursorKept
<1> QED BY <1>1, <1>2, <1>3, PTL DEF Spec

=============================================================================
