------------------------------ MODULE ItemList ------------------------------
(***************************************************************************)
(* The inventory view: the item list with its rows and selection           *)
(* (ItemListDataModel, DataGridControl), the find panel and its timer, the *)
(* info panel, what the user does to the items chosen, and the questions   *)
(* asked before it is done.                                                *)
(*                                                                         *)
(* Everything runs on the GUI thread, one event at a time.  A question is  *)
(* a modal window: it keeps the user from the rest, but messages of the    *)
(* game and timers are dispatched while it is open.                        *)
(*                                                                         *)
(* The list is a copy of the rows as they were when its query was run, and *)
(* the selection is a set of positions in it.                              *)
(***************************************************************************)
EXTENDS TreeNodes, Sequences

CONSTANTS
    Columns,    \* the columns the user sorts by
    Texts       \* what is searched for: sets of item names; {} is too short

ASSUME ListAssumption ==
    /\ Columns \subseteq {"name", "toon", "parent", "location"}
    /\ \A t \in Texts : t \subseteq Kinds

VARIABLES
    list,       \* the query behind the list and its rows
    order,      \* m_sortColumn and m_sortDesc
    selected,   \* the positions selected
    info,       \* m_currentItem of the info panel
    node,       \* the node selected in the tree
    find,       \* the find panel: text, character, whether its timer runs
    last,       \* the text and character it searched for last
    asking,     \* the question that is open, and the items it is about
    csv,        \* the items in the file exported last
    running     \* the application has not died of an exception

view == <<list, order, selected, info>>
panel == <<find, last>>

vars == <<tables, left, naming, tree, view, node, panel, asking, csv, running>>

-----------------------------------------------------------------------------
(* The list's queries.                                                     *)

\* A query is a node of the tree or a search.
Search(t, c) == [names |-> t, toon |-> c]

Matches(where, r) ==
    IF "names" \in DOMAIN where
    THEN r.kind \in where.names /\ where.toon \in {0, r.owner}
    ELSE Wants(where, r)

Alphabet == <<"NULL", "Bank", "Cloth", "Implants", "Social", "Weapons", "Inventory", "Shop">>

SortKey(r, column, db) ==
    CASE column = "name"     -> r.kind
      [] column = "toon"     -> r.owner
      [] column = "parent"   -> r.parent
      [] column = "location" -> CHOOSE i \in DOMAIN Alphabet : Alphabet[i] = Location(r, db)
      [] OTHER               -> 0

InOrder(s, by, db) ==
    \A i \in 1 .. Len(s) - 1 :
       IF by.desc THEN SortKey(s[i], by.column, db) >= SortKey(s[i + 1], by.column, db)
                  ELSE SortKey(s[i], by.column, db) <= SortKey(s[i + 1], by.column, db)

\* The ways to put the rows of S in a sequence.
Sequenced(S) ==
    {s \in [1 .. Cardinality(S) -> S] : \A i, j \in 1 .. Cardinality(S) : s[i] = s[j] => i = j}

\* runQuery: how rows that sort alike come is SQLite's choice.
QueryAnswers(where, by, db) ==
    {s \in Sequenced({r \in Joined(db) : Matches(where, r)}) : InOrder(s, by, db)}

Positions == DOMAIN list.rows

Chosen == {list.rows[i].id : i \in selected}

ChosenThings == {list.rows[i].thing : i \in selected}

\* OnSelectionChanged: the info panel shows the item when there is just one.
InfoOf(rows, sel) == IF Cardinality(sel) = 1 THEN rows[CHOOSE i \in sel : TRUE].id ELSE 0

\* Mutant: the new list is given the selection of the old one.
UpdateListViewKeeping(where) ==
    \E rows \in QueryAnswers(where, order, items) :
       /\ list' = [where |-> where, rows |-> rows]
       /\ selected' = selected \cap DOMAIN rows
       /\ info' = InfoOf(rows, selected')
       /\ UNCHANGED order

\* A new list begins without a selection.
UpdateListView(where) ==
    \E rows \in QueryAnswers(where, order, items) :
       /\ list' = [where |-> where, rows |-> rows]
       /\ selected' = {}
       /\ info' = 0
       /\ UNCHANGED order

-----------------------------------------------------------------------------
(* The tree.                                                               *)

NothingAsked == [what |-> "", things |-> {}, toon |-> 0]

\* What the user may do as long as no question is open.
Click ==
    /\ running /\ asking = NothingAsked
    /\ Spend(3)
    /\ UNCHANGED running

\* OnSelected: "Characters" leaves the list as it is.
ShowNode(n) ==
    /\ node' = n
    /\ IF n = Root THEN UNCHANGED view ELSE UpdateListView(n)

SelectNode(n) ==
    /\ Click
    /\ n \in tree \cup {Root} /\ n # node
    /\ ShowNode(n)
    /\ UNCHANGED <<tables, naming, tree, panel, asking, csv>>

\* The nodes of backpacks are named when they are made.
NodeKeys(nodes) == {<<n.toon, n.box>> : n \in {m \in nodes : m.box \in Bags}}

ExpandNode(n) ==
    /\ Click
    /\ Expand(n)
    /\ AskNames(NodeKeys(Children(n)))
    /\ UNCHANGED <<tables, view, node, panel, asking, csv>>

\* The selection of a node that goes passes to the one collapsed.
CollapseNode(n) ==
    /\ Click
    /\ Collapse(n)
    /\ IF node \in Below(n) THEN ShowNode(n) ELSE UNCHANGED <<view, node>>
    /\ UNCHANGED <<tables, naming, panel, asking, csv>>

\* "Delete Items From DB" and "Delete Toon"; neither the tree nor the list is
\* refreshed.
DeleteNode(n) ==
    /\ Click
    /\ n \in tree
    /\ IF n.box = -1
       THEN items' = DeleteToon(n.toon) /\ toons' = toons \ {n.toon}
       ELSE items' = DeleteContainer(n.box) /\ UNCHANGED toons
    /\ UNCHANGED <<lastId, naming, tree, view, node, panel, asking, csv>>

\* "Refresh" collapses and expands the node above; the node selected below it
\* passes its selection on.
RefreshNode(n) ==
    /\ Click
    /\ n \in tree
    /\ tree' = (tree \ Below(Parent(n))) \cup Children(Parent(n))
    /\ AskNames(NodeKeys(Children(Parent(n))))
    /\ IF node \in Below(Parent(n)) THEN ShowNode(Parent(n)) ELSE UNCHANGED <<view, node>>
    /\ UNCHANGED <<tables, panel, asking, csv>>

-----------------------------------------------------------------------------
(* The item list.                                                          *)

SelectRows(S) ==
    /\ Click
    /\ S \subseteq Positions /\ S # selected
    /\ selected' = S
    /\ info' = InfoOf(list.rows, S)
    /\ UNCHANGED <<tables, naming, tree, list, order, node, panel, asking, csv>>

\* The query is run again.  The selection stays where it is, on rows that may
\* be of other items now, and the info panel is not told.
SortBy(column) ==
    /\ Click
    /\ order' = [column |-> column, desc |-> order.column = column /\ ~ order.desc]
    /\ \E rows \in QueryAnswers(list.where, order', items) :
          /\ list' = [list EXCEPT !.rows = rows]
          /\ selected' = selected \cap DOMAIN rows
    /\ UNCHANGED <<tables, naming, tree, info, node, panel, asking, csv>>

\* The backpacks that rows are in.
BagKeys(rows) == {<<r.owner, r.parent>> : r \in {x \in rows : x.parent \in Bags}}

\* A row is drawn, or its columns are sized.
DrawRow(i) ==
    /\ running
    /\ i \in Positions /\ list.rows[i].parent \in Bags
    /\ AskNames(BagKeys({list.rows[i]}))
    /\ UNCHANGED <<tables, tree, view, node, panel, asking, csv, left, running>>

\* GetOwnedItemInfo takes it for granted that the row is still there: it
\* throws when it is not, and nothing catches it.
Readable(ids) == \A x \in ids : \E r \in items : r.id = x /\ r.kind \in Listed

\* Copying references of the items chosen, and opening the page of one.
CopyItemRef ==
    /\ running /\ asking = NothingAsked
    /\ Spend(3)
    /\ selected # {}
    /\ running' = Readable(Chosen)
    /\ AskNames(BagKeys({r \in items : r.id \in Chosen}))
    /\ UNCHANGED <<tables, tree, view, node, panel, asking, csv>>

\* A button of the info panel.
OpenInfo ==
    /\ running /\ asking = NothingAsked
    /\ Spend(3)
    /\ info # 0
    /\ running' = Readable({info})
    /\ UNCHANGED <<tables, naming, tree, view, node, panel, asking, csv>>

Ask(what, c) ==
    /\ Click
    /\ asking' = [what |-> what, things |-> ChosenThings, toon |-> c]
    /\ UNCHANGED <<tables, naming, tree, view, node, panel, csv>>

\* "Are you sure you want to delete these items?"
AskDelete == selected # {} /\ Ask("delete", 0)

\* The name of the file for the items chosen, or for all of a character.
AskExport == selected # {} /\ Ask("export", 0)

AskExportToon(n) == n \in tree /\ n.box = -1 /\ Ask("export all", n.toon)

No ==
    /\ running /\ asking # NothingAsked
    /\ asking' = NothingAsked
    /\ UNCHANGED <<tables, naming, tree, view, node, panel, csv, left, running>>

\* OnDelete goes by what is selected when the answer comes.
ConfirmDelete ==
    /\ running /\ asking.what = "delete"
    /\ asking' = NothingAsked
    /\ items' = DeleteItems(Chosen)
    /\ selected' = {} /\ info' = IF selected = {} THEN info ELSE 0
    /\ \E rows \in QueryAnswers(list.where, order, items') : list' = [list EXCEPT !.rows = rows]
    /\ UNCHANGED <<lastId, toons, naming, tree, order, node, panel, csv, left, running>>

\* The file has what the query finds, with the names of the backpacks.
Export(rows) ==
    /\ asking' = NothingAsked
    /\ csv' = {r.thing : r \in rows}
    /\ AskNames(BagKeys(rows))
    /\ UNCHANGED <<tables, tree, view, node, panel, left, running>>

ConfirmExport ==
    /\ running /\ asking.what = "export"
    /\ Export({r \in Joined(items) : r.id \in Chosen})

\* Containers are left out when a character is exported.
ConfirmExportToon ==
    /\ running /\ asking.what = "export all"
    /\ Export({r \in Joined(items) : r.owner = asking.toon /\ r.children = 0})

-----------------------------------------------------------------------------
(* The find panel.                                                         *)

\* A search that is the last one again is not made, whatever the list shows.
UpdateFindQuery(text, c) ==
    IF text = {} \/ Search(text, c) = last
    THEN UNCHANGED <<view, last>>
    ELSE last' = Search(text, c) /\ UpdateListView(Search(text, c))

\* Every change of the text starts the timer anew.
EditText(t) ==
    /\ Click
    /\ t # find.text
    /\ find' = [find EXCEPT !.text = t, !.timer = TRUE]
    /\ UNCHANGED <<tables, naming, tree, view, node, last, asking, csv>>

\* The list of characters is made anew when it is opened.
PickToon(c) ==
    /\ Click
    /\ c \in toons \cup {0}
    /\ find' = [find EXCEPT !.toon = c, !.timer = FALSE]
    /\ UpdateFindQuery(find.text, c)
    /\ UNCHANGED <<tables, naming, tree, node, asking, csv>>

OnTimer ==
    /\ running /\ find.timer
    /\ find' = [find EXCEPT !.timer = FALSE]
    /\ UpdateFindQuery(find.text, find.toon)
    /\ UNCHANGED <<tables, naming, tree, node, asking, csv, left, running>>

-----------------------------------------------------------------------------
GameMessage ==
    /\ running /\ Message
    /\ UNCHANGED <<naming, tree, view, node, panel, asking, csv, running>>

GameFile ==
    /\ \E k \in Keys : RemoveFile(k) \/ \E n \in Names \cup {NoName} : WriteFile(k, n)
    /\ UNCHANGED <<tables, tree, view, node, panel, asking, csv, running>>

Tree ==
    \E n \in tree \cup {Root} :
       \/ SelectNode(n) \/ ExpandNode(n) \/ CollapseNode(n)
       \/ DeleteNode(n) \/ RefreshNode(n) \/ AskExportToon(n)

List ==
    \/ \E S \in SUBSET Positions : SelectRows(S)
    \/ \E column \in Columns : SortBy(column)
    \/ \E i \in Positions : DrawRow(i)
    \/ CopyItemRef \/ OpenInfo
    \/ AskDelete \/ AskExport
    \/ No \/ ConfirmDelete \/ ConfirmExport \/ ConfirmExportToon

Find ==
    \/ \E t \in Texts : EditText(t)
    \/ \E c \in Toons \cup {0} : PickToon(c)
    \/ OnTimer

\* The view shows its first character when it opens, if the tree does.
ListInit ==
    /\ StoredInit /\ NamesInit
    /\ tree = CharacterNodes
    /\ \E c \in Toons :
          /\ node = CharacterNode(c)
          /\ order = [column |-> "", desc |-> FALSE]
          /\ \E rows \in QueryAnswers(CharacterNode(c), order, items) :
                list = [where |-> CharacterNode(c), rows |-> rows]
    /\ selected = {} /\ info = 0
    /\ find = [text |-> {}, toon |-> 0, timer |-> FALSE]
    /\ last = Search({}, 0)
    /\ asking = NothingAsked /\ csv = {}
    /\ running = TRUE

ListNext == GameMessage \/ GameFile \/ Tree \/ List \/ Find

ListSpec == ListInit /\ [][ListNext]_vars

-----------------------------------------------------------------------------
(* Properties.                                                             *)

Gone == {r.thing : r \in items} \ {r.thing : r \in items'}

\* What the user agrees to delete is what the question was about: all of it
\* that is still in the table, or nothing when a search has replaced the list
\* meanwhile.  Rows numbered anew, moved or taken away behind the list, and
\* rows that came since, make no other item go.  A file holds nothing that
\* was not chosen, either.
OnlyChosen ==
    [][asking # NothingAsked /\ asking' = NothingAsked =>
          /\ Gone \subseteq asking.things
          /\ asking.what = "export" /\ csv' # csv => csv' \subseteq asking.things]_vars

\* Every item of a character that is in the bank, the shop, the inventory, or
\* a backpack of the character's in the first or the last, is under one node
\* of the tree only, and that node has the name of the location the list and
\* the file give it.
Reached(c) ==
    LET boxes == ContainersOf(c) IN boxes \cup UNION {BackpacksIn(n) : n \in boxes}

NodesAgree ==
    \A r \in Joined(items) :
       LET nodes == {n \in Reached(r.owner) : Wants(n, r)}
       IN  r.parent \in {Bank, Inventory, Shop} \/ nodes # {} =>
              \E n \in nodes : nodes = {n} /\ n.panel = Location(r, items)

\* A backpack with a name in its file has that name, however often the file
\* has been written or removed since a view first asked; the name of another
\* item is never given to it.
NameCurrent ==
    \A k \in Keys :
       /\ files[k].name # NoName => GetContainerName(k) = <<"file", files[k].name>>
       /\ GetContainerName(k)[1] = "file" => files[k].name # NoName
=============================================================================
