--------------------------- MODULE ItemList_proofs ---------------------------
(***************************************************************************)
(* What TLAPS proves of the inventory view: for any tables to start from,  *)
(* any items, characters and backpacks, and any number of messages, clicks *)
(* and writes, only what was chosen is deleted or exported, and backpacks  *)
(* have the names of their files.                                          *)
(***************************************************************************)
EXTENDS ItemList, TLAPS

-----------------------------------------------------------------------------
(* The inductive invariant of the list.                                    *)

\* Every row has an itemidx of its own, none past the last given out.
Numbered ==
    /\ items \subseteq Row /\ lastId \in Nat
    /\ \A r \in items : r.id <= lastId
    /\ \A r, q \in items : r.id = q.id => r = q

\* A row of the list and a row of the table with one itemidx are of one item,
\* whatever has become of the table since the query.
SameThing ==
    /\ list = [where |-> list.where, rows |-> list.rows]
    /\ selected \subseteq Positions
    /\ \A i \in Positions :
          /\ list.rows[i].id \in Nat /\ list.rows[i].id <= lastId
          /\ list.rows[i].owner \in Toons
          /\ \A r \in items : r.id = list.rows[i].id => r.thing = list.rows[i].thing

\* While a question is open nothing else becomes selected.
AskedOf == asking.what \in {"delete", "export"} => ChosenThings \subseteq asking.things

Inv == Numbered /\ SameThing /\ AskedOf

\* The rows of the list are rows of the table it was asked of.
LEMMA AnswersFrom ==
    ASSUME NEW where, NEW by, NEW db, NEW rows \in QueryAnswers(where, by, db)
    PROVE  \A i \in DOMAIN rows : rows[i] \in db
BY DEF QueryAnswers, Sequenced, Joined

\* The table changes behind the list: new numbers are new, old ones stay with
\* their items.
Follows ==
    /\ lastId <= lastId'
    /\ \A r \in items' : r.id > lastId \/ \E q \in items : q.id = r.id /\ q.thing = r.thing

\* Containers and slots are numbers.
LEMMA PlaceNumbers == ASSUME NEW p \in Places PROVE p[1] \in Nat /\ p[2] \in Nat
<1>1. PICK x \in {Bank, Inventory, Shop} \cup Bags, y \in Nat : p = <<x, y>>
      BY StoredAssumption
<1>2. x \in Nat BY StoredAssumption DEF Bank, Inventory, Shop
<1> QED BY <1>1, <1>2

\* A message of the game leaves the rows numbered.
LEMMA MessageFollows == ASSUME Numbered, Message PROVE Numbered' /\ Follows
<1>1. ASSUME NEW a \in Arrivals, NEW p \in Places, Arrive(a[1], a[2], p, a[3])
      PROVE  Numbered' /\ Follows
  <2> DEFINE new == [id |-> lastId + 1, thing |-> lastId + 1, kind |-> a[2], parent |-> p[1],
                     slot |-> p[2], children |-> a[3], owner |-> a[1]]
  <2>1. items' = items \cup {new} /\ lastId' = lastId + 1 BY <1>1 DEF Arrive, NewId
  <2>2. a[1] \in Toons /\ a[2] \in Kinds /\ a[3] \in Bags \cup {0} BY StoredAssumption
  <2>3. p[1] \in Nat /\ p[2] \in Nat BY PlaceNumbers
  <2>4. new \in Row BY <2>2, <2>3 DEF Row, Numbered
  <2>5. new.id = lastId + 1 OBVIOUS
  <2> HIDE DEF new
  <2>6. \A r \in items : r.id \in Nat BY DEF Numbered, Row
  <2> QED BY <2>1, <2>4, <2>5, <2>6 DEF Numbered, Follows
<1>2. ASSUME NEW r \in items, NEW p \in Places, Shift(r, p) PROVE Numbered' /\ Follows
  <2> DEFINE new == [r EXCEPT !.parent = p[1], !.slot = p[2]]
  <2>1. items' = (items \ {r}) \cup {new} /\ lastId' = lastId BY <1>2 DEF Shift
  <2>2. p[1] \in Nat /\ p[2] \in Nat BY PlaceNumbers
  <2>3. r \in Row BY DEF Numbered
  <2>4. new \in Row /\ new.id = r.id /\ new.thing = r.thing BY <2>2, <2>3 DEF Row
  <2> HIDE DEF new
  <2>5. \A q \in items : q.id \in Nat BY DEF Numbered, Row
  <2> QED BY <2>1, <2>4, <2>5 DEF Numbered, Follows
<1>3. ASSUME NEW r \in items, Leave(r) PROVE Numbered' /\ Follows
  <2>1. items' = items \ {r} /\ lastId' = lastId BY <1>3 DEF Leave
  <2> QED BY <2>1 DEF Numbered, Follows
<1>4. ASSUME NEW r \in items, Renumber(r) PROVE Numbered' /\ Follows
  <2> DEFINE new == [r EXCEPT !.id = lastId + 1]
  <2>1. items' = (items \ {r}) \cup {new} /\ lastId' = lastId + 1 BY <1>4 DEF Renumber, NewId
  <2>2. r \in Row BY DEF Numbered
  <2>3. new \in Row /\ new.id = lastId + 1 BY <2>2 DEF Row, Numbered
  <2> HIDE DEF new
  <2>4. \A q \in items : q.id \in Nat BY DEF Numbered, Row
  <2> QED BY <2>1, <2>3, <2>4 DEF Numbered, Follows
<1> QED BY <1>1, <1>2, <1>3, <1>4 DEF Message

-----------------------------------------------------------------------------
(* What a step does to the list, in four ways.                             *)

\* The list stays as it is.
LEMMA ListStays ==
    ASSUME Inv, Numbered', Follows, UNCHANGED <<list, selected, asking>>
    PROVE  Inv'
<1>1. SameThing'
  <2> SUFFICES ASSUME NEW i \in Positions
               PROVE  /\ list.rows[i].id <= lastId'
                      /\ \A r \in items' : r.id = list.rows[i].id => r.thing = list.rows[i].thing
      BY DEF Inv, SameThing, Positions
  <2>1. list.rows[i].id \in Nat /\ list.rows[i].id <= lastId BY DEF Inv, SameThing
  <2>2. lastId \in Nat /\ lastId' \in Nat BY DEF Inv, Numbered
  <2>3. \A r \in items' : r.id \in Nat BY DEF Numbered, Row
  <2>4. \A r \in items : r.id = list.rows[i].id => r.thing = list.rows[i].thing
        BY DEF Inv, SameThing
  <2> QED BY <2>1, <2>2, <2>3, <2>4 DEF Follows
<1>2. AskedOf' BY DEF Inv, AskedOf, ChosenThings
<1> QED BY <1>1, <1>2 DEF Inv

\* Rows go by the hand of the user.
LEMMA FewerRows ==
    ASSUME Inv, items' \subseteq items, lastId' = lastId, UNCHANGED <<list, selected, asking>>
    PROVE  Inv'
<1>1. Numbered' BY DEF Inv, Numbered
<1>2. Follows BY DEF Inv, Numbered, Follows
<1> QED BY <1>1, <1>2, ListStays

\* A query is run.
LEMMA ListAnew ==
    ASSUME Inv, items' \subseteq items, lastId' = lastId,
           NEW where, NEW by, NEW rows \in QueryAnswers(where, by, items'),
           list' = [where |-> where, rows |-> rows], selected' \subseteq DOMAIN rows,
           selected' = {} \/ asking' = NothingAsked, asking' \in {asking, NothingAsked}
    PROVE  Inv'
<1>1. Numbered' BY DEF Inv, Numbered
<1>2. \A i \in DOMAIN rows : rows[i] \in items' BY AnswersFrom
<1>3. \A i \in DOMAIN rows :
         rows[i].id \in Nat /\ rows[i].id <= lastId' /\ rows[i].owner \in Toons
      BY <1>1, <1>2 DEF Numbered, Row
<1>4. \A i \in DOMAIN rows : \A r \in items' : r.id = rows[i].id => r.thing = rows[i].thing
      BY <1>1, <1>2 DEF Numbered
<1>5. SameThing' BY <1>3, <1>4 DEF SameThing, Positions
<1>6. AskedOf'
  <2>1. CASE asking' = NothingAsked BY <2>1 DEF AskedOf, NothingAsked
  <2>2. CASE selected' = {} BY <2>2 DEF AskedOf, ChosenThings
  <2> QED BY <2>1, <2>2
<1> QED BY <1>1, <1>5, <1>6 DEF Inv

\* Only the selection or the question changes.
LEMMA SameList ==
    ASSUME Inv, UNCHANGED <<items, lastId, list>>, selected' \subseteq Positions, AskedOf'
    PROVE  Inv'
BY DEF Inv, Numbered, SameThing, Positions

\* The tree or the find panel gives the list a query.
LEMMA ViewAnew ==
    ASSUME Inv, NEW where, UpdateListView(where), UNCHANGED <<tables, asking>>
    PROVE  Inv'
<1>1. PICK rows \in QueryAnswers(where, order, items) :
         list' = [where |-> where, rows |-> rows] /\ selected' = {}
      BY DEF UpdateListView
<1>2. items' = items /\ lastId' = lastId BY DEF tables
<1> QED BY <1>1, <1>2, ListAnew

\* A node of the tree is shown, or none.
LEMMA NodeShown ==
    ASSUME Inv, NEW n, ShowNode(n) \/ UNCHANGED view, UNCHANGED <<tables, asking>>
    PROVE  Inv'
<1>1. CASE UNCHANGED view BY <1>1, FewerRows DEF view, tables
<1>2. CASE UpdateListView(n) BY <1>2, ViewAnew
<1> QED BY <1>1, <1>2 DEF ShowNode

-----------------------------------------------------------------------------
(* Every step keeps the invariant.                                         *)

\* A step of the game.
LEMMA GameInv == Inv /\ (GameMessage \/ GameFile) => Inv'
<1> SUFFICES ASSUME Inv, GameMessage \/ GameFile PROVE Inv' OBVIOUS
<1>1. CASE GameMessage
  <2>1. Numbered' /\ Follows BY <1>1, MessageFollows DEF GameMessage, Inv
  <2> QED BY <1>1, <2>1, ListStays DEF GameMessage, view
<1>2. CASE GameFile BY <1>2, FewerRows DEF GameFile, tables, view
<1> QED BY <1>1, <1>2

\* A step in the tree.
LEMMA TreeInv ==
    ASSUME Inv, NEW n,
           \/ SelectNode(n) \/ ExpandNode(n) \/ CollapseNode(n)
           \/ DeleteNode(n) \/ RefreshNode(n) \/ AskExportToon(n)
    PROVE  Inv'
<1>1. CASE SelectNode(n) BY <1>1, NodeShown DEF SelectNode
<1>2. CASE ExpandNode(n) BY <1>2, FewerRows DEF ExpandNode, tables, view
<1>3. CASE CollapseNode(n) BY <1>3, NodeShown DEF CollapseNode
<1>4. CASE DeleteNode(n)
  <2>1. items' \subseteq items BY <1>4 DEF DeleteNode, DeleteToon, DeleteContainer
  <2> QED BY <1>4, <2>1, FewerRows DEF DeleteNode, view
<1>5. CASE RefreshNode(n) BY <1>5, NodeShown DEF RefreshNode
<1>6. CASE AskExportToon(n)
  <2>1. AskedOf' BY <1>6 DEF AskExportToon, Ask, AskedOf
  <2> QED BY <1>6, <2>1, SameList DEF AskExportToon, Ask, tables, view, Inv, SameThing
<1> QED BY <1>1, <1>2, <1>3, <1>4, <1>5, <1>6

\* A question about what is chosen is a question about those items.
LEMMA AskInv ==
    ASSUME Inv, NEW what, NEW c, Ask(what, c)
    PROVE  Inv'
<1>1. UNCHANGED <<items, lastId, list, selected>> BY DEF Ask, tables, view
<1>2. asking'.things = ChosenThings BY DEF Ask
<1>3. ChosenThings' = ChosenThings BY <1>1 DEF ChosenThings
<1>4. AskedOf' BY <1>2, <1>3 DEF AskedOf
<1> QED BY <1>1, <1>4, SameList DEF Inv, SameThing

\* A step in the item list.
LEMMA ListInv == Inv /\ List => Inv'
<1> SUFFICES ASSUME Inv, List PROVE Inv' OBVIOUS
<1>1. ASSUME NEW S, SelectRows(S) PROVE Inv'
  <2>1. asking' = asking /\ asking = NothingAsked BY <1>1 DEF SelectRows, Click
  <2>2. AskedOf' BY <2>1 DEF AskedOf, NothingAsked
  <2> QED BY <1>1, <2>2, SameList DEF SelectRows, tables
<1>2. ASSUME NEW column, SortBy(column) PROVE Inv'
  <2>1. PICK rows \in QueryAnswers(list.where, order', items) :
           /\ list' = [list EXCEPT !.rows = rows]
           /\ selected' = selected \cap DOMAIN rows
        BY <1>2 DEF SortBy
  <2>2. list' = [where |-> list.where, rows |-> rows] BY <2>1 DEF Inv, SameThing
  <2>3. asking' = asking /\ asking = NothingAsked BY <1>2 DEF SortBy, Click
  <2>4. items' = items /\ lastId' = lastId BY <1>2 DEF SortBy, tables
  <2> QED BY <2>1, <2>2, <2>3, <2>4, ListAnew
<1>3. ASSUME NEW i, DrawRow(i) PROVE Inv' BY <1>3, FewerRows DEF DrawRow, tables, view
<1>4. CASE CopyItemRef BY <1>4, FewerRows DEF CopyItemRef, tables, view
<1>5. CASE OpenInfo BY <1>5, FewerRows DEF OpenInfo, tables, view
<1>6. CASE AskDelete \/ AskExport BY <1>6, AskInv DEF AskDelete, AskExport
<1>7. CASE No \/ ConfirmExport \/ ConfirmExportToon
  <2>1. asking' = NothingAsked /\ UNCHANGED <<items, lastId, list, selected>>
        BY <1>7 DEF No, ConfirmExport, ConfirmExportToon, Export, tables, view
  <2>2. AskedOf' BY <2>1 DEF AskedOf, NothingAsked
  <2> QED BY <2>1, <2>2, SameList DEF Inv, SameThing
<1>8. CASE ConfirmDelete
  <2>1. PICK rows \in QueryAnswers(list.where, order, items') :
           list' = [list EXCEPT !.rows = rows]
        BY <1>8 DEF ConfirmDelete
  <2>2. list' = [where |-> list.where, rows |-> rows] BY <2>1 DEF Inv, SameThing
  <2>3. items' \subseteq items /\ lastId' = lastId BY <1>8 DEF ConfirmDelete, DeleteItems
  <2>4. selected' = {} /\ asking' = NothingAsked BY <1>8 DEF ConfirmDelete
  <2> QED BY <2>1, <2>2, <2>3, <2>4, ListAnew
<1> QED BY <1>1, <1>2, <1>3, <1>4, <1>5, <1>6, <1>7, <1>8 DEF List

\* A step in the find panel.
LEMMA FindInv == Inv /\ Find => Inv'
<1> SUFFICES ASSUME Inv, Find PROVE Inv' OBVIOUS
<1>1. ASSUME NEW t, NEW c, UpdateFindQuery(t, c), UNCHANGED <<tables, asking>> PROVE Inv'
  <2>1. CASE UNCHANGED view BY <1>1, <2>1, FewerRows DEF tables, view
  <2>2. CASE UpdateListView(Search(t, c)) BY <1>1, <2>2, ViewAnew
  <2> QED BY <1>1, <2>1, <2>2 DEF UpdateFindQuery
<1>2. ASSUME NEW t, EditText(t) PROVE Inv' BY <1>2, FewerRows DEF EditText, tables, view
<1>3. ASSUME NEW c, PickToon(c) PROVE Inv' BY <1>1, <1>3 DEF PickToon
<1>4. CASE OnTimer BY <1>1, <1>4 DEF OnTimer
<1> QED BY <1>2, <1>3, <1>4 DEF Find

\* The view opens with a list without a selection.
LEMMA InitInv == ListInit => Inv
<1> SUFFICES ASSUME ListInit PROVE Inv OBVIOUS
<1>1. Numbered BY StartAssumption DEF ListInit, StoredInit, Numbered
<1>2. PICK c \in Toons : \E rows \in QueryAnswers(CharacterNode(c), order, items) :
         list = [where |-> CharacterNode(c), rows |-> rows]
      BY DEF ListInit
<1>3. PICK rows \in QueryAnswers(CharacterNode(c), order, items) :
         list = [where |-> CharacterNode(c), rows |-> rows]
      BY <1>2
<1>4. \A i \in DOMAIN rows : rows[i] \in items BY AnswersFrom
<1>5. SameThing
  <2>1. selected = {} BY DEF ListInit
  <2>2. \A i \in DOMAIN rows : rows[i].id \in Nat /\ rows[i].owner \in Toons
        BY <1>1, <1>4 DEF Numbered, Row
  <2> QED BY <1>1, <1>3, <1>4, <2>1, <2>2 DEF SameThing, Positions, Numbered
<1>6. AskedOf BY DEF ListInit, AskedOf, NothingAsked
<1> QED BY <1>1, <1>5, <1>6 DEF Inv

\* The invariant is inductive.
LEMMA NextInv == Inv /\ [ListNext]_vars => Inv'
<1> SUFFICES ASSUME Inv, [ListNext]_vars PROVE Inv' OBVIOUS
<1>1. CASE Tree BY <1>1, TreeInv DEF Tree
<1>2. CASE UNCHANGED vars BY <1>2, FewerRows DEF vars, tables, view
<1> QED BY <1>1, <1>2, GameInv, ListInv, FindInv DEF ListNext

-----------------------------------------------------------------------------
(* The theorems.                                                           *)

\* A question that is closed was open: only an answer does that.
LEMMA Answered ==
    ASSUME ListNext, asking # NothingAsked, asking' = NothingAsked
    PROVE  No \/ ConfirmDelete \/ ConfirmExport \/ ConfirmExportToon
<1>1. ~ GameMessage /\ ~ GameFile BY DEF GameMessage, GameFile
<1>2. ~ Tree
      BY DEF Tree, SelectNode, ExpandNode, CollapseNode, DeleteNode, RefreshNode,
             AskExportToon, Ask, Click
<1>3. ~ Find BY DEF Find, EditText, PickToon, OnTimer, Click
<1> QED BY <1>1, <1>2, <1>3
        DEF ListNext, List, SelectRows, SortBy, DrawRow, CopyItemRef, OpenInfo, AskDelete,
            AskExport, Ask, Click

\* A row that an itemidx chosen finds is of an item chosen.
LEMMA ChosenRows ==
    ASSUME Inv, NEW r \in items, r.id \in Chosen
    PROVE  r.thing \in ChosenThings
BY DEF Inv, SameThing, Positions, Chosen, ChosenThings

\* OnDelete and OnExportToCSV reach the items the question was about only.
LEMMA AnswerReaches ==
    ASSUME Inv, ListNext, asking # NothingAsked, asking' = NothingAsked
    PROVE  /\ Gone \subseteq asking.things
           /\ asking.what = "export" /\ csv' # csv => csv' \subseteq asking.things
<1>1. CASE No BY <1>1 DEF No, Gone, tables
<1>2. CASE ConfirmDelete
  <2>1. Gone \subseteq ChosenThings
    <3> SUFFICES ASSUME NEW r \in items, r \notin items' PROVE r.thing \in ChosenThings
        BY DEF Gone
    <3>1. r.id \in Chosen BY <1>2 DEF ConfirmDelete, DeleteItems
    <3> QED BY <3>1, ChosenRows
  <2>2. asking.what = "delete" BY <1>2 DEF ConfirmDelete
  <2> QED BY <2>1, <2>2 DEF Inv, AskedOf
<1>3. CASE ConfirmExport
  <2>1. csv' \subseteq ChosenThings
    <3>1. csv' = {r.thing : r \in {x \in Joined(items) : x.id \in Chosen}}
          BY <1>3 DEF ConfirmExport, Export
    <3> QED BY <3>1, ChosenRows DEF Joined
  <2>2. asking.what = "export" BY <1>3 DEF ConfirmExport
  <2>3. Gone = {} BY <1>3 DEF ConfirmExport, Export, Gone, tables
  <2> QED BY <2>1, <2>2, <2>3 DEF Inv, AskedOf
<1>4. CASE ConfirmExportToon BY <1>4 DEF ConfirmExportToon, Export, Gone, tables
<1> QED BY <1>1, <1>2, <1>3, <1>4, Answered

\* Only what the user was asked about is deleted or exported, whatever
\* messages and timers do to the table and the list while the question is
\* open, and however long ago the list was filled.
THEOREM DeletesOnlyChosen == ListSpec => OnlyChosen
<1>1. ListInit => Inv BY InitInv
<1>2. Inv /\ [ListNext]_vars => Inv' BY NextInv
<1>3. Inv /\ [ListNext]_vars =>
         [asking # NothingAsked /\ asking' = NothingAsked =>
             /\ Gone \subseteq asking.things
             /\ asking.what = "export" /\ csv' # csv => csv' \subseteq asking.things]_vars
      BY AnswerReaches
<1> QED BY <1>1, <1>2, <1>3, PTL DEF ListSpec, OnlyChosen

-----------------------------------------------------------------------------
(* The names of backpacks.                                                 *)

\* What is cached was in the file once, and is what is there now when the
\* stamps agree; stamps yet to be given are smaller than those given.
Stamped ==
    /\ left \in Nat \X Nat \X Nat
    /\ files \in [Keys -> [stamp : Nat, name : Names \cup {NoName}]]
    /\ \A k \in Keys :
          /\ files[k].stamp = 0 => files[k].name = NoName
          /\ files[k].stamp # 0 => files[k].stamp > left[2]
    /\ DOMAIN fileCache \subseteq Keys
    /\ \A k \in DOMAIN fileCache :
          /\ fileCache[k].stamp \in Nat /\ fileCache[k].stamp > left[2]
          /\ fileCache[k].name # NoName
          /\ fileCache[k].stamp = files[k].stamp => fileCache[k].name = files[k].name

\* A made-up name is none of a file's.
MadeUpKept ==
    \A k \in DOMAIN dbCache : dbCache[k][1] # "file"

NamesInv == Stamped /\ MadeUpKept

\* A step that spends nothing on files keeps what is known of them.
LEMMA NamesStay ==
    ASSUME NamesInv, UNCHANGED naming, left' \in Nat \X Nat \X Nat, left'[2] <= left[2]
    PROVE  NamesInv'
<1>1. left[2] \in Nat /\ left'[2] \in Nat BY DEF NamesInv, Stamped
<1>2. \A k \in Keys : files[k].stamp \in Nat BY DEF NamesInv, Stamped
<1> QED BY <1>1, <1>2 DEF NamesInv, Stamped, MadeUpKept, naming

\* A click or a message is spent.
LEMMA Spent ==
    ASSUME NamesInv, NEW i \in 1 .. 3, Spend(i)
    PROVE  /\ left' \in Nat \X Nat \X Nat
           /\ i # 2 => left'[2] = left[2]
           /\ i = 2 => left'[2] = left[2] - 1 /\ left[2] > 0
<1>1. left \in Nat \X Nat \X Nat BY DEF NamesInv, Stamped
<1>2. left[1] \in Nat /\ left[2] \in Nat /\ left[3] \in Nat BY <1>1
<1>3. left = <<left[1], left[2], left[3]>> BY <1>1
<1>4. CASE i = 1
  <2>1. left' = <<left[1] - 1, left[2], left[3]>> /\ left[1] > 0 BY <1>3, <1>4 DEF Spend
  <2> QED BY <1>2, <1>4, <2>1
<1>5. CASE i = 2
  <2>1. left' = <<left[1], left[2] - 1, left[3]>> /\ left[2] > 0 BY <1>3, <1>5 DEF Spend
  <2> QED BY <1>2, <1>5, <2>1
<1>6. CASE i = 3
  <2>1. left' = <<left[1], left[2], left[3] - 1>> /\ left[3] > 0 BY <1>3, <1>6 DEF Spend
  <2> QED BY <1>2, <1>6, <2>1
<1> QED BY <1>4, <1>5, <1>6

\* The game writes or removes a file: what is cached is older.
LEMMA FilesInv == NamesInv /\ GameFile => NamesInv'
<1> SUFFICES ASSUME NamesInv, GameFile PROVE NamesInv' OBVIOUS
<1>1. PICK k \in Keys,
           f \in {NoFile} \cup {[stamp |-> left[2], name |-> n] : n \in Names \cup {NoName}} :
         files' = [files EXCEPT ![k] = f] /\ Spend(2) /\ UNCHANGED <<fileCache, dbCache>>
      BY DEF GameFile, WriteFile, RemoveFile
<1>2. left' \in Nat \X Nat \X Nat /\ left'[2] = left[2] - 1 /\ left[2] > 0 BY <1>1, Spent
<1>3. left[2] \in Nat BY DEF NamesInv, Stamped
<1>4. f \in [stamp : Nat, name : Names \cup {NoName}] /\ f.stamp \in {0, left[2]}
      /\ (f.stamp = 0 => f.name = NoName)
      BY <1>1, <1>2, <1>3 DEF NoFile
<1>5. \A x \in Keys : files'[x] = IF x = k THEN f ELSE files[x]
      BY <1>1 DEF NamesInv, Stamped
<1>6. files' \in [Keys -> [stamp : Nat, name : Names \cup {NoName}]]
      BY <1>1, <1>4 DEF NamesInv, Stamped
<1>7. \A x \in Keys : /\ files'[x].stamp = 0 => files'[x].name = NoName
                      /\ files'[x].stamp # 0 => files'[x].stamp > left'[2]
  <2> SUFFICES ASSUME NEW x \in Keys
               PROVE  /\ files'[x].stamp = 0 => files'[x].name = NoName
                      /\ files'[x].stamp # 0 => files'[x].stamp > left'[2]
      OBVIOUS
  <2>1. CASE x = k BY <1>2, <1>3, <1>4, <1>5, <2>1
  <2>2. CASE x # k
    <3>1. files'[x] = files[x] BY <1>5, <2>2
    <3>2. files[x].stamp \in Nat BY DEF NamesInv, Stamped
    <3> QED BY <1>2, <1>3, <3>1, <3>2 DEF NamesInv, Stamped
  <2> QED BY <2>1, <2>2
<1>8. ASSUME NEW x \in DOMAIN fileCache
      PROVE  /\ fileCache[x].stamp \in Nat /\ fileCache[x].stamp > left'[2]
             /\ fileCache[x].name # NoName
             /\ fileCache[x].stamp = files'[x].stamp => fileCache[x].name = files'[x].name
  <2>1. x \in Keys /\ fileCache[x].stamp \in Nat /\ fileCache[x].stamp > left[2]
        BY DEF NamesInv, Stamped
  <2>2. fileCache[x].stamp # f.stamp BY <1>3, <1>4, <2>1
  <2> QED BY <1>2, <1>3, <1>5, <2>1, <2>2 DEF NamesInv, Stamped
<1> QED BY <1>1, <1>2, <1>6, <1>7, <1>8 DEF NamesInv, Stamped, MadeUpKept

\* A made-up name is the item's, the number, or empty.
LEMMA MadeUpNames == ASSUME NEW b PROVE MadeUp(b)[1] # "file"
BY DEF MadeUp, ItemName

\* A view asks for names.
LEMMA AskInvNames ==
    ASSUME NamesInv, NEW K \in SUBSET Keys, AskNames(K), left' \in Nat \X Nat \X Nat,
           left'[2] = left[2]
    PROVE  NamesInv'
<1>1. UNCHANGED files BY DEF AskNames
<1>2. ASSUME NEW x \in DOMAIN fileCache'
      PROVE  \/ x \in DOMAIN fileCache /\ fileCache'[x] = fileCache[x]
             \/ x \in Keys /\ files[x].name # NoName /\ fileCache'[x] = files[x]
  <2>1. /\ x \in KeptCached(K) \cup ReadNow(K)
        /\ fileCache'[x] = IF x \in ReadNow(K) THEN files[x] ELSE fileCache[x]
        BY DEF AskNames
  <2> QED BY <2>1 DEF KeptCached, ReadNow
<1>3. Stamped'
  <2>1. DOMAIN fileCache' \subseteq Keys BY <1>2 DEF NamesInv, Stamped
  <2>2. ASSUME NEW x \in DOMAIN fileCache'
        PROVE  /\ fileCache'[x].stamp \in Nat /\ fileCache'[x].stamp > left[2]
               /\ fileCache'[x].name # NoName
               /\ fileCache'[x].stamp = files[x].stamp => fileCache'[x].name = files[x].name
    <3>1. CASE x \in DOMAIN fileCache /\ fileCache'[x] = fileCache[x]
          BY <3>1 DEF NamesInv, Stamped
    <3>2. CASE x \in Keys /\ files[x].name # NoName /\ fileCache'[x] = files[x]
          BY <3>2 DEF NamesInv, Stamped
    <3> QED BY <1>2, <3>1, <3>2
  <2> QED BY <1>1, <2>1, <2>2 DEF NamesInv, Stamped
<1>4. MadeUpKept'
  <2>1. \A x \in DOMAIN dbCache' :
           dbCache'[x] = IF x \in MadeNow(K) THEN MadeUp(x[2]) ELSE dbCache[x]
        BY DEF AskNames
  <2>2. \A x \in DOMAIN dbCache' : x \in DOMAIN dbCache \/ x \in MadeNow(K) BY DEF AskNames
  <2> QED BY <2>1, <2>2, MadeUpNames DEF NamesInv, MadeUpKept
<1> QED BY <1>3, <1>4 DEF NamesInv

\* What the views ask for are backpacks of characters.
LEMMA KeysAsked ==
    ASSUME Inv
    PROVE  /\ \A rows : rows \subseteq items => BagKeys(rows) \subseteq Keys
           /\ \A i \in Positions : BagKeys({list.rows[i]}) \subseteq Keys
           /\ \A n : NodeKeys(Children(n)) \subseteq Keys
<1>1. ASSUME NEW rows, rows \subseteq items PROVE BagKeys(rows) \subseteq Keys
  <2>1. \A r \in items : r.owner \in Toons BY DEF Inv, Numbered, Row
  <2> QED BY <1>1, <2>1 DEF BagKeys, Keys
<1>2. ASSUME NEW i \in Positions PROVE BagKeys({list.rows[i]}) \subseteq Keys
  <2>1. list.rows[i].owner \in Toons BY DEF Inv, SameThing
  <2> QED BY <2>1 DEF BagKeys, Keys
<1>3. ASSUME NEW n PROVE NodeKeys(Children(n)) \subseteq Keys
  <2> SUFFICES ASSUME NEW m \in Children(n), m.box \in Bags PROVE <<m.toon, m.box>> \in Keys
      BY DEF NodeKeys
  <2>1. m.box \in Nat /\ m.box \notin 0 .. 10 BY StoredAssumption
  <2>2. m \notin CharacterNodes
    <3> SUFFICES ASSUME NEW c \in toons, m = CharacterNode(c) PROVE FALSE BY DEF CharacterNodes
    <3>1. m.box = -1 BY DEF CharacterNode, Node
    <3> QED BY <2>1, <3>1
  <2>3. m \notin ContainersOf(n.toon)
        BY <2>1 DEF ContainersOf, Node, Bank, Inventory, Shop
  <2>4. m \in BackpacksIn(n) BY <2>2, <2>3 DEF Children
  <2>5. PICK r \in items : Wants(n, r) /\ m = Node(n.toon, r.children, n.panel)
        BY <2>4 DEF BackpacksIn
  <2>6. r.owner \in Toons BY DEF Inv, Numbered, Row
  <2>7. m.toon = r.owner BY <2>5 DEF Wants, Node
  <2> QED BY <2>6, <2>7 DEF Keys
<1> QED BY <1>1, <1>2, <1>3

\* Every other step leaves files and caches alone.
LEMMA OthersInv ==
    ASSUME NamesInv, Inv, ListNext, ~ GameFile
    PROVE  NamesInv'
<1>1. ASSUME UNCHANGED <<naming, left>> PROVE NamesInv'
  <2>1. left \in Nat \X Nat \X Nat /\ left[2] \in Nat BY DEF NamesInv, Stamped
  <2> QED BY <1>1, <2>1, NamesStay
<1>2. ASSUME NEW i \in {1, 3}, Spend(i), UNCHANGED naming PROVE NamesInv'
  <2>1. left' \in Nat \X Nat \X Nat /\ left'[2] = left[2] BY <1>2, Spent
  <2>2. left[2] \in Nat BY DEF NamesInv, Stamped
  <2> QED BY <1>2, <2>1, <2>2, NamesStay
<1>3. CASE GameMessage BY <1>2, <1>3 DEF GameMessage, Message
<1>4. ASSUME NEW K \in SUBSET Keys, AskNames(K), UNCHANGED left PROVE NamesInv'
  <2>1. left \in Nat \X Nat \X Nat BY DEF NamesInv, Stamped
  <2> QED BY <1>4, <2>1, AskInvNames
<1>5. ASSUME NEW K \in SUBSET Keys, AskNames(K), Spend(3) PROVE NamesInv'
  <2>1. left' \in Nat \X Nat \X Nat /\ left'[2] = left[2] BY <1>5, Spent
  <2> QED BY <1>5, <2>1, AskInvNames
<1>6. CASE Tree
  <2>1. ASSUME NEW n, ExpandNode(n) \/ RefreshNode(n) PROVE NamesInv'
    <3>1. PICK m : AskNames(NodeKeys(Children(m))) BY <2>1 DEF ExpandNode, RefreshNode
    <3>2. Spend(3) BY <2>1 DEF ExpandNode, RefreshNode, Click
    <3> QED BY <1>5, <3>1, <3>2, KeysAsked
  <2>2. ASSUME NEW n, \/ SelectNode(n) \/ CollapseNode(n) \/ DeleteNode(n) \/ AskExportToon(n)
        PROVE  NamesInv'
        BY <1>2, <2>2 DEF SelectNode, CollapseNode, DeleteNode, AskExportToon, Ask, Click
  <2> QED BY <1>6, <2>1, <2>2 DEF Tree
<1>7. CASE List
  <2>1. ASSUME NEW i, i \in Positions, DrawRow(i) PROVE NamesInv'
    <3>1. AskNames(BagKeys({list.rows[i]})) /\ UNCHANGED left BY <2>1 DEF DrawRow
    <3> QED BY <1>4, <2>1, <3>1, KeysAsked
  <2>2. CASE \/ \E S \in SUBSET Positions : SelectRows(S)
             \/ \E column \in Columns : SortBy(column)
             \/ OpenInfo \/ AskDelete \/ AskExport
        BY <1>2, <2>2 DEF SelectRows, SortBy, OpenInfo, AskDelete, AskExport, Ask, Click
  <2>3. CASE No \/ ConfirmDelete BY <1>1, <2>3 DEF No, ConfirmDelete
  <2>4. CASE CopyItemRef
    <3>1. AskNames(BagKeys({r \in items : r.id \in Chosen})) /\ Spend(3)
          BY <2>4 DEF CopyItemRef
    <3>2. BagKeys({r \in items : r.id \in Chosen}) \subseteq Keys BY KeysAsked
    <3> QED BY <1>5, <3>1, <3>2
  <2>5. CASE ConfirmExport \/ ConfirmExportToon
    <3>1. PICK rows : rows \subseteq items /\ Export(rows)
          BY <2>5 DEF ConfirmExport, ConfirmExportToon, Joined
    <3>2. BagKeys(rows) \subseteq Keys BY <3>1, KeysAsked
    <3> QED BY <1>4, <3>1, <3>2 DEF Export
  <2> QED BY <1>7, <2>1, <2>2, <2>3, <2>4, <2>5 DEF List
<1>8. CASE Find
  <2>1. CASE OnTimer BY <1>1, <2>1 DEF OnTimer
  <2> QED BY <1>2, <1>8, <2>1 DEF Find, EditText, PickToon, Click
<1> QED BY <1>3, <1>6, <1>7, <1>8 DEF ListNext

\* A backpack has the name its file has now, whenever and however often the
\* game writes or removes the file.
THEOREM NamesOfFiles == ListSpec => []NameCurrent
<1>1. ListInit => NamesInv
  <2> SUFFICES ASSUME ListInit PROVE NamesInv OBVIOUS
  <2>1. left \in Nat \X Nat \X Nat BY StartAssumption DEF ListInit, StoredInit
  <2>2. NoFile \in [stamp : Nat, name : Names \cup {NoName}] BY DEF NoFile
  <2>3. files = [k \in Keys |-> NoFile] /\ fileCache = <<>> /\ dbCache = <<>>
        BY DEF ListInit, NamesInit
  <2>4. DOMAIN fileCache = {} /\ DOMAIN dbCache = {} BY <2>3
  <2> QED BY <2>1, <2>2, <2>3, <2>4 DEF NamesInv, Stamped, MadeUpKept, NoFile
<1>2. ListInit => Inv BY InitInv
<1>3. Inv /\ [ListNext]_vars => Inv' BY NextInv
<1>4. Inv /\ NamesInv /\ [ListNext]_vars => NamesInv'
  <2>1. ASSUME NamesInv, UNCHANGED vars PROVE NamesInv'
    <3>1. left \in Nat \X Nat \X Nat /\ left[2] \in Nat BY <2>1 DEF NamesInv, Stamped
    <3> QED BY <2>1, <3>1, NamesStay DEF vars
  <2> QED BY <2>1, FilesInv, OthersInv
<1>5. NamesInv => NameCurrent
  <2> SUFFICES ASSUME NamesInv, NEW k \in Keys
               PROVE  /\ files[k].name # NoName =>
                            GetContainerName(k) = <<"file", files[k].name>>
                      /\ GetContainerName(k)[1] = "file" => files[k].name # NoName
      BY DEF NameCurrent
  <2>1. NameInFile(k) = files[k].name
    <3>1. IsCached(k) => k \in DOMAIN fileCache /\ Swept(k)[k] = fileCache[k]
          BY DEF IsCached, Swept, Without, Restrict
    <3> QED BY <3>1 DEF NameInFile, IsCached, NamesInv, Stamped
  <2>2. MakeContainerName(k)[1] # "file"
        BY MadeUpNames DEF MakeContainerName, NamesInv, MadeUpKept
  <2> QED BY <2>1, <2>2 DEF GetContainerName
<1> QED BY <1>1, <1>2, <1>3, <1>4, <1>5, PTL DEF ListSpec

-----------------------------------------------------------------------------
(* The locations.                                                          *)

\* A backpack has one row.
BagsOnce == \A r, q \in items : r.children > 0 /\ r.children = q.children => r = q

\* Messages keep to that.
LEMMA MessageBags == ASSUME Numbered, BagsOnce, Message PROVE BagsOnce'
<1>1. ASSUME NEW a \in Arrivals, NEW p \in Places, Arrive(a[1], a[2], p, a[3]) PROVE BagsOnce'
  <2> DEFINE new == [id |-> lastId + 1, thing |-> lastId + 1, kind |-> a[2], parent |-> p[1],
                     slot |-> p[2], children |-> a[3], owner |-> a[1]]
  <2>1. items' = items \cup {new} BY <1>1 DEF Arrive, NewId
  <2>2. a[3] = 0 \/ \A r \in items : r.children # a[3] BY <1>1 DEF Arrive
  <2>3. new.children = a[3] OBVIOUS
  <2> HIDE DEF new
  <2> QED BY <2>1, <2>2, <2>3 DEF BagsOnce
<1>2. ASSUME NEW r \in items, NEW p \in Places, Shift(r, p) PROVE BagsOnce'
  <2> DEFINE new == [r EXCEPT !.parent = p[1], !.slot = p[2]]
  <2>1. items' = (items \ {r}) \cup {new} BY <1>2 DEF Shift
  <2>2. r \in Row BY DEF Numbered
  <2>3. new.children = r.children BY <2>2 DEF Row
  <2> HIDE DEF new
  <2> QED BY <2>1, <2>3 DEF BagsOnce
<1>3. ASSUME NEW r \in items, Leave(r) PROVE BagsOnce' BY <1>3 DEF Leave, BagsOnce
<1>4. ASSUME NEW r \in items, Renumber(r) PROVE BagsOnce'
  <2> DEFINE new == [r EXCEPT !.id = lastId + 1]
  <2>1. items' = (items \ {r}) \cup {new} BY <1>4 DEF Renumber, NewId
  <2>2. r \in Row BY DEF Numbered
  <2>3. new.children = r.children BY <2>2 DEF Row
  <2> HIDE DEF new
  <2> QED BY <2>1, <2>3 DEF BagsOnce
<1> QED BY <1>1, <1>2, <1>3, <1>4 DEF Message

\* The windows only take rows away.
LEMMA FewerUnlessMessage ==
    ASSUME [ListNext]_vars, ~ GameMessage
    PROVE  items' \subseteq items
<1>1. CASE UNCHANGED vars BY <1>1 DEF vars, tables
<1>2. CASE GameFile BY <1>2 DEF GameFile, tables
<1>3. CASE Tree
      BY <1>3 DEF Tree, SelectNode, ExpandNode, CollapseNode, DeleteNode, DeleteToon,
                  DeleteContainer, RefreshNode, AskExportToon, Ask, tables
<1>4. CASE List
      BY <1>4 DEF List, SelectRows, SortBy, DrawRow, CopyItemRef, OpenInfo, AskDelete, AskExport,
                  Ask, No, ConfirmDelete, DeleteItems, ConfirmExport, ConfirmExportToon, Export,
                  tables
<1>5. CASE Find BY <1>5 DEF Find, EditText, PickToon, OnTimer, tables
<1> QED BY <1>1, <1>2, <1>3, <1>4, <1>5 DEF ListNext

\* The tree and the location column divide the slots alike.
LEMMA PanelsAgree ==
    ASSUME NEW s \in Nat, NEW p \in Panels
    PROVE  OnPanel(p, s) <=> PanelOf(Inventory, s) = p
BY DEF Panels, OnPanel, PanelOf, Bank, Inventory, Shop

\* Which container node lists a row.
LEMMA ContainerNode ==
    ASSUME NEW r \in Row, NEW n \in ContainersOf(r.owner), Wants(n, r)
    PROVE  n = Node(r.owner, r.parent, PanelOf(r.parent, r.slot))
<1>1. r.slot \in Nat BY DEF Row
<1>2. CASE n = Node(r.owner, Bank, "Bank")
  <2>1. r.parent = Bank BY <1>2 DEF Wants, Node, Bank
  <2> QED BY <1>2, <2>1 DEF PanelOf, Bank, Shop, Inventory
<1>3. CASE n = Node(r.owner, Shop, "Shop")
  <2>1. r.parent = Shop BY <1>3 DEF Wants, Node, Shop
  <2> QED BY <1>3, <2>1 DEF PanelOf, Bank, Shop, Inventory
<1>4. ASSUME NEW p \in Panels, n = Node(r.owner, Inventory, p)
      PROVE  n = Node(r.owner, r.parent, PanelOf(r.parent, r.slot))
  <2>1. r.parent = Inventory /\ OnPanel(p, r.slot)
        BY <1>4 DEF Wants, Fits, Node, Inventory
  <2> QED BY <1>1, <1>4, <2>1, PanelsAgree
<1> QED BY <1>2, <1>3, <1>4 DEF ContainersOf

\* Every slot is some container's.
LEMMA SomeContainer ==
    ASSUME NEW r \in Row, r.parent \in {Bank, Inventory, Shop}
    PROVE  \E n \in ContainersOf(r.owner) : Wants(n, r)
<1>1. r.slot \in Nat BY DEF Row
<1>2. CASE r.parent = Bank
  <2>1. Wants(Node(r.owner, Bank, "Bank"), r) BY <1>2 DEF Wants, Fits, Node, Bank, Inventory
  <2> QED BY <2>1 DEF ContainersOf
<1>3. CASE r.parent = Shop
  <2>1. Wants(Node(r.owner, Shop, "Shop"), r) BY <1>3 DEF Wants, Fits, Node, Shop, Inventory
  <2> QED BY <2>1 DEF ContainersOf
<1>4. CASE r.parent = Inventory
  <2> DEFINE p == PanelOf(Inventory, r.slot)
  <2>1. p \in Panels BY <1>1 DEF PanelOf, Panels, Bank, Inventory, Shop
  <2>2. OnPanel(p, r.slot) BY <1>1, <2>1, PanelsAgree
  <2>3. Wants(Node(r.owner, Inventory, p), r) BY <1>4, <2>2 DEF Wants, Fits, Node
  <2> QED BY <2>1, <2>3 DEF ContainersOf
<1> QED BY <1>2, <1>3, <1>4

\* The tree shows every item where the location column says it is, whatever
\* slots the items have.
THEOREM TreeShowsLocations == ListSpec => []NodesAgree
<1>1. ListInit => Inv BY InitInv
<1>2. Inv /\ [ListNext]_vars => Inv' BY NextInv
<1>3. ListInit => BagsOnce BY StartAssumption DEF ListInit, StoredInit, BagsOnce
<1>4. Inv /\ BagsOnce /\ [ListNext]_vars => BagsOnce'
  <2> SUFFICES ASSUME Inv, BagsOnce, [ListNext]_vars PROVE BagsOnce' OBVIOUS
  <2>1. CASE GameMessage BY <2>1, MessageBags DEF GameMessage, Inv
  <2>2. CASE ~ GameMessage BY <2>2, FewerUnlessMessage DEF BagsOnce
  <2> QED BY <2>1, <2>2
<1>5. Inv /\ BagsOnce => NodesAgree
  <2> SUFFICES ASSUME Inv, BagsOnce, NEW r \in items,
                      r.parent \in {Bank, Inventory, Shop}
                         \/ \E n \in Reached(r.owner) : Wants(n, r)
               PROVE  \E n \in Reached(r.owner) :
                         /\ Wants(n, r)
                         /\ \A m \in Reached(r.owner) : Wants(m, r) => m = n
                         /\ n.panel = Location(r, items)
      BY DEF NodesAgree, Joined
  <2>1. r \in Row BY DEF Inv, Numbered
  <2>2. ASSUME NEW m \in Reached(r.owner), Wants(m, r)
        PROVE  \/ m \in ContainersOf(r.owner)
               \/ \E n \in ContainersOf(r.owner), x \in items :
                     /\ n.box \in {Bank, Inventory} /\ x.children > 0 /\ Wants(n, x)
                     /\ m = Node(n.toon, x.children, n.panel)
        BY <2>2 DEF Reached, BackpacksIn
  <2>3. \A n \in ContainersOf(r.owner) : n.box \in {Bank, Inventory, Shop} /\ n.toon = r.owner
        BY DEF ContainersOf, Node
  <2>4. CASE r.parent \in {Bank, Inventory, Shop}
    <3>1. PICK n \in ContainersOf(r.owner) : Wants(n, r) BY <2>1, <2>4, SomeContainer
    <3>2. n = Node(r.owner, r.parent, PanelOf(r.parent, r.slot)) BY <2>1, <3>1, ContainerNode
    <3>3. n.panel = Location(r, items)
          BY <2>4, <3>2 DEF Node, Location, Bank, Inventory, Shop
    <3>4. ASSUME NEW m \in Reached(r.owner), Wants(m, r) PROVE m = n
      <4>1. ASSUME NEW q \in ContainersOf(r.owner), NEW x \in items,
                   x.children > 0, m = Node(q.toon, x.children, q.panel)
            PROVE  FALSE
        <5>1. x \in Row BY DEF Inv, Numbered
        <5>2. x.children \in Bags BY <4>1, <5>1 DEF Row
        <5>3. x.children \in Nat /\ x.children \notin 0 .. 10 BY <5>2, StoredAssumption
        <5>4. m.box = x.children BY <4>1 DEF Node
        <5> QED BY <2>4, <3>4, <5>3, <5>4 DEF Wants, Bank, Inventory, Shop
      <4>2. m \in ContainersOf(r.owner) BY <2>2, <3>4, <4>1
      <4> QED BY <2>1, <3>2, <3>4, <4>2, ContainerNode
    <3>5. n \in Reached(r.owner) BY DEF Reached
    <3> QED BY <3>1, <3>3, <3>4, <3>5
  <2>5. CASE r.parent \notin {Bank, Inventory, Shop}
    <3>1. PICK n \in Reached(r.owner) : Wants(n, r) BY <2>5
    <3>2. ASSUME NEW m \in Reached(r.owner), Wants(m, r)
          PROVE  \E x \in items : /\ x.children = r.parent /\ x.children > 0
                                  /\ m = Node(r.owner, r.parent, PanelOf(x.parent, x.slot))
      <4>1. m.box = -1 \/ m.box = r.parent BY <3>2 DEF Wants
      <4>2. m \notin ContainersOf(r.owner)
            BY <2>3, <2>5, <4>1 DEF Bank, Inventory, Shop
      <4>3. PICK q \in ContainersOf(r.owner), x \in items :
               /\ q.box \in {Bank, Inventory} /\ x.children > 0 /\ Wants(q, x)
               /\ m = Node(q.toon, x.children, q.panel)
            BY <2>2, <3>2, <4>2
      <4>4. x \in Row /\ x.owner = r.owner BY <2>3, <4>3 DEF Inv, Numbered, Wants
      <4>5. q = Node(r.owner, x.parent, PanelOf(x.parent, x.slot))
            BY <4>3, <4>4, ContainerNode
      <4>6. m.box = x.children BY <4>3 DEF Node
      <4>7. x.children # -1 BY <4>3, <4>4, StoredAssumption DEF Row
      <4> QED BY <4>1, <4>3, <4>5, <4>6, <4>7 DEF Node
    <3>3. PICK x \in items : /\ x.children = r.parent /\ x.children > 0
                             /\ n = Node(r.owner, r.parent, PanelOf(x.parent, x.slot))
          BY <3>1, <3>2
    <3>4. \A y \in items : y.children = r.parent => y = x BY <3>3 DEF BagsOnce
    <3>5. r.parent > 10
          BY <2>1, <3>3, StoredAssumption DEF Inv, Numbered, Row
    <3>6. n.panel = Location(r, items)
      <4>1. {y \in items : y.children = r.parent} = {x} BY <3>3, <3>4
      <4>2. (CHOOSE y \in {x} : TRUE) = x OBVIOUS
      <4>3. n.panel = PanelOf(x.parent, x.slot) BY <3>3 DEF Node
      <4>4. ~ (r.parent <= 10) BY <2>1, <3>5 DEF Row
      <4> QED BY <4>1, <4>2, <4>3, <4>4 DEF Location
    <3>7. \A m \in Reached(r.owner) : Wants(m, r) => m = n BY <3>2, <3>3, <3>4
    <3> QED BY <3>1, <3>6, <3>7
  <2> QED BY <2>4, <2>5
<1> QED BY <1>1, <1>2, <1>3, <1>4, <1>5, PTL DEF ListSpec
=============================================================================
