--------------------------- MODULE SchemaUpgrade ---------------------------
(***************************************************************************)
(* The scripts by which DBManager creates the database of the user and     *)
(* brings an older one to CURRENT_DB_VERSION.  A table keeps the columns   *)
(* the scripts tell apart: "item" stands for the columns of tItems that    *)
(* every version has and every script copies (keylow, keyhigh, ql, stack,  *)
(* parent, slot, children, owner).                                         *)
(***************************************************************************)
EXTENDS Sql

CURRENT_DB_VERSION == 8

NameCols == {"charid", "charname"}
ShopCols == NameCols \union {"shopid"}
DimensionCols == ShopCols \union {"dimensionid"}
PlainItemCols == {"itemidx", "item"}
ItemCols == PlainItemCols \union {"flags"}
StatCols == {"charid", "statid", "statvalue"}

\* Mutant: the rows stay in the second table, which is dropped.
RebuildOneWay(table, second, cols, key, copied) ==
  << CreateTable(second, cols, key), CopyRows(second, table, copied), DropTable(table),
     CreateTable(table, cols, key), DropTable(second) >>

\* The table is replaced by one with other columns: through a second table,
\* since SQLite cannot alter the columns of a table.
Rebuild(table, second, cols, key, copied) ==
  << CreateTable(second, cols, key), CopyRows(second, table, copied), DropTable(table),
     CreateTable(table, cols, key), CopyRows(table, second, copied), DropTable(second) >>

CharIndex == << CreateIndex("iCharId", "tToons", "charid") >>
CreateStats ==
  << CreateTable("tToonStats", StatCols, ""), CreateIndex("charstatindex", "tToonStats", "") >>

\* The first script makes the index before it copies the rows back.
Upgrade0 ==
  << CreateTable("tToons2", NameCols, ""), CopyRows("tToons2", "tToons", NameCols),
     DropTable("tToons"), CreateTable("tToons", NameCols, "") >>
  \o CharIndex
  \o << CopyRows("tToons", "tToons2", NameCols), DropTable("tToons2") >>

Upgrade1 == Rebuild("tToons", "tToons2", NameCols, "charid", NameCols) \o CharIndex

Upgrade2 == Rebuild("tToons", "tToons2", ShopCols, "charid", NameCols) \o CharIndex

Dimension(id) ==
  InsertRow("tDimensions", [dimensionid |-> id, dimensionname |-> "server"])
Upgrade3 ==
  Rebuild("tItems", "tItems2", ItemCols, "itemidx", PlainItemCols)
  \o << CreateTable("tDimensions", {"dimensionid", "dimensionname"}, "dimensionid"),
        Dimension(11), Dimension(12), Dimension(13) >>
  \o Rebuild("tToons", "tToons2", DimensionCols, "charid", ShopCols) \o CharIndex

Upgrade4 == CreateStats

Upgrade5 == << CreateIndex("idx_titems_keylow", "tItems", "") >>

Upgrade6 ==
  << DropIndex("iOwner"), DropIndex("iParent"),
     CreateIndex("idx_titems_owner", "tItems", ""), CreateIndex("idx_titems_parent", "tItems", "") >>

\* Mutant: the index that went with the table is not made again.
Upgrade7NoIndex == << DropTable("tDimensions") >> \o Rebuild("tToons", "tToons2", ShopCols, "charid", ShopCols)

Upgrade7 ==
  << DropTable("tDimensions") >> \o Rebuild("tToons", "tToons2", ShopCols, "charid", ShopCols) \o CharIndex

\* DBManager::updateDBVersion: the switch falls through from the version
\* found to the default label, whose two statements have no transaction.
\* Script n is what is committed n-th.
Upgrade ==
  << Upgrade0, Upgrade1, Upgrade2, Upgrade3, Upgrade4, Upgrade5, Upgrade6, Upgrade7,
     << SetVersion(0) >>, << SetVersion(CURRENT_DB_VERSION) >> >>

\* DBManager::createDBScheme
CreateScheme ==
  << CreateTable("tItems", ItemCols, "itemidx"),
     CreateIndex("idx_titems_keylow", "tItems", ""),
     CreateIndex("idx_titems_owner", "tItems", ""),
     CreateIndex("idx_titems_parent", "tItems", ""),
     CreateView("vBankItems"), CreateView("vContainers"), CreateView("vInvItems"),
     CreateTable("tToons", ShopCols, "charid") >>
  \o CharIndex \o CreateStats \o << SetVersion(CURRENT_DB_VERSION) >>

\* DBManager::getDBVersion: a query that fails counts as version 0.
getDBVersion(db) == db.version
-----------------------------------------------------------------------------
(***************************************************************************)
(* Databases users have.  Version 0 is the oldest the scripts know: names  *)
(* without any key, items without flags, indexes by owner and parent.      *)
(* Each later version is what the scripts make of it, with the shop ids    *)
(* and flags that version can hold.                                        *)
(***************************************************************************)
Table0(cols, rows) == [cols |-> cols, key |-> "", rows |-> rows]
Toon(id, name) == [charid |-> id, charname |-> name]

BaseDb(toons) ==
  [tables |-> [tToons |-> Table0(NameCols, toons),
               tItems |-> [cols |-> PlainItemCols, key |-> "itemidx",
                           rows |-> {[itemidx |-> 1, item |-> "kit"], [itemidx |-> 2, item |-> "bag"]}]],
   indexes |-> [iOwner |-> [on |-> "tItems", unique |-> ""], iParent |-> [on |-> "tItems", unique |-> ""]],
   views |-> {"vBankItems", "vContainers", "vInvItems"},
   version |-> 0]

Distinct == {Toon(1, "ann"), Toon(2, "bob")}
Doubled == {Toon(1, "ann"), Toon(1, "anne")}

\* What the program stores in the columns a version has.
Used(db) ==
  LET toons == IF "shopid" \in db.tables["tToons"].cols
               THEN {[r EXCEPT !.shopid = 7] : r \in db.tables["tToons"].rows}
               ELSE db.tables["tToons"].rows
      items == IF "flags" \in db.tables["tItems"].cols
               THEN {[r EXCEPT !.flags = 1] : r \in db.tables["tItems"].rows}
               ELSE db.tables["tItems"].rows
  IN [db EXCEPT !.tables["tToons"].rows = toons, !.tables["tItems"].rows = items]

DbOfVersion(v) ==
  Used([Transaction(BaseDb(Distinct), FlattenSeq(SubSeq(Upgrade, 1, v))) EXCEPT !.version = v])

\* What a version has, for any rows.  An index goes with its table: a database
\* that came through Upgrade3 has lost the two old ones of tItems already.
ToonCols(v) == IF v <= 2 THEN NameCols ELSE IF v \in 4 .. 7 THEN DimensionCols ELSE ShopCols
ToonKey(v) == IF v <= 1 THEN "" ELSE "charid"
ItemColsOf(v) == IF v <= 3 THEN PlainItemCols ELSE ItemCols
TablesOf(v) ==
  {"tToons", "tItems"} \union {t \in {"tDimensions"} : v \in 4 .. 7}
                       \union {t \in {"tToonStats"} : v >= 5}
OldIndexes == {"iOwner", "iParent"}
IndexesOf(v) ==
  {i \in {"iCharId"} : v >= 1} \union {i \in {"charstatindex"} : v >= 5}
  \union {i \in {"idx_titems_keylow"} : v >= 6}
  \union {i \in {"idx_titems_owner", "idx_titems_parent"} : v >= 7}
IndexAs(i) ==
  CASE i = "iCharId" -> [on |-> "tToons", unique |-> "charid"]
    [] i = "charstatindex" -> [on |-> "tToonStats", unique |-> ""]
    [] OTHER -> [on |-> "tItems", unique |-> ""]

OfVersion(db, v) ==
  /\ db.version = v
  /\ DOMAIN db.tables = TablesOf(v)
  /\ db.tables["tToons"].cols = ToonCols(v) /\ db.tables["tToons"].key = ToonKey(v)
  /\ db.tables["tItems"].cols = ItemColsOf(v) /\ db.tables["tItems"].key = "itemidx"
  /\ v >= 5 => db.tables["tToonStats"].cols = StatCols
  /\ IndexesOf(v) \subseteq DOMAIN db.indexes
  /\ DOMAIN db.indexes \subseteq IndexesOf(v) \union (IF v <= 6 THEN OldIndexes ELSE {})
  /\ \A i \in DOMAIN db.indexes : db.indexes[i] = IndexAs(i)
  /\ v >= 1 => Unique(db.tables["tToons"].rows, "charid")
  /\ Unique(db.tables["tItems"].rows, "itemidx")

\* Everything the program's queries need.
Complete(db) ==
  /\ db.version = CURRENT_DB_VERSION
  /\ DOMAIN db.tables = {"tItems", "tToons", "tToonStats"}
  /\ db.tables["tItems"].cols = ItemCols /\ db.tables["tItems"].key = "itemidx"
  /\ db.tables["tToons"].cols = ShopCols /\ db.tables["tToons"].key = "charid"
  /\ db.tables["tToonStats"].cols = StatCols
  /\ DOMAIN db.indexes = {"idx_titems_keylow", "idx_titems_owner", "idx_titems_parent",
                          "iCharId", "charstatindex"}

Names(db) == IF "tToons" \in DOMAIN db.tables
             THEN {<<r.charid, r.charname>> : r \in db.tables["tToons"].rows} ELSE {}
Items(db) == IF "tItems" \in DOMAIN db.tables
             THEN {<<r.itemidx, r.item>> : r \in db.tables["tItems"].rows} ELSE {}
Shops(db) == IF "tToons" \in DOMAIN db.tables /\ "shopid" \in db.tables["tToons"].cols
             THEN {<<r.charid, r.shopid>> : r \in db.tables["tToons"].rows} ELSE {}
Flags(db) == IF "tItems" \in DOMAIN db.tables /\ "flags" \in db.tables["tItems"].cols
             THEN {<<r.itemidx, r.flags>> : r \in db.tables["tItems"].rows} ELSE {}
=============================================================================
