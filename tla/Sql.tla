-------------------------------- MODULE Sql --------------------------------
(***************************************************************************)
(* A database file as SQLite keeps it, and what sqlite::Db (SQLite.cpp)    *)
(* does to it.  A database is a record                                     *)
(*   tables   table name -> [cols, key, rows]; a row is a function on cols *)
(*            and key is the column that must be unique ("" when none)     *)
(*   indexes  index name -> [on, cols]; cols is the unique column or ""    *)
(*   views    set of view names                                            *)
(*   version  what the view vSchemeVersion selects, 0 without that view    *)
(* A statement is a record with its kind in op.  Db::Exec logs an error    *)
(* and returns false; no caller in the scripts looks, so a statement that  *)
(* cannot be executed leaves the database as it was.                       *)
(***************************************************************************)
EXTENDS Naturals, Sequences, FiniteSets, SequencesExt

Db(tables, indexes, views, version) ==
  [tables |-> tables, indexes |-> indexes, views |-> views, version |-> version]
Table(cols, key, rows) == [cols |-> cols, key |-> key, rows |-> rows]
EmptyDb == Db(<<>>, <<>>, {}, 0)

\* Values of the columns a statement does not name.
Default == [charid |-> 0, charname |-> "", shopid |-> 0, dimensionid |-> 0,
            itemidx |-> 1, item |-> "", flags |-> 0,
            statid |-> 0, statvalue |-> 0, dimensionname |-> ""]

CreateTable(name, cols, key) == [op |-> "create", name |-> name, cols |-> cols, key |-> key]
DropTable(name) == [op |-> "drop", name |-> name]
CopyRows(to, from, cols) == [op |-> "copy", name |-> to, from |-> from, cols |-> cols]
InsertRow(to, row) == [op |-> "insert", name |-> to, row |-> row]
CreateIndex(name, on, unique) == [op |-> "index", name |-> name, on |-> on, unique |-> unique]
DropIndex(name) == [op |-> "dropindex", name |-> name]
CreateView(name) == [op |-> "view", name |-> name]
\* CREATE VIEW vSchemeVersion for a version v > 0, DROP VIEW for 0.
SetVersion(v) == [op |-> "version", name |-> "vSchemeVersion", version |-> v]

Without(f, S) == [x \in DOMAIN f \ S |-> f[x]]
WithEntry(f, x, v) == [y \in DOMAIN f \union {x} |-> IF y = x THEN v ELSE f[y]]

\* No two rows agree on a column that has to be unique.
Unique(rows, col) == col = "" \/ \A r, s \in rows : r[col] = s[col] => r = s
UniqueCols(db, t) ==
  {db.tables[t].key} \union {db.indexes[i].unique : i \in {j \in DOMAIN db.indexes : db.indexes[j].on = t}}

\* The row of table t with the values of row, defaults for the rest.
Filled(db, t, row, cols) ==
  [c \in db.tables[t].cols |-> IF c \in cols THEN row[c] ELSE Default[c]]
Added(db, s) ==
  IF s.op = "insert" THEN {Filled(db, s.name, s.row, DOMAIN s.row)}
  ELSE {Filled(db, s.name, r, s.cols) : r \in db.tables[s.from].rows}

\* Whether SQLite executes the statement.  An INSERT that hits a unique
\* column is undone as a whole.
Executes(db, s) ==
  LET T == DOMAIN db.tables IN
  CASE s.op = "create" -> s.name \notin T
    [] s.op = "drop" -> s.name \in T
    [] s.op = "copy" ->
         /\ s.name \in T /\ s.from \in T
         /\ s.cols \subseteq db.tables[s.name].cols \intersect db.tables[s.from].cols
         /\ \A c \in UniqueCols(db, s.name) \ {""} :
              /\ \A r, q \in db.tables[s.from].rows : r[c] = q[c] => r = q
              /\ Unique(db.tables[s.name].rows \union Added(db, s), c)
    [] s.op = "insert" ->
         /\ s.name \in T
         /\ DOMAIN s.row \subseteq db.tables[s.name].cols
         /\ \A c \in UniqueCols(db, s.name) : Unique(db.tables[s.name].rows \union Added(db, s), c)
    [] s.op = "index" ->
         /\ s.name \notin DOMAIN db.indexes /\ s.on \in T
         /\ Unique(db.tables[s.on].rows, s.unique)
    [] s.op = "dropindex" -> s.name \in DOMAIN db.indexes
    [] s.op = "view" -> s.name \notin db.views
    [] s.op = "version" -> s.version = 0 \/ db.version = 0

\* Its effect.  Dropping a table drops its indexes; views stay.
Effect(db, s) ==
  LET T == db.tables
      I == db.indexes
  IN
  CASE s.op = "create" -> Db(WithEntry(T, s.name, Table(s.cols, s.key, {})), I, db.views, db.version)
    [] s.op = "drop" ->
         Db(Without(T, {s.name}), Without(I, {i \in DOMAIN I : I[i].on = s.name}), db.views, db.version)
    [] s.op \in {"copy", "insert"} ->
         Db(WithEntry(T, s.name, Table(T[s.name].cols, T[s.name].key, T[s.name].rows \union Added(db, s))),
            I, db.views, db.version)
    [] s.op = "index" ->
         Db(T, WithEntry(I, s.name, [on |-> s.on, unique |-> s.unique]), db.views, db.version)
    [] s.op = "dropindex" -> Db(T, Without(I, {s.name}), db.views, db.version)
    [] s.op = "view" -> Db(T, I, db.views \union {s.name}, db.version)
    [] s.op = "version" -> Db(T, I, db.views, s.version)

\* Db::Exec (SQLite.cpp:86): a failed statement is only logged.  (The set of
\* one element makes TLC compute the database of a long script once.)
Exec(db, s) ==
  CHOOSE after \in {IF Executes(d, s) THEN Effect(d, s) ELSE d : d \in {db}} : TRUE

\* A script between Begin and Commit (SQLite.cpp:98-107).  The transaction is
\* one step of the file: an end in the middle leaves the file untouched.
Transaction(db, script) ==
  LET after[n \in 0 .. Len(script)] ==
        IF n = 0 THEN db ELSE Exec(after[n - 1], script[n])
  IN after[Len(script)]
=============================================================================
