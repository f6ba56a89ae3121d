----------------------------- MODULE MCStartup -----------------------------
(***************************************************************************)
(* Startup with the databases of every version, each age of the item       *)
(* database and three archives.                                            *)
(***************************************************************************)
EXTENDS Startup

Entry(offset, type, id) == [offset |-> offset, type |-> type, id |-> id]
Record(id, state) == [id |-> id, state |-> state]
Block(next, entries) == [next |-> next, entries |-> entries]

\* Two data files: offset 5 is the last unit of the first (0 .. 5), 6 the
\* first record of the second; the blocks are linked 1, 3, 2.
ArchiveRecords ==
  (1 :> Record(101, "fine")) @@ (2 :> Record(102, "nameless")) @@ (3 :> Record(FixedItem, "ql0"))
  @@ (5 :> Record(104, "fine")) @@ (6 :> Record(105, "fine")) @@ (8 :> Record(106, "fine"))
  @@ (9 :> Record(201, "fine")) @@ (4 :> Record(107, "badheader")) @@ (7 :> Record(202, "ql0"))
Twisted ==
  [blocks |-> << Block(3, <<Entry(1, "item", 101), Entry(2, "item", 102), Entry(3, "item", FixedItem)>>),
                 Block(0, <<Entry(9, "nano", 201), Entry(7, "nano", 202)>>),
                 Block(2, <<Entry(8, "item", 106), Entry(6, "item", 105), Entry(4, "item", 107)>>),
                 Block(0, <<Entry(5, "item", 104)>>) >>,
   tail |-> 0, files |-> <<6, 6>>, records |-> ArchiveRecords, named |-> {101, 106}]

\* One file, and bytes after the last block.
Small ==
  [blocks |-> << Block(2, <<Entry(1, "item", 101), Entry(5, "other", 900)>>), Block(0, <<Entry(2, "nano", 201)>>) >>,
   tail |-> 1, files |-> <<6>>, records |-> (1 :> Record(101, "fine")) @@ (2 :> Record(201, "fine")) @@ (5 :> Record(900, "fine")),
   named |-> {101}]
Throwing == [Small EXCEPT !.records[2].state = "unparsable"]
Missing == [Small EXCEPT !.files = <<6, 0>>]

Whole(a, stamp) ==
  [version |-> CURRENT_AODB_VERSION, rows |-> Expected(a), details |-> Expected(a),
   derived |-> Expected(a) \intersect a.named, identify |-> Identifiable, since |-> stamp, stamp |-> stamp]
OldScheme(a) == [Whole(a, 1) EXCEPT !.version = CURRENT_AODB_VERSION - 1]

Disk(u, i, a, o, c) ==
  [user |-> u, items |-> i, tmp |-> NoFile, archive |-> a, orig |-> o, conf |-> c]

\* One of this version that the program has made itself, with what it holds by now.
Current ==
  [Transaction(EmptyDb, CreateScheme) EXCEPT !.tables["tToons"].rows = DbOfVersion(8).tables["tToons"].rows,
                                             !.tables["tItems"].rows = DbOfVersion(8).tables["tItems"].rows]

Users == {NoFile, EmptyDb, BaseDb(Doubled), [EmptyDb EXCEPT !.version = 9]}
           \union {DbOfVersion(v) : v \in 0 .. 7} \union {Current}

MCDisks ==
  {Disk(u, Whole(Small, 1), Small, 1, "good") : u \in Users}
  \union {Disk(Current, i, Small, o, "good") : i \in {NoFile, Whole(Small, 1), OldScheme(Small)}, o \in {0, 1, 2}}
  \union {Disk(Current, NoFile, a, 1, "good") : a \in {Twisted, Throwing, Missing}}
  \union {Disk(Current, Whole(Small, 1), Small, 1, c) : c \in {"", "bad", "long"}}
=============================================================================
