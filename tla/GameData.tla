------------------------------ MODULE GameData ------------------------------
(***************************************************************************)
(* The archive of the game and how it is read: the index (AODatabaseIndex),*)
(* the data files (AODatabaseParser) and what is kept of a record          *)
(* (AODatabaseWriter).  An archive is a record                             *)
(*   blocks   index blocks in file order, each [next, entries]; next is the*)
(*            number of a block, 0 at the end of the list; an entry is     *)
(*            [offset, type, id]                                           *)
(*   tail     1 when bytes follow the last block, 0 when it ends the file  *)
(*   files    sizes of the data files, in units of the 0x1000 bytes that   *)
(*            each file starts with                                        *)
(*   records  offset -> [id, state], what the files hold                   *)
(***************************************************************************)
EXTENDS Naturals, Sequences, FiniteSets, SequencesExt, FiniteSetsExt

CONSTANT EntriesPerBlock      \* entries whose third word begins inside a block

ASSUME EntriesAssumption == EntriesPerBlock \in Nat \ {0}

\* AODatabaseIndex::ReadIndexBlock: count entries, no more than fit.
ReadIndexBlock(a, b) ==
  LET e == a.blocks[b].entries IN {e[n] : n \in 1 .. Min({Len(e), EntriesPerBlock})}

\* AODatabaseIndex::ReadIndexFile: the list of blocks from the first one, as
\* long as bytes follow the block.  Visited(a)[n] is the n-th block, 0 after
\* the last.
Visited(a) ==
  LET at[n \in 1 .. Len(a.blocks) + 1] ==
        LET b == IF n = 1 THEN 1 ELSE IF at[n - 1] = 0 THEN 0 ELSE a.blocks[at[n - 1]].next
        IN IF b < Len(a.blocks) + a.tail THEN b ELSE 0
  IN at
ReadIndexFile(a) ==
  UNION {ReadIndexBlock(a, b) : b \in {Visited(a)[n] : n \in DOMAIN Visited(a)} \ {0}}

\* AODatabaseIndex::GetOffsets: every offset of the type.  They are sorted and
\* read in this order: the next one is the least of those that are left.
GetOffsets(a, type) == {e.offset : e \in {x \in ReadIndexFile(a) : x.type = type}}
-----------------------------------------------------------------------------
\* The first offset of a file: the sizes of the files before it less their
\* first unit (AODatabaseParser::AODatabaseParser).
FileStart(a, f) ==
  LET start[n \in 1 .. Len(a.files)] == IF n = 1 THEN 0 ELSE start[n - 1] + a.files[n - 1] - 1
  IN start[f]

\* GetFileFromOffset and OpenFileFromOffset
OpenFileFromOffset(a, offset) == Max({f \in DOMAIN a.files : FileStart(a, f) <= offset})

\* EnsureFileOpen: the open file is kept when the offset is within its size.
EnsureFileOpen(a, open, offset) ==
  IF open # 0 /\ offset >= FileStart(a, open) /\ offset <= FileStart(a, open) + a.files[open]
  THEN open ELSE OpenFileFromOffset(a, offset)

\* The file that holds an offset: a file starts with a unit of its own, so
\* its data begin one unit after its first offset.
Home(a, offset) ==
  CHOOSE f \in DOMAIN a.files :
    FileStart(a, f) + 1 <= offset /\ offset < FileStart(a, f) + a.files[f]

\* AODatabaseParser::GetItem: what is read at an offset through the file
\* opened for it.  The cookie is missing in the wrong file; a header that
\* makes no sense gives no item; a payload AOItemParser cannot parse throws.
GetItem(a, open, offset) ==
  LET file == EnsureFileOpen(a, open, offset)
      rec == a.records[offset]
  IN IF file # Home(a, offset) \/ rec.state = "badheader" THEN [file |-> file, result |-> "none"]
     ELSE IF rec.state = "unparsable" THEN [file |-> file, result |-> "throws"]
     ELSE [file |-> file, result |-> "item"]
-----------------------------------------------------------------------------
(***************************************************************************)
(* The item database that is made of them.  rows are the aoids of tblAO,   *)
(* details those of tblItemReqs and tblItemEffects, derived those of       *)
(* tblPocketBoss and tblPatterns, identify the kinds in tblIdentify.       *)
(***************************************************************************)
CURRENT_AODB_VERSION == 4

\* AODatabaseWriter::AODatabaseWriter; since and stamp are the times of the
\* first read and of the last write.
OpenWriter(time) ==
  [version |-> CURRENT_AODB_VERSION, rows |-> {}, details |-> {}, derived |-> {}, identify |-> {},
   since |-> time, stamp |-> time]

FixedItem == 212334            \* written although its ql is 0

\* AODatabaseWriter::WriteItem: no name, no known type or ql 0: not written.
\* The details follow whether the row could be inserted or not.
Kept(rec) == rec.state \notin {"nameless", "badtype"} /\ (rec.state = "ql0" => rec.id = FixedItem)
WriteItem(db, rec) ==
  IF Kept(rec)
  THEN [db EXCEPT !.rows = @ \union {rec.id}, !.details = @ \union {rec.id}]
  ELSE db

\* The crystals and patterns among the items, known by their names, and the
\* constant rows for biomaterials, gems and upgrades.
Derived(db, named) == db.rows \intersect named
Identifiable == {"biomaterial", "alappa", "upgrade"}

\* AODatabaseWriter::PostProcessData
PostProcessData(db, named) ==
  [db EXCEPT !.derived = Derived(db, named), !.identify = Identifiable]
-----------------------------------------------------------------------------
\* What a reader of the archive expects: the records of a type in the blocks
\* of the list, less those the writer leaves out on purpose, those without
\* a sensible header, and those next to the border of two files.
AtBorder(a, offset) ==
  \E f \in DOMAIN a.files \ {1} : offset \in {FileStart(a, f), FileStart(a, f) + 1}
Listed(a) ==
  LET reach[n \in 1 .. Len(a.blocks)] ==
        IF n = 1 THEN {1}
        ELSE reach[n - 1] \union ({a.blocks[b].next : b \in reach[n - 1]} \intersect DOMAIN a.blocks)
  IN reach[Len(a.blocks)]
\* The offsets of the records that should be in the item database, and their ids.
Wanted(a) ==
  {e.offset : e \in
      {x \in UNION {ToSet(a.blocks[b].entries) : b \in Listed(a)} :
         /\ x.type \in {"item", "nano"}
         /\ a.records[x.offset].state # "badheader"
         /\ Kept(a.records[x.offset])
         /\ ~AtBorder(a, x.offset)}}
Expected(a) == {a.records[o].id : o \in Wanted(a)}

\* An archive as the game makes it.  Its data files are missing or have a first
\* unit; the blocks of the list have no more entries than are read, and bytes
\* follow each of them; what the entries of items and nanos name lies in one of
\* the files, unless a file is missing.
Entries == [offset : Nat, type : STRING, id : Nat]
Blocks  == [next : Nat, entries : Seq(Entries)]
WellFormed(a) ==
  /\ a.blocks \in Seq(Blocks) /\ a.blocks # <<>>
  /\ a.files \in Seq(Nat) /\ a.files # <<>>
  /\ a.tail \in {0, 1}
  /\ \A b \in Listed(a) : /\ b < Len(a.blocks) + a.tail
                          /\ Len(a.blocks[b].entries) <= EntriesPerBlock
  /\ 0 \notin ToSet(a.files) =>
        \A b \in Listed(a) : \A e \in ToSet(a.blocks[b].entries) :
           e.type \in {"item", "nano"} =>
              \E f \in DOMAIN a.files : /\ FileStart(a, f) + 1 <= e.offset
                                        /\ e.offset < FileStart(a, f) + a.files[f]
=============================================================================
