-------------------------- MODULE Containers_proofs --------------------------
(***************************************************************************)
(* What TLAPS proves of the messages that bring whole containers: for any  *)
(* characters, backpacks, items and messages, and with the application     *)
(* ended and started again at any point.                                   *)
(***************************************************************************)
EXTENDS Containers, TLAPS

-----------------------------------------------------------------------------
(* Tables.                                                                 *)

\* BagInOneHand, of a table.
OneHand(db) ==
    \A r, s \in db : (r.parent \in Bags /\ s.parent = r.parent) => s.owner = r.owner

\* Backpacks are in the bank, the inventory or the shop, never in a container
\* that may be swept.
BagsOnTop(db) ==
    \A r \in db : r.parent \in Nat /\ (r.children # 0 => r.parent <= INV_PLAYERSHOP)

Shelved(db) == OneHand(db) /\ BagsOnTop(db)

\* Deleting rows keeps what is said of a table.
LEMMA FewerShelved ==
    ASSUME NEW db, Shelved(db), NEW few \in SUBSET db
    PROVE  Shelved(few)
BY DEF Shelved, OneHand, BagsOnTop

\* The rows of a container p of c, inserted where p has none.
LEMMA MoreShelved ==
    ASSUME NEW db, Shelved(db), NEW c, NEW p \in Nat, NEW S,
           \A x \in S : x.parent = p /\ x.owner = c /\ (x.children # 0 => p <= INV_PLAYERSHOP),
           p \in Bags => \A r \in db : r.parent # p
    PROVE  Shelved(InsertItems(db, S))
<1>1. \A r \in InsertItems(db, S) :
         \/ r \in db
         \/ r.parent = p /\ r.owner = c /\ (r.children # 0 => p <= INV_PLAYERSHOP)
      BY DEF InsertItems
<1> QED BY <1>1 DEF Shelved, OneHand, BagsOnTop

\* The same for what a message lists.
LEMMA ListedShelved ==
    ASSUME NEW db, Shelved(db), NEW c, NEW p \in Nat, NEW L \in SUBSET Entry,
           \A i \in L : i.bag # 0 => p <= INV_PLAYERSHOP,
           p \in Bags => \A r \in db : r.parent # p
    PROVE  Shelved(InsertItems(db, Listed(c, p, L)))
<1>1. \A x \in Listed(c, p, L) :
         x.parent = p /\ x.owner = c /\ (x.children # 0 => p <= INV_PLAYERSHOP)
      BY DEF Listed, Item
<1> QED BY <1>1, MoreShelved

\* What of a row MSG_FULLSYNC lists.
Face(r) == [kind |-> r.kind, stack |-> r.stack, slot |-> r.slot, bag |-> r.children]

\* What an inventory holds is what its rows say but for their keys.
LEMMA ContentFaces == \A db, c : Content(db, c) = {Face(r) : r \in Rows(db, c, INV_TOONINV)}
BY DEF Content, Face

\* The inventory of c has what was inserted there; nobody else's has.
LEMMA ContentInserted ==
    ASSUME NEW db, NEW c, NEW L \in SUBSET Entry, NEW o
    PROVE  Content(InsertItems(db, Listed(c, INV_TOONINV, L)), o) =
              Content(db, o) \cup (IF o = c THEN L ELSE {})
<1> DEFINE S   == Listed(c, INV_TOONINV, L)
           new == {[id |-> NewIds(db, S)[x], kind |-> x.kind, stack |-> x.stack,
                    parent |-> x.parent, slot |-> x.slot, children |-> x.children,
                    owner |-> x.owner] : x \in S}
<1>1. InsertItems(db, S) = db \cup new BY DEF InsertItems
<1>2. \A r \in new : /\ r.parent = INV_TOONINV /\ r.owner = c
                     /\ Face(r) \in L
  <2> SUFFICES ASSUME NEW r \in new
               PROVE  r.parent = INV_TOONINV /\ r.owner = c /\ Face(r) \in L
      OBVIOUS
  <2>1. PICK x \in S : /\ r.kind = x.kind /\ r.stack = x.stack /\ r.parent = x.parent
                       /\ r.slot = x.slot /\ r.children = x.children /\ r.owner = x.owner
        OBVIOUS
  <2>2. PICK i \in L : x = Item(i.kind, i.stack, INV_TOONINV, i.slot, i.bag, c) BY DEF Listed
  <2>3. i = [kind |-> i.kind, stack |-> i.stack, slot |-> i.slot, bag |-> i.bag] BY DEF Entry
  <2>4. r.parent = INV_TOONINV /\ r.owner = c BY <2>1, <2>2 DEF Item
  <2>5. Face(r) = i BY <2>1, <2>2, <2>3 DEF Item, Face
  <2> QED BY <2>4, <2>5
<1>3. \A i \in L : \E r \in new : Face(r) = i
  <2> SUFFICES ASSUME NEW i \in L PROVE \E r \in new : Face(r) = i OBVIOUS
  <2> DEFINE x == Item(i.kind, i.stack, INV_TOONINV, i.slot, i.bag, c)
             r == [id |-> NewIds(db, S)[x], kind |-> x.kind, stack |-> x.stack,
                   parent |-> x.parent, slot |-> x.slot, children |-> x.children,
                   owner |-> x.owner]
  <2>1. x \in S BY DEF Listed
  <2>2. r \in new BY <2>1
  <2>3. i = [kind |-> i.kind, stack |-> i.stack, slot |-> i.slot, bag |-> i.bag] BY DEF Entry
  <2>4. Face(r) = i BY <2>3 DEF Item, Face
  <2> QED BY <2>2, <2>4
<1> HIDE DEF new
<1>4. Rows(db \cup new, o, INV_TOONINV) =
         Rows(db, o, INV_TOONINV) \cup (IF o = c THEN new ELSE {})
      BY <1>2 DEF Rows
<1>5. CASE o = c
  <2>1. {Face(r) : r \in new} = L BY <1>2, <1>3
  <2>2. Content(db \cup new, o) = Content(db, o) \cup {Face(r) : r \in new}
        BY <1>4, <1>5, ContentFaces
  <2> QED BY <1>1, <1>5, <2>1, <2>2
<1>6. CASE o # c BY <1>1, <1>4, <1>6, ContentFaces
<1> QED BY <1>5, <1>6
-----------------------------------------------------------------------------
(* The invariant of the tables and of the message being handled.           *)

\* Nothing is pending outside MSG_FULLSYNC.  Within it the inventory has what
\* was listed and need not be inserted any more, and those of the others are
\* as they are on disk.
Pending ==
    /\ sync \in [toon : Toons \cup {NoToon}, listed : SUBSET Entry, todo : SUBSET Entry]
    /\ txn \in BOOLEAN
    /\ ~txn => disk = items
    /\ txn => /\ sync # Idle
              /\ sync.todo \subseteq sync.listed
              /\ Content(items, sync.toon) = sync.listed \ sync.todo
              /\ \A c \in Toons \ {sync.toon} : Content(items, c) = Content(disk, c)

Inv == Shelved(items) /\ Shelved(disk) /\ Pending

\* What a message, or the user, does between two messages.
LEMMA Settled ==
    ASSUME Inv, sync = Idle, sync' = sync, Shelved(items'), disk' = items', txn' = FALSE
    PROVE  Inv'
BY DEF Inv, Pending

\* Between two messages everything is on disk.
LEMMA IdleSettled == ASSUME Inv, sync = Idle PROVE txn = FALSE /\ disk = items
BY DEF Inv, Pending

\* A committed change to a sound table keeps the invariant.
LEMMA CommitSettled ==
    ASSUME Inv, sync = Idle, sync' = sync, NEW db, Shelved(db), Commit(db)
    PROVE  Inv'
BY Settled DEF Commit

\* The fixed containers are numbers, and none is that of a backpack.
LEMMA Numbers ==
    /\ INV_BANK \in Nat /\ INV_TOONINV \in Nat /\ INV_OVERFLOW \in Nat
    /\ INV_BANK <= INV_PLAYERSHOP /\ INV_TOONINV <= INV_PLAYERSHOP
    /\ INV_BANK \notin Bags /\ INV_TOONINV \notin Bags /\ INV_OVERFLOW \notin Bags
    /\ \A b \in Bags : b \in Nat
BY BagAssumption DEF INV_BANK, INV_TOONINV, INV_OVERFLOW, INV_PLAYERSHOP

\* Opening the bank replaces the rows of the bank of one character.
LEMMA BankKeeps ==
    ASSUME Inv, sync = Idle, NEW c \in Toons, OpensBank(c)
    PROVE  Inv'
<1>1. PICK L \in Loads : Bank(c, L) BY DEF OpensBank
<1>2. sync' = sync BY DEF OpensBank
<1> DEFINE rest == items \ Rows(items, c, INV_BANK)
<1>3. Shelved(rest) BY FewerShelved DEF Inv
<1>4. L \in SUBSET Entry BY LoadAssumption
<1> HIDE DEF rest
<1>5. Shelved(InsertItems(rest, Listed(c, INV_BANK, L))) BY <1>3, <1>4, ListedShelved, Numbers
<1>6. Commit(InsertItems(rest, Listed(c, INV_BANK, L))) BY <1>1 DEF Bank, rest
<1> QED BY <1>2, <1>5, <1>6, CommitSettled

\* The row of a backpack is deleted and made anew in the inventory.
LEMMA BackpackKeeps ==
    ASSUME Inv, sync = Idle, NEW c \in Toons, GetsBackpack(c)
    PROVE  Inv'
<1>1. PICK b \in Bags : (Backpack(c, b, AnySlot) /\ UNCHANGED sync) \/ UNCHANGED <<vars, sync>>
      BY DEF GetsBackpack
<1>2. CASE Backpack(c, b, AnySlot) /\ UNCHANGED sync
  <2> DEFINE rest == items \ {r \in Owned(items, c) : r.children = b}
  <2>1. PICK s : Commit(InsertItems(rest, {Item(Template, 1, INV_TOONINV, s, b, c)}))
        BY <1>2 DEF Backpack
  <2>2. Shelved(rest) BY FewerShelved DEF Inv
  <2> HIDE DEF rest
  <2>3. \A x \in {Item(Template, 1, INV_TOONINV, s, b, c)} :
           x.parent = INV_TOONINV /\ x.owner = c
        BY DEF Item
  <2>4. Shelved(InsertItems(rest, {Item(Template, 1, INV_TOONINV, s, b, c)}))
        BY <2>2, <2>3, MoreShelved, Numbers
  <2> QED BY <1>2, <2>1, <2>4, CommitSettled
<1>3. CASE UNCHANGED <<vars, sync>>
  <2>1. UNCHANGED <<items, disk, txn, sync>> BY <1>3 DEF vars, session
  <2> QED BY <2>1 DEF Inv, Shelved, OneHand, BagsOnTop, Pending, Idle, Content, Rows
<1> QED BY <1>1, <1>2, <1>3

\* Opening a container replaces the rows in it.
LEMMA ContainerKeeps ==
    ASSUME Inv, sync = Idle, NEW c \in Toons, OpensContainer(c)
    PROVE  Inv'
<1>1. PICK t \in TempIds, L \in LooseLoads, p \in Bags \cup {INV_OVERFLOW} : Container(c, p, t, L)
      BY DEF OpensContainer
<1>2. sync' = sync BY DEF OpensContainer
<1> DEFINE rest == items \ {r \in items : r.parent = p}
<1>3. Shelved(rest) BY FewerShelved DEF Inv
<1>4. \A r \in rest : r.parent # p OBVIOUS
<1>5. L \in SUBSET Entry /\ \A i \in L : i.bag = 0 BY LoadAssumption DEF LooseLoads
<1>6. p \in Nat BY Numbers
<1> HIDE DEF rest
<1>7. Shelved(InsertItems(rest, Listed(c, p, L))) BY <1>3, <1>4, <1>5, <1>6, ListedShelved
<1>8. Commit(InsertItems(rest, Listed(c, p, L))) BY <1>1 DEF Container, rest
<1> QED BY <1>2, <1>7, <1>8, CommitSettled

\* Zoning starts with the inventory emptied and all of the list to be inserted.
LEMMA ZoneKeeps ==
    ASSUME Inv, sync = Idle, NEW c \in Toons, Zones(c)
    PROVE  Inv' /\ disk' = disk
<1>1. PICK L \in Loads : FullSync(c, L) BY DEF Zones
<1>2. L \in SUBSET Entry BY LoadAssumption
<1>3. /\ sync' = [toon |-> c, listed |-> L, todo |-> L]
      /\ txn' = TRUE /\ disk' = disk
      BY <1>1 DEF FullSync
<1>4. items' = items \ {r \in Owned(items, c) : r.parent = INV_TOONINV \/ r.parent \in INV_TRADE..INV_OTHER_PLAYERSHOP}
      BY <1>1 DEF FullSync
<1>5. Shelved(items') BY <1>4, FewerShelved DEF Inv
<1>6. Shelved(disk') BY <1>3 DEF Inv
<1>7. Rows(items', c, INV_TOONINV) = {} BY <1>4 DEF Rows, Owned
<1>8. \A o \in Toons \ {c} : Rows(items', o, INV_TOONINV) = Rows(items, o, INV_TOONINV)
      BY <1>4 DEF Rows, Owned
<1>9. Content(items', c) = {} BY <1>7, ContentFaces
<1>10. \A o \in Toons \ {c} : Content(items', o) = Content(disk', o)
      BY <1>3, <1>8, ContentFaces, IdleSettled
<1>11. sync' # Idle BY <1>3, LoadAssumption DEF Idle
<1>12. Pending' BY <1>2, <1>3, <1>9, <1>10, <1>11 DEF Pending
<1> QED BY <1>3, <1>5, <1>6, <1>12 DEF Inv

\* What deletes rows adds none.
LEMMA DeletionKeeps == ASSUME Inv, sync = Idle, Deletes PROVE Inv'
<1>1. sync' = sync BY DEF Deletes
<1>2. PICK few \in SUBSET items : Commit(few) \/ Execute(few)
  <2>1. CASE \E b \in Bags : DeleteContainer(b)
    <3>1. PICK b \in Bags : Commit({r \in items : r.parent # b /\ r.children # b})
          BY <2>1 DEF DeleteContainer
    <3> QED BY <3>1
  <2>2. CASE \E c \in Toons : DeleteToon(c) BY <2>2 DEF DeleteToon
  <2>3. CASE \E r \in items : DeleteItems({r}) BY <2>3 DEF DeleteItems
  <2> QED BY <2>1, <2>2, <2>3 DEF Deletes
<1>3. Shelved(few) BY FewerShelved DEF Inv
<1>4. CASE Commit(few) BY <1>1, <1>3, <1>4, CommitSettled
<1>5. CASE Execute(few)
  <2>1. items' = few /\ disk' = few /\ txn' = FALSE BY <1>5, IdleSettled DEF Execute
  <2> QED BY <1>1, <1>3, <2>1, Settled
<1> QED BY <1>2, <1>4, <1>5

-----------------------------------------------------------------------------
(* The statements of MSG_FULLSYNC.                                         *)

\* An item listed is inserted: on disk nothing changes.
LEMMA InsertKeeps == ASSUME Inv, InsertNextItem PROVE Inv' /\ disk' = disk
<1>1. txn BY DEF InsertNextItem
<1>2. PICK i \in sync.todo :
         /\ Execute(InsertItems(items, Listed(sync.toon, INV_TOONINV, {i})))
         /\ sync' = [sync EXCEPT !.todo = @ \ {i}]
      BY DEF InsertNextItem
<1> DEFINE c == sync.toon
<1>3. /\ sync \in [toon : Toons \cup {NoToon}, listed : SUBSET Entry, todo : SUBSET Entry]
      /\ sync # Idle /\ sync.todo \subseteq sync.listed
      /\ Content(items, c) = sync.listed \ sync.todo
      /\ \A o \in Toons \ {c} : Content(items, o) = Content(disk, o)
      BY <1>1 DEF Inv, Pending
<1>4. {i} \in SUBSET Entry BY <1>3
<1>5. /\ items' = InsertItems(items, Listed(c, INV_TOONINV, {i}))
      /\ disk' = disk /\ txn' = txn
      BY <1>1, <1>2 DEF Execute
<1>6. Shelved(items') BY <1>4, <1>5, ListedShelved, Numbers DEF Inv
<1>7. /\ sync'.toon = c /\ sync'.listed = sync.listed /\ sync'.todo = sync.todo \ {i}
      /\ sync' \in [toon : Toons \cup {NoToon}, listed : SUBSET Entry, todo : SUBSET Entry]
      BY <1>2, <1>3
<1>8. sync' # Idle
  <2>1. sync.listed # {} BY <1>2, <1>3
  <2> QED BY <1>7, <2>1 DEF Idle
<1>9. Content(items', c) = sync'.listed \ sync'.todo
  <2>1. Content(items', c) = Content(items, c) \cup {i} BY <1>4, <1>5, ContentInserted
  <2> QED BY <1>2, <1>3, <1>7, <2>1
<1>10. \A o \in Toons \ {c} : Content(items', o) = Content(disk', o)
  <2> SUFFICES ASSUME NEW o \in Toons \ {c} PROVE Content(items', o) = Content(disk', o)
      OBVIOUS
  <2>1. Content(items', o) = Content(items, o) BY <1>4, <1>5, ContentInserted
  <2>2. Content(disk', o) = Content(disk, o) BY <1>5
  <2> QED BY <1>3, <2>1, <2>2
<1>11. Pending' BY <1>1, <1>3, <1>5, <1>7, <1>8, <1>9, <1>10 DEF Inv, Pending
<1> QED BY <1>5, <1>6, <1>11 DEF Inv, Shelved, OneHand, BagsOnTop

\* The transaction is committed: the inventory becomes the one listed.
LEMMA CommitKeeps ==
    ASSUME Inv, CommitSync
    PROVE  /\ Inv'
           /\ \A c \in Toons : Content(disk', c) # Content(disk, c) =>
                 c = sync.toon /\ Content(disk', c) = sync.listed
<1>1. txn /\ sync.todo = {} /\ sync' = sync /\ items' = items /\ disk' = items /\ txn' = FALSE
      BY DEF CommitSync, Commit
<1>2. /\ Content(items, sync.toon) = sync.listed \ sync.todo
      /\ \A c \in Toons \ {sync.toon} : Content(items, c) = Content(disk, c)
      BY <1>1 DEF Inv, Pending
<1>3. \A c \in Toons : Content(disk', c) # Content(disk, c) =>
         c = sync.toon /\ Content(disk', c) = sync.listed
      BY <1>1, <1>2
<1>4. Inv' BY <1>1 DEF Inv, Pending, Shelved, OneHand, BagsOnTop
<1> QED BY <1>3, <1>4

\* The clean-up deletes in containers; what it leaves is in one that is left,
\* as no backpack is in a container.
LEMMA CleanupKeeps ==
    ASSUME Inv, CleanupDB
    PROVE  /\ Inv'
           /\ \A c \in Toons : Content(disk', c) = Content(disk, c)
           /\ \A r \in Owned(items', sync.toon) :
                 r.parent > INV_PLAYERSHOP => \E b \in items' : b.children = r.parent
<1> DEFINE swept == {r \in Owned(items, sync.toon) :
                       r.parent > INV_PLAYERSHOP /\ \A b \in items : b.children # r.parent}
<1>1. /\ ~txn /\ items' = items \ swept /\ disk' = items' /\ UNCHANGED txn /\ sync' = Idle
      /\ disk = items
      BY DEF CleanupDB, Execute, Inv, Pending
<1>2. Shelved(items') BY <1>1, FewerShelved DEF Inv
<1>3. Inv' 
  <2>1. Idle \in [toon : Toons \cup {NoToon}, listed : SUBSET Entry, todo : SUBSET Entry]
        BY DEF Idle
  <2>2. Pending' BY <1>1, <2>1 DEF Inv, Pending
  <2> QED BY <1>1, <1>2, <2>2 DEF Inv
<1>4. \A c \in Toons : Content(disk', c) = Content(disk, c)
  <2> SUFFICES ASSUME NEW c \in Toons PROVE Content(disk', c) = Content(disk, c) OBVIOUS
  <2>1. \A r \in swept : r.parent # INV_TOONINV BY DEF INV_TOONINV, INV_PLAYERSHOP
  <2>2. Rows(items \ swept, c, INV_TOONINV) = Rows(items, c, INV_TOONINV) BY <2>1 DEF Rows
  <2> QED BY <1>1, <2>2, ContentFaces
<1>5. ASSUME NEW r \in Owned(items', sync.toon), r.parent > INV_PLAYERSHOP
      PROVE  \E b \in items' : b.children = r.parent
  <2>1. r \in Owned(items, sync.toon) /\ r \notin swept BY <1>1 DEF Owned
  <2>2. PICK b \in items : b.children = r.parent BY <1>5, <2>1
  <2>3. r.parent \in Nat /\ b.parent \in Nat /\ (b.children # 0 => b.parent <= INV_PLAYERSHOP)
        BY <2>1 DEF Inv, Shelved, BagsOnTop, Owned
  <2>4. b.parent <= INV_PLAYERSHOP BY <1>5, <2>2, <2>3 DEF INV_PLAYERSHOP
  <2>5. b \notin swept BY <2>3, <2>4 DEF INV_PLAYERSHOP
  <2> QED BY <1>1, <2>2, <2>5
<1> QED BY <1>3, <1>4, <1>5

\* The application is started again on what is on disk.
LEMMA RestartKeeps == ASSUME Inv, Restart PROVE Inv'
<1>1. items' = disk /\ disk' = disk /\ txn' = FALSE /\ sync' = Idle BY DEF Restart
<1>2. Idle \in [toon : Toons \cup {NoToon}, listed : SUBSET Entry, todo : SUBSET Entry]
      BY DEF Idle
<1> QED BY <1>1, <1>2 DEF Inv, Pending, Shelved, OneHand, BagsOnTop

\* Nothing happens.
LEMMA StutterKeeps == ASSUME Inv, UNCHANGED everything PROVE Inv'
<1>1. UNCHANGED <<items, disk, txn, sync>> BY DEF everything, vars, session
<1> QED BY <1>1 DEF Inv, Shelved, OneHand, BagsOnTop, Pending, Idle, Content, Rows

\* Every step keeps the invariant.
LEMMA StepKeeps == ASSUME Inv, [ContainersNext]_everything PROVE Inv'
<1>1. CASE sync = Idle /\ \E c \in Toons : OpensBank(c) \/ GetsBackpack(c) \/ OpensContainer(c) \/ Zones(c)
      BY <1>1, BankKeeps, BackpackKeeps, ContainerKeeps, ZoneKeeps
<1>2. CASE sync = Idle /\ Deletes BY <1>2, DeletionKeeps
<1>3. CASE Handle BY <1>3, InsertKeeps, CommitKeeps, CleanupKeeps DEF Handle
<1>4. CASE Restart BY <1>4, RestartKeeps
<1>5. CASE UNCHANGED everything BY <1>5, StutterKeeps
<1> QED BY <1>1, <1>2, <1>3, <1>4, <1>5 DEF ContainersNext

\* The invariant holds in every session that starts from a sound table.
LEMMA AlwaysInv ==
    ASSUME \A db \in Loadouts : Shelved(db)
    PROVE  ContainersSpec => []Inv
<1>1. ContainersInit => Inv
  <2> SUFFICES ASSUME ContainersInit PROVE Inv OBVIOUS
  <2>1. items \in Loadouts /\ disk = items /\ txn = FALSE /\ sync = Idle
        BY DEF ContainersInit, Start, SessionInit
  <2>2. Idle \in [toon : Toons \cup {NoToon}, listed : SUBSET Entry, todo : SUBSET Entry]
        BY DEF Idle
  <2> QED BY <2>1, <2>2 DEF Inv, Pending
<1>2. Inv /\ [ContainersNext]_everything => Inv' BY StepKeeps
<1> QED BY <1>1, <1>2, PTL DEF ContainersSpec

-----------------------------------------------------------------------------
(* The theorems.                                                           *)

\* However often backpacks change hands, what is in one is shown for one
\* character only, if it was so at the start.
THEOREM OneHandOnly ==
    ASSUME \A db \in Loadouts : Shelved(db)
    PROVE  ContainersSpec => []BagInOneHand
<1>1. Inv => BagInOneHand BY DEF Inv, Shelved, OneHand, BagInOneHand
<1> QED BY <1>1, AlwaysInv, PTL

\* A crash anywhere in MSG_FULLSYNC, or after it, leaves the old inventory on
\* disk or the whole new one, and those of the others alone.
THEOREM WholeOnDisk ==
    ASSUME \A db \in Loadouts : Shelved(db)
    PROVE  ContainersSpec => SyncIsWhole
<1>1. Inv /\ [ContainersNext]_everything =>
        [(Handle \/ \E c \in Toons : Zones(c)) =>
            \A c \in Toons : Content(disk', c) # Content(disk, c) =>
               c = sync.toon /\ Content(disk', c) = sync.listed]_everything
  <2> SUFFICES ASSUME Inv, ContainersNext, Handle \/ \E c \in Toons : Zones(c),
                      NEW c \in Toons, Content(disk', c) # Content(disk, c)
               PROVE  c = sync.toon /\ Content(disk', c) = sync.listed
      OBVIOUS
  <2>1. CASE \E o \in Toons : Zones(o)
    <3>1. disk' = disk BY <2>1 DEF Zones, FullSync
    <3> QED BY <3>1
  <2>2. CASE InsertNextItem
    <3>1. disk' = disk BY <2>2, InsertKeeps
    <3> QED BY <3>1
  <2>3. CASE CommitSync BY <2>3, CommitKeeps
  <2>4. CASE CleanupDB BY <2>4, CleanupKeeps
  <2> QED BY <2>1, <2>2, <2>3, <2>4 DEF Handle
<1> QED BY <1>1, AlwaysInv, PTL DEF ContainersSpec, SyncIsWhole

\* The clean-up leaves nothing in a container that nobody has, also where it
\* deletes containers itself.
THEOREM NothingOrphaned ==
    ASSUME \A db \in Loadouts : Shelved(db)
    PROVE  ContainersSpec => OrphansSwept
<1>1. Inv /\ [ContainersNext]_everything =>
        [CleanupDB => \A r \in Owned(items', sync.toon) :
            r.parent > INV_PLAYERSHOP => \E b \in items' : b.children = r.parent]_everything
      BY CleanupKeeps
<1> QED BY <1>1, AlwaysInv, PTL DEF ContainersSpec, OrphansSwept

-----------------------------------------------------------------------------
(* The cache of temporary ids.                                             *)

IdTables ==
    /\ containerIdCache \in [Toons -> [TempIds -> Nat]]
    /\ open \in [Toons -> [TempIds -> Nat]]

\* Who does not touch the ids leaves them right.
LEMMA CachesStay ==
    ASSUME IdTables, CacheTrue, UNCHANGED <<containerIdCache, open>>
    PROVE  IdTables' /\ CacheTrue'
BY DEF IdTables, CacheTrue

\* Zoning forgets the ids on both sides; opening a container teaches both the
\* same; a restart forgets what the application knew.
THEOREM CachedIdsTrue == ContainersSpec => []CacheTrue
<1>1. ContainersInit => IdTables /\ CacheTrue
      BY Numbers DEF ContainersInit, IdTables, CacheTrue
<1>2. IdTables /\ CacheTrue /\ [ContainersNext]_everything => (IdTables /\ CacheTrue)'
  <2> SUFFICES ASSUME IdTables, CacheTrue, [ContainersNext]_everything
               PROVE  IdTables' /\ CacheTrue'
      OBVIOUS
  <2>1. ASSUME NEW c \in Toons, OpensBank(c) PROVE IdTables' /\ CacheTrue'
    <3>1. UNCHANGED <<containerIdCache, open>> BY <2>1 DEF OpensBank, Bank, caches, game
    <3> QED BY <3>1, CachesStay
  <2>2. ASSUME NEW c \in Toons, GetsBackpack(c) PROVE IdTables' /\ CacheTrue'
    <3>1. UNCHANGED <<containerIdCache, open>>
          BY <2>2 DEF GetsBackpack, Backpack, vars, caches
    <3> QED BY <3>1, CachesStay
  <2>3. ASSUME NEW c \in Toons, OpensContainer(c) PROVE IdTables' /\ CacheTrue'
    <3>1. PICK t \in TempIds, L \in LooseLoads :
             \/ \E b \in Bags : Container(c, b, t, L) /\ open' = [open EXCEPT ![c][t] = b]
             \/ Container(c, INV_OVERFLOW, t, L) /\ UNCHANGED open
          BY <2>3 DEF OpensContainer, game
    <3>2. CASE Container(c, INV_OVERFLOW, t, L) /\ UNCHANGED open
      <4>1. UNCHANGED <<containerIdCache, open>> BY <3>2 DEF Container
      <4> QED BY <4>1, CachesStay
    <3>3. ASSUME NEW b \in Bags, Container(c, b, t, L), open' = [open EXCEPT ![c][t] = b]
          PROVE  IdTables' /\ CacheTrue'
      <4>1. b # INV_OVERFLOW /\ b \in Nat BY Numbers
      <4>2. containerIdCache' = [containerIdCache EXCEPT ![c][t] = b]
            BY <3>3, <4>1 DEF Container, UpdateTempContainerId
      <4>3. IdTables' BY <3>3, <4>1, <4>2 DEF IdTables
      <4>4. CacheTrue' BY <3>3, <4>2 DEF IdTables, CacheTrue
      <4> QED BY <4>3, <4>4
    <3> QED BY <3>1, <3>2, <3>3
  <2>4. ASSUME NEW c \in Toons, Zones(c) PROVE IdTables' /\ CacheTrue'
    <3>1. /\ containerIdCache' = [containerIdCache EXCEPT ![c] = [t \in TempIds |-> 0]]
          /\ open' = [open EXCEPT ![c] = [t \in TempIds |-> 0]]
          BY <2>4 DEF Zones, FullSync, ClearTempContainerIdCache
    <3> QED BY <3>1 DEF IdTables, CacheTrue
  <2>5. CASE Deletes
    <3>1. UNCHANGED <<containerIdCache, open>>
          BY <2>5 DEF Deletes, DeleteContainer, DeleteToon, DeleteItems, caches, game
    <3> QED BY <3>1, CachesStay
  <2>6. CASE Handle
    <3>1. UNCHANGED <<containerIdCache, open>>
          BY <2>6 DEF Handle, InsertNextItem, CommitSync, CleanupDB, caches, game
    <3> QED BY <3>1, CachesStay
  <2>7. CASE Restart
    <3>1. containerIdCache' = [c \in Toons |-> [t \in TempIds |-> 0]] /\ open' = open
          BY <2>7 DEF Restart, game
    <3> QED BY <3>1 DEF IdTables, CacheTrue
  <2>8. CASE UNCHANGED everything
    <3>1. UNCHANGED <<containerIdCache, open>> BY <2>8 DEF everything, vars, caches, game
    <3> QED BY <3>1, CachesStay
  <2> QED BY <2>1, <2>2, <2>3, <2>4, <2>5, <2>6, <2>7, <2>8 DEF ContainersNext
<1> QED BY <1>1, <1>2, PTL DEF ContainersSpec
=============================================================================
