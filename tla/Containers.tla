----------------------------- MODULE Containers -----------------------------
(***************************************************************************)
(* The messages that bring a whole container: MSG_BANK, MSG_BACKPACK,      *)
(* MSG_CONTAINER and MSG_FULLSYNC, which every zoning begins with and      *)
(* which CleanupDB ends; what the tree view and the item list delete; and  *)
(* the application being ended at any point, with the database rolled back *)
(* to the last commit and the cache of temporary ids lost.                 *)
(*                                                                         *)
(* A message is one action, except MSG_FULLSYNC, whose commit and clean-up *)
(* are two: its statements are steps of their own, between which only a    *)
(* crash can come.                                                         *)
(***************************************************************************)
EXTENDS TempContainerCache

CONSTANTS
    Loads,          \* what messages list: sets of [kind, stack, slot, bag]
    Template,       \* the kind of a backpack
    NoToon          \* not a character

Entry == [kind : Kinds, stack : Stacks, slot : Nat, bag : Bags \cup {0}]

ASSUME LoadAssumption ==
    /\ Loads \subseteq SUBSET Entry
    /\ Template \in Kinds
    /\ NoToon \notin Toons

VARIABLES
    sync,       \* the MSG_FULLSYNC being handled: the character, the items
                \* listed and those still to be inserted
    carrier,    \* the game's side: who has a backpack
    open        \* the game's side: the backpack a temporary id stands for

game == <<carrier, open>>

Idle == [toon |-> NoToon, listed |-> {}, todo |-> {}]

Listed(c, p, L) == {Item(i.kind, i.stack, p, i.slot, i.bag, c) : i \in L}

-----------------------------------------------------------------------------
(* The messages.                                                           *)

\* Every update of the bank is a complete one.
Bank(c, L) ==
    LET rest == items \ Rows(items, c, INV_BANK) IN
    /\ RoomFor(rest, Listed(c, INV_BANK, L))
    /\ Commit(InsertItems(rest, Listed(c, INV_BANK, L)))
    /\ UNCHANGED caches

\* A backpack is bought: it takes the place of what was known of it.
Backpack(c, b, s) ==
    LET slot == IF s >= AnySlot
                THEN FindNextAvailableContainerSlot(items, c, INV_TOONINV)
                ELSE s
        rest == items \ {r \in Owned(items, c) : r.children = b}
        new  == {Item(Template, 1, INV_TOONINV, slot, b, c)}
    IN  /\ RoomFor(rest, new)
        /\ Commit(InsertItems(rest, new))
        /\ UNCHANGED caches

\* Mutant: only the character's own rows of the container are replaced.
ContainerOfOwn(c, p, t, L) ==
    LET rest == items \ Rows(items, c, p) IN
    /\ RoomFor(rest, Listed(c, p, L))
    /\ Commit(InsertItems(rest, Listed(c, p, L)))
    /\ IF p # INV_OVERFLOW THEN UpdateTempContainerId(c, t, p) ELSE UNCHANGED containerIdCache
    /\ UNCHANGED itemSlotCache

\* The content of a backpack, or of the overflow window, whose temporary id is
\* not remembered: a backpack may get it.
Container(c, p, t, L) ==
    LET rest == items \ {r \in items : r.parent = p} IN
    /\ RoomFor(rest, Listed(c, p, L))
    /\ Commit(InsertItems(rest, Listed(c, p, L)))
    /\ IF p # INV_OVERFLOW THEN UpdateTempContainerId(c, t, p) ELSE UNCHANGED containerIdCache
    /\ UNCHANGED itemSlotCache

\* Mutants: no transaction; the temporary ids stay cached.
FullSyncAtOnce(c, L) ==
    /\ Execute(items \ Rows(items, c, INV_TOONINV))
    /\ UNCHANGED itemSlotCache
    /\ ClearTempContainerIdCache(c)
    /\ sync' = [toon |-> c, listed |-> L, todo |-> L]

FullSyncKeepsIds(c, L) ==
    /\ items' = items \ Rows(items, c, INV_TOONINV)
    /\ txn' = TRUE
    /\ UNCHANGED <<disk, depth, caches>>
    /\ sync' = [toon |-> c, listed |-> L, todo |-> L]

\* MSG_FULLSYNC: a transaction deletes what the character carries ...
FullSync(c, L) ==
    /\ items' = items \ {r \in Owned(items, c) : r.parent = INV_TOONINV \/ r.parent \in INV_TRADE..INV_OTHER_PLAYERSHOP}
    /\ txn' = TRUE
    /\ UNCHANGED <<disk, depth, itemSlotCache>>
    /\ ClearTempContainerIdCache(c)
    /\ sync' = [toon |-> c, listed |-> L, todo |-> L]

\* ... inserts the items listed one after the other ...
InsertNextItem ==
    /\ txn
    /\ \E i \in sync.todo :
          /\ RoomFor(items, Listed(sync.toon, INV_TOONINV, {i}))
          /\ Execute(InsertItems(items, Listed(sync.toon, INV_TOONINV, {i})))
          /\ sync' = [sync EXCEPT !.todo = @ \ {i}]
    /\ UNCHANGED caches

\* ... and is committed.
CommitSync ==
    /\ txn
    /\ sync.todo = {}
    /\ Commit(items)
    /\ UNCHANGED <<caches, sync>>

\* Mutant: containers are looked for among the containers.
CleanupNothing ==
    /\ sync # Idle
    /\ ~txn
    /\ Execute(items \ {r \in Owned(items, sync.toon) :
                          r.parent > INV_PLAYERSHOP /\ \A b \in items : b.parent # r.parent})
    /\ sync' = Idle
    /\ UNCHANGED caches

\* Outside the transaction, and without one of its own: what is left in
\* containers nobody has is deleted.
CleanupDB ==
    /\ sync # Idle
    /\ ~txn
    /\ Execute(items \ {r \in Owned(items, sync.toon) :
                          r.parent > INV_PLAYERSHOP /\ \A b \in items : b.children # r.parent})
    /\ sync' = Idle
    /\ UNCHANGED caches

-----------------------------------------------------------------------------
(* The user's deletions.                                                   *)

DeleteContainer(b) == Commit({r \in items : r.parent # b /\ r.children # b}) /\ UNCHANGED caches

DeleteToon(c) == Commit(items \ Owned(items, c)) /\ UNCHANGED caches

DeleteItems(R) == Execute(items \ R) /\ UNCHANGED caches

-----------------------------------------------------------------------------
\* The application ends and is started again.
Restart ==
    /\ items' = disk
    /\ txn' = FALSE
    /\ depth' = 0
    /\ UNCHANGED disk
    /\ containerIdCache' = [c \in Toons |-> [t \in TempIds |-> 0]]
    /\ itemSlotCache' = [c \in Toons |-> [t \in TempItemIds |-> 0]]
    /\ sync' = Idle
    /\ UNCHANGED game

-----------------------------------------------------------------------------
(* The messages that arrive.  The game lists the backpacks a character has, *)
(* opens one under a temporary id of its choice, and forgets all temporary  *)
(* ids when the character zones.                                           *)

Carries(c, L) == \A i \in L : i.bag # 0 => carrier[i.bag] = c

LooseLoads == {L \in Loads : \A i \in L : i.bag = 0}

OpensBank(c) ==
    /\ \E L \in Loads : Carries(c, L) /\ Bank(c, L)
    /\ UNCHANGED <<sync, game>>

\* Backpacks change hands where no message says so: in the game's mail, on
\* another computer, while the application is not running.
GetsBackpack(c) ==
    /\ \E b \in Bags :
          /\ carrier' = [carrier EXCEPT ![b] = c]
          /\ \/ Backpack(c, b, AnySlot) /\ UNCHANGED sync
             \/ UNCHANGED <<vars, sync>>
    /\ UNCHANGED open

OpensContainer(c) ==
    \E t \in TempIds, L \in LooseLoads :
        \/ \E b \in {x \in Bags : carrier[x] = c} :
              /\ Container(c, b, t, L)
              /\ open' = [open EXCEPT ![c][t] = b]
              /\ UNCHANGED <<sync, carrier>>
        \/ Container(c, INV_OVERFLOW, t, L) /\ UNCHANGED <<sync, game>>

Zones(c) ==
    /\ \E L \in Loads : Carries(c, L) /\ FullSync(c, L)
    /\ open' = [open EXCEPT ![c] = [t \in TempIds |-> 0]]
    /\ UNCHANGED carrier

Deletes ==
    /\ \/ \E b \in Bags : DeleteContainer(b)
       \/ \E c \in Toons : DeleteToon(c)
       \/ \E r \in items : DeleteItems({r})
    /\ UNCHANGED <<sync, game>>

Handle == (InsertNextItem \/ CommitSync \/ CleanupDB) /\ UNCHANGED game

ContainersInit ==
    /\ Start
    /\ sync = Idle
    /\ carrier \in [Bags -> Toons]
    /\ open \in [Toons -> [TempIds -> Bags \cup {0}]]
    /\ containerIdCache = [c \in Toons |-> [t \in TempIds |-> 0]]

ContainersNext ==
    \/ /\ sync = Idle
       /\ \/ \E c \in Toons : OpensBank(c) \/ GetsBackpack(c) \/ OpensContainer(c) \/ Zones(c)
          \/ Deletes
    \/ Handle
    \/ Restart

everything == <<vars, sync, game>>

ContainersSpec == ContainersInit /\ [][ContainersNext]_everything

-----------------------------------------------------------------------------
(* Properties.                                                             *)

\* A temporary id that is in the cache stands for the same backpack in the
\* game: no zoning, re-opening or restart leaves an id that names another.
CacheTrue ==
    \A c \in Toons, t \in TempIds :
        containerIdCache[c][t] # 0 => open[c][t] = containerIdCache[c][t]

\* However often a backpack changes hands, the items in it are shown for one
\* character only.
BagInOneHand ==
    \A r, s \in items : (r.parent \in Bags /\ s.parent = r.parent) => s.owner = r.owner

Content(db, c) ==
    {[kind |-> r.kind, stack |-> r.stack, slot |-> r.slot, bag |-> r.children] :
        r \in Rows(db, c, INV_TOONINV)}

\* A crash in the middle of MSG_FULLSYNC never costs items: on disk, the
\* inventory is the old one or the whole of the one listed.
SyncIsWhole ==
    [][(Handle \/ \E c \in Toons : Zones(c)) =>
          \A c \in Toons : Content(disk', c) # Content(disk, c) =>
             c = sync.toon /\ Content(disk', c) = sync.listed]_everything

\* After the clean-up every item of the character is in a container that some
\* character has.
OrphansSwept ==
    [][CleanupDB => \A r \in Owned(items', sync.toon) :
          r.parent > INV_PLAYERSHOP => \E b \in items' : b.children = r.parent]_everything

\* "Remove old contents from BP" (InventoryView.cpp:2309): the content of a
\* container replaces that of the same container, and leaves what other
\* characters have elsewhere alone.
OthersKept ==
    [][\A c \in Toons : OpensContainer(c) =>
          \A o \in Toons \ {c} : \A r \in Owned(items, o) : r.parent \notin Bags => r \in items']_everything
=============================================================================
