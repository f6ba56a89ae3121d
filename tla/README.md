# AO Item Assistant: models, checks and proofs

AO Item Assistant (AOIA) keeps a database of what the characters of a player of
*Anarchy Online* own. A hook library inside each game client copies the
messages the client receives and sends; the application interprets them and
keeps its SQLite table in step with what the server does to the inventory. It
never sees the inventory itself, only messages about it, so that nearly all of
its correctness is that of a replica: a message wrongly applied is an item that
appears twice, in the wrong place, or no longer.

The modules here are translated from the source. Action and operator names are
those of the code, or of the message a handler is for; `PROJECT.json` has, for
each definition, the lines it stands for.

## 1. Inventory

| Part | Source | State | Operations |
|---|---|---|---|
| Hook library | `src/ItemAssistantHook/dllmain.cpp`, `DataQueue.cpp` | message filter, queue, named event, window handle | the two detours (in and out), the worker thread, attach, detach |
| Message dispatch | `src/ItemAssistant/MainFrm.cpp` | none | hands each `WM_COPYDATA` to the views, one at a time |
| Inventory handlers | `src/ItemAssistant/InventoryView.cpp` | the open trade's shop | one per message id, some with sub-operations |
| Item table | `src/ItemAssistant/DBManager.cpp`, `src/Shared/SQLite.cpp` | `tItems`, `tToons`, a transaction, a recursive lock | slot search, lookups, insertion, deletion |
| Temporary ids | `src/ItemAssistant/TempContainerCache.cpp` | per character: temporary container id to backpack, temporary item id to slot | update, look-up, clear |
| Pattern matcher | `src/ItemAssistant/PatternMatchView.cpp`, `PatternAvailabilityCalculator.cpp`, `src/Shared/Thread.cpp` | list of bosses, their availability, the search's index, two flags of the thread | show, hide, filter, recalculate, close; the calculator thread |
| Schema upgrade | `DBManager.cpp` `createDBScheme`, `updateDBVersion`, `src/Shared/SQLite.cpp` | the user's database file, its version | create, eight upgrades, two closing statements |
| Local item database | `DBManager.cpp` `syncLocalItemsDB`, `src/Shared/AODatabase*.cpp`, `ProgressDialog.cpp` | two files, their times; a dialog with a thread of its own | read index and data of the game, write items, replace the file, cancel |
| Message parsers | `AOMessageParsers.h`, `src/Parsers` | a cursor | packed structs, cursor parsers |
| Item record parser | `src/Shared/AOItemParser.cpp` | a cursor, the pending requirements | one per kind of section |
| Settings, folder of the game | `SettingsManager.cpp`, `AOManager.cpp`, `ItemAssistant.cpp` | one file, cached folders | read at the start, ask, write at the end |
| Container names | `ContainerManager.cpp` | two caches | ask for a name |
| Tree, list, find and info views | `InvTreeItems.cpp`, `MFTreeView.cpp`, `InventoryView.cpp`, `ItemListDataModel.cpp`, `FindPanel.cpp`, `InfoPanel.cpp`, the grid control | nodes expanded, rows listed, order, selection, item shown, find timer, open question | expand, select, search, sort, delete, export, copy, show |
| CSV export | `InventoryView.cpp`, `InvTreeItems.cpp` | a file | of the list's selection, of a node |
| Identify, summary, message views; injection; tray icon | the rest | presentation | see section 9 |

How they interact. The game's threads run through the detours and append to the
queue of the library in their client; the library's worker sends the messages to
the application's window with `SendMessage`, which returns when the application
has handled them. So the messages of all clients reach the *one* GUI thread one
at a time, and each handler runs from start to end before the next. The handlers
use the table (under the `DBManager` lock) and the cache of temporary ids. The
pattern matcher is the only other thread while the program runs: it queries the
same table under the same lock and shares a list and two flags with the GUI thread.
At the start there is another one, of the progress dialog, to which the main thread
sends messages. The views keep copies of rows: a message is handled between two
clicks, and also while a question is open, as a modal window dispatches messages.

What is hard in this code, and what makes it correct:

* **Handlers** – no concurrency, but long sequences: the container and slot of an
  item is found through a search, a cache, or a slot some earlier message
  named. *No two items in one slot; nothing left in a helper container; stacks
  neither grow nor shrink by being moved; a message changes one character; what
  is shown is committed.*
* **Trades** – items are in limbo between messages and the trade may end in three
  ways. *Nothing is lost or gained except by a settled trade; the windows are
  empty between trades.*
* **Container messages and zoning** – whole containers are replaced, several
  statements per message, with a crash possible in between. *All or nothing on
  disk; ids that are cached name what the game means; orphans are swept.*
* **Hook library** – game threads, worker, loader, and an application that comes
  and goes. *Order; at most once; no message left behind by a missed wakeup.*
* **Start of the program** – files that are written step by step, a process that may
  be ended at each, a game patched at any time, a dialog in a thread of its own.
  *An interrupted upgrade loses nothing and is completed; an item database in use is
  a whole one; every start ends.*
* **Parsers** – two decoders read the same messages; lists with counts, shifted by
  hand. *They agree; all of what was sent is read, at its place.*
* **Views** – rows copied at query time, selected by position, addressed after a
  question. *Nothing is deleted or exported but what the question was about; tree,
  list and file agree on where an item is; names are those of the files.*
* **Pattern matcher** – start, stop and restart of a thread by flags. *It is
  stopped before anything it uses changes; stopping ends; what it stored belongs
  to the criteria shown.*

`PROJECT.json` lists these as hazards, each at its line, with the properties
that cover it.

## 2. Plan

Order: the table and the handlers (what the program is for), then the trades on
top of them, then whole containers with crashes, then the concurrent subsystems,
then what lies around the table: the files, the parsers before it and the views
behind it.

| Step | Modules | State |
|---|---|---|
| 1. table, single items | `ItemTable`, `TempContainerCache`, `ItemMoves`, `SlotSearch`, `ItemFates` | done |
| 2. trades, of all kinds in one session | `TradeWindow`, `NpcTrade`, `PlayerTrade`, `PlayerShop`, `Trades`; abstract: `TradeLedger` | done |
| 3. containers, zoning, crashes | `Containers` | done |
| 4. hook library | `HookQueue`; abstract: `LossyFifo` | done |
| 5. pattern matcher | `PatternMatcher`, `PbAvailability` | done |
| 6. start of the program | `Sql`, `SchemaUpgrade`, `GameData`, `Startup` | done |
| 7. parsers | `Wire`, `Messages`, `GameMessages`, `ItemRecord`, `ItemRecords` | done |
| 8. views and names | `StoredItems`, `ContainerNames`, `TreeNodes`, `ItemList` | done |
| 9. proofs | `ItemTable_proofs`, `ItemMoves_proofs`, `HookQueue_proofs`, `PatternMatcher_proofs`, `ItemList_proofs`, `Containers_proofs`, `Trades_proofs`, `Startup_proofs` | done |
| 10. proofs of `decoders`: the header | `HookQueue_proofs` | done |
| 11. proofs of `decoders`: what follows it | `HookQueue_proofs` | done |
| 12. identify, summary and message views, the rest of the pattern matcher's view | | open |

## 3. The modules

```
ItemTable ─┬─ TempContainerCache ─┬─ ItemMoves ── ItemFates
           │                      ├─ TradeWindow ─┬─ NpcTrade ────────────────┬─ Trades
           │                      │  (TradeLedger)└─ PlayerTrade ─ PlayerShop ┘
           │                      └─ Containers
           └─ SlotSearch (with ItemMoves in MCItemMoves)
StoredItems ── ContainerNames ── TreeNodes ── ItemList
Sql ── SchemaUpgrade ┬─ Startup          Wire ┬─ Messages ─ GameMessages ─┬─ MCDecoders
           GameData ─┘                        └─ ItemRecord ─ ItemRecords ┘
LossyFifo <- HookQueue           PatternMatcher     PbAvailability
```

**ItemTable.** `tItems` is a set of rows; `items` is what the application's
connection reads, `disk` what was committed last, `txn` whether a transaction is
open, `depth` how often the GUI thread has the recursive lock between messages.
A handler is one of `Commit` (Lock, Begin, statements, Commit, UnLock),
`Execute` (a statement alone) or `Abandon` (Lock and Begin, then a return that
forgets both, as at `InventoryView.cpp:813`). SQL statements are operators on sets
of rows: an `UPDATE ... WHERE` applies to *every* row that matches, none or
several. `stack` may be NULL, arithmetic on which is NULL. `ql` and the two item
keys are one value, the kind; `flags` is left out, as no handler reads it.
`FindNextAvailableContainerSlot` has its closed form here.

**SlotSearch.** The same search as the code has it: the query, its rows in
ascending order, and the walk over them with a counter, as operators. They are
compared with the closed form in every state of `item_moves`.

**TempContainerCache.** The two caches per character, and
`GetFromContainerId`, which translates a message's "from type".

**ItemMoves.** One action per message about single items: move (with hot swap of
equipment and merging of stacks), split, two kinds of deletion, joining, use,
tradeskill results, rewards, temporary items. `Next` says which messages arrive:
the game names a free slot or "any", splits off less than there is and joins
stacks of one kind.

**ItemFates.** `ItemMoves` with a history variable that remembers which item a
temporary id was given to.

**TradeLedger** is the abstract specification of a trade's books: held, offered,
incoming; only a settled trade or the partner's retraction takes an item off
them. **TradeWindow** has what the handlers share (the loops over the slots
of a window) and the refinement mapping: an offered row is one in the trade
container or in a backpack that is there. **NpcTrade**, **PlayerTrade** and
**PlayerShop** are the handlers; **Trades** is a session in which a character deals
with all three kinds of partners, one after the other, through the same two windows.

**Containers.** Bank, backpack, container and full-sync messages, `CleanupDB`,
the user's deletions, and a `Restart` between any two steps, in which the cache
and the open transaction are lost. `MSG_FULLSYNC` is the one handler whose
statements are steps of their own. `carrier` and `open` are the game's side:
who has a backpack and what a temporary id stands for.

**HookQueue.** Per client: how far attach or detach got, the filter, where each
game thread is in its detour (queueing a message and setting the event are two
steps), the queue, the worker's place in its loop, the message it has popped and
the window it last looked up; for all of them the application's window, the
registry, and the event, which is *named* and so one for all clients.
**LossyFifo** is what it implements: a channel per client that keeps the order,
repeats nothing, makes nothing up, and may lose messages.

**PatternMatcher.** The GUI thread's handlers are cut where they wait in
`Thread::End`; the calculator is cut at each access to something shared. A step
that the code brackets with the list's mutex is one step. An availability is
known by the setting it was calculated for. **PbAvailability** is the
calculation itself, in quarters of a pattern.

**Sql** says what a statement does to a database file: a statement that fails changes
nothing; commits are what survives. **SchemaUpgrade** has the statements of
`createDBScheme` and of the upgrade scripts, one operator each. **GameData** is the
game's archive (index blocks linked to each other, data files, records that may not
parse) and what the reader makes of it. **Startup** is the main thread from the
settings file to the running program, the dialog thread, the user and the game:
`MainStep` is cut where something is written, sent or waited for, `Crash` is enabled
everywhere, `Patch` changes the archive at any time.

**Wire** is the layout of the messages and records as the game sends them, a sequence
of fields, with the cursor that moves over them and the offsets of a packed struct; a
read that does not meet one whole field is *torn*. **Messages** has the packed structs,
the parsers and, for each kind of message, what its handler takes from which decoder,
**GameMessages** the messages as they are sent and what must come out. **ItemRecord** is
the parser of item records, a state machine over sections, **ItemRecords** the records
and what an item should have.

**StoredItems** is the table as the views see it: rows with an `itemidx` that is never
used again, and `thing`, a history value, the item a row is of. Messages add, move,
remove and renumber rows. **ContainerNames** is `ContainerManager` and the files of
the game it reads. **TreeNodes** is the tree, **ItemList** the list with its query,
order and selection, the find panel with its timer, the info panel, and the
questions: `asking` is the open modal window with the things it is about. While it is
open the user can only answer it; messages and the timer go on.

## 4. The runs

| Run | Bounds | Shows |
|---|---|---|
| `item_moves` | 2 characters with rows in equal slots, one of whom has opened its backpack, 4 rows, 7 slots, 3 messages of any kind | types; `SlotsUnique`; `LowestFree` (the walk finds what the closed form says, the lowest free slot); `NothingInHotswap`; `ShownSurvives` (a transaction left open costs no more in a crash than the deletion of a quest item); `StacksConserved` (a message that changes how many of a kind a character has, or makes a count NULL, is not a mere move, swap, merge, split or join; two cases are excepted, F9 and F13); `MovesStayWithToon` |
| `trades` | 1 character; sessions with NPCs and 4 items, two of them identical, with players and a filled backpack, with player shops (own or unknown, stock of up to 2), and with NPCs and players in turn | `SlotsUnique`; `RejectedComesBack`, `KeptIsGone`; `WindowsEmpty` between trades; `NoOrphans` (in deals with players no content without its backpack); `LedgerKept` (refines `TradeLedger`, but for shops); `SaleConserves`: copying from the stock and deleting the originals on commit neither loses nor doubles anything |
| `containers` | 2 characters, a backpack that changes hands, 3 rows, unbounded sessions | `CacheTrue`, `BagInOneHand`, `SyncIsWhole` (a crash inside `MSG_FULLSYNC` costs nothing), `OrphansSwept` |
| `hook_queue` | 1 client, 2 threads, 3 messages, 2 launches | types, `NoLostWakeup`, `InOrder`, `IsLossyFifo`, `Dispatched` |
| `pattern_matcher` | 3 bosses, 2 settings, 2 queries a boss, unbounded sessions | types, `QuietUnlessShown`, `SettingHolds`, `EndReturns`, `SearchEnds` |
| `startup` | databases of every version, whole and interrupted; three archives (two files with linked blocks, a small one, one that cannot be read); 3 starts, 2 patches, an end at any step | `DataSurvives`, `SchemaComplete`, `ItemsWhole`, `AskedOrCurrent`, `StartEnds` |
| `decoders` | each message kind with each type and 0 to 2 items, 96 full synchronisations, item records of up to 2 of 15 kinds of sections, records cut short, 67 to 69 functions | `HandlersAgree`, `ContentsRead`, `SyncReadWhole`, `RecordRead` |
| `item_list` | 2 characters, a backpack and its content, up to 2 messages or 3 writes of files, up to 4 clicks, and the first and last slot of each panel | `OnlyChosen`, `NodesAgree`, `NameCurrent` |
| `overflow_of_others` | as `containers` | violated, see section 7 |
| `quest_item` | 1 character, 3 rows | violated |
| `shared_event` | 2 clients, 1 message each | violated |
| `filter_change` | 2 bosses | violated |

Why the bounds are enough. The slot numbers keep the order the code compares
them by (equip < inventory < full < "any"), and two or three slots in each range
distinguish "first", "next" and "none". Two characters with rows in *equal*
slots show whether an owner is forgotten in a `WHERE`; four rows are enough for
an item, its twin, a stack to join and one to split off; three messages for an
item to be put somewhere, something else to take its place, and the first to be
addressed again. With three messages in a queue there is one delivered, one in
the worker's hand and one behind it. Three starts are one that is ended in the middle
of an upgrade or extraction, one that is ended while it makes up for it, and one that
completes; commits every 2 records, a cancel test every 2 and blocks of 3 entries have
each boundary in an archive of a few records. A click to select, one to ask and one to
answer, with a message between them, is what it takes to delete something else; the
fourth gives room for a sort or a search before. Three bosses are a first, a middle and a last.
Bounds that cap the state (`MaxStack`, `MaxDepth`, `MaxMessages`, `MaxLaunches`,
the number of `Ids`, `MaxStamp`, the budget `left` of the views) are guards with that name: a message that would exceed one
does not arrive.

`CHECK_DEADLOCK FALSE` is in the runs because each of these systems may
stop: sessions that have used up their bound, a search that is done, a closed
view, a detached library, a user without clicks left, a parser at the end of its input.

Every property has a mutant, a change to one definition such as a programmer
could make (an owner left out, a slot off by one, a search not repeated within
the loop, the event set before the message is queued, a row addressed by its position) under which TLC finds
the property violated. They stand next to the definition they replace.

## 5. Fairness

Three specifications state any.

* `HookQueue`: the worker's own steps are weakly fair, as the scheduler runs
  it and `SendMessage` returns once the GUI thread has handled the message;
  waking up is strongly fair, because other clients' workers may take the signal
  and thereby disable it again and again; a game thread that has queued a message
  goes on to `SetEvent`; and the loader goes on from hooking to starting the worker.
  Nothing makes the game send anything, the application run or the library detach.
* `PatternMatcher`: the calculator is scheduled, the GUI thread goes on with a
  handler it has begun, and posted updates are handled. Nothing makes the user do
  anything. `EndReturns` and `SearchEnds` except the case that a message
  handler has returned with the database locked (see F5).
* `Startup`: threads run; the user answers the questions and touches the progress
  dialog again and again (its thread sits in `GetMessage` and looks at its flag after a
  message only, see F20). The main thread is treated strongly, as what it sends to the
  dialog is answered before the messages that are queued there. Nothing makes the user
  start the program, cancel or close it, nor the game be patched.

## 6. What is proved

TLAPS checks the following for every value of the constants (any number of
characters, items, slots, clients, threads, messages, bosses).

**ItemTable_proofs.** `FreeSlotFound`: the slot search stops, at the number of rows
at the latest (the numbers at which it may stop have a least one, by
well-foundedness of inclusion on finite sets), and no item is in the slot it
returns: at counter n at most n rows lie at or below the slot, at n - 1 more than
n - 1 did, so none was added. The exception is an empty inventory, where it
returns slot 0. The other lemmas say of each statement (delete, stack update,
insert, copy) that it is `Sound`: it keeps the types, leaves the rows of other
characters alone, and leaves a *tidy* table tidy, that is, one with one item to a
named slot and nothing in transit. A move is sound only if its target is free
(`Relocated` says what it does).

**ItemMoves_proofs.** Each message is `Handled`: it commits or executes a sound
change, or abandons its transaction, or leaves the table alone. From this one
lemma per message come `TypeOK` (inductive as it stands but for the finiteness
of the tables), `MovesStayWithToon`, and, provided the tables a run
starts from are tidy, `SlotsUnique` and `NothingInHotswap`. The hard case is the hot
swap: its three moves are sound only one after the other, since the first empties
the slot the second fills, and also when an item is swapped with itself.
`CrashKeepsShown` (`ShownSurvives`): a handler that leaves its transaction open has changed
nothing, and the next one that changes the table commits it as it then is
(`CommitsOrDeletes`); only the deletion of a quest item is a statement without a
`Commit` of its own, and a crash before the next one brings the item back.
`LowestSlotFound` (`LowestFree`) connects the search row by row with the expression the
handlers use: the n-th row of the sorted query is above the counter next to it exactly
if the counter sees at most n - 1 rows (`RowAbove`), so both stop together; and what the
counter has passed is taken, since it has seen more rows than there are slots and no
two rows share one (`PassedTaken`, a bijection of finite sets). Of a table that is not
tidy the second is false: two rows in one slot make the search skip a free one.
`NothingLostInMoves` (`StacksConserved`) is about a sum over a set. That the sum exists,
and may begin with any row, is shown by induction on the number of rows (`StockWithout`);
so sets of rows with the same ids and counts have the same sum (`StockMatches`), and
two rows may be replaced by one with the sum of their stacks (`PiecesFacts`). The property
is about each kind (`AsMany`: a kind whose stacks are all known stays so, with the same
sum). A move or swap lays the table out anew (`Relaid`), a merge or join replaces two rows
by one (`JoinAsMany`), a split one by two (`SplitFacts`). It needs distinct ids, and one
item to a slot: the `UPDATE` of a merge adds to every row of the slot. It says nothing of
two cases in which the code does lose count, each named in the property: the move that
merges a stack with itself (`MergesWithItself`, F13), and the join of which the table has
one stack only (`JoinsKnown`, F9).

**HookQueue_proofs.** `TypeOK` with the invariant that there is no worker before
it is started. `KeepsOrder` (`InOrder`): `InOrder` speaks of what was received
only; the inductive invariant is that the messages received, the one in the
worker's hand, and those in the queue, in this order, are increasing and
do not exceed the number sent. `ImplementsFifo` (`IsLossyFifo`): queueing maps to
`Put`, a pop without a window to `Lose`, a pop with one to a stutter, a send to
`Deliver` or `Lose`, everything else to a stutter. `OneClientAwake`
(`NoLostWakeup`): under the assumption that there is one client, as the named
event makes it false of two; from the type invariant and the order (nothing in
the queue is newer than the number sent, which is what `early` is set to).

The module goes on with what becomes of a message behind the queue. The invariant of all
three theorems (`DecodedTwice`) is that what is decoded was delivered, its header was read
twice, by a cursor and by a struct, and the rest as its handler reads it (`Body`); the work
is in what such readings give.

`DecodersAgree` (`HandlersAgree`) is about the header. `InputsAssumption` is all it needs of
a message: fields, none empty, that begin with the header of its origin and type, with
anything behind it. From this follow the positions of the header's fields (`EndsLoop`,
`EndsGrow`, `ServerEnds`, `ClientEnds`), that a read at the beginning of a field with its
width gives the field (`FieldRead`), that each step of the cursor stands before the next one
(`ReadLoop`, `FieldPopped`, `FieldSkipped`) and that the offsets of the struct are the same
positions (`HeaderPlaced`). `Ends` and `Read` are recursive functions; that they satisfy their
equation is proved by induction over the length with the lemma `Induction`, which
takes a set in place of a predicate and rests on well-foundedness of strict inclusion.

`ContentsAreRead` (`ContentsRead`) and `SyncIsReadWhole` (`SyncReadWhole`) are about what follows,
for lists of any length. They take `ContentsAssumption` too: what is delivered is what
the game sends (`Sent`), of one of the kinds modelled, and a client sends three of
these. Without it nothing says what should come out. TLC evaluates it on the messages
of the run; for the theorems the lengths are any natural numbers. The argument:

* A run of fields is a *part* of a message that begins at a position (`PartAt`). Of two
  parts put together the second begins where the first ends (`PartJoined`), and so of any
  number of them (`PartsChained`). This is what positions are proved from.
* A struct or a script whose members are as wide as the fields of a part (`Wide`), laid over
  it, reads them, whatever comes before and after (`OverlayRead`, `CursorRead`).
* A counted loop over a list of n such parts reads the k-th part in its k-th round and
  stands behind the list in the end (`ManyRead`, and for the lists of messages `ListPopped`,
  `ListElement`): by induction over the rounds. An array of structs at an offset reads
  the same (`ListOver`, for `NativeItems` and `RejectedItems`).
* The full synchronisation is 21 parts, the lists and the counts before them: `SyncParts`
  names them, `SyncJoined` says that together they are what was sent, `SyncAt` where each
  is, and `SyncRead` follows the cursor from one to the next, up to the last byte.
* The stats come out of four maps. What a loop over one writes is proved by induction
  (`SetLoop`, `StatsSet`), and the four together give a key the value of the last map
  that has it (`LastMap`, `StatsLast`).

**PatternMatcher_proofs.** `QuietUnlessShown` and `SettingHolds` are not
inductive: they hold because a handle is kept exactly while there is a thread,
a handler that waits has something to go on with, only leaving or closing the
view goes on to hide it, and the lock is held within a query only. These
are the conjuncts of `Inv`. Of what is calculated, `PbAvailability`, `CountsPatterns`
says: for all numbers of the seven kinds of pieces, m whole patterns can be put together exactly if `CalcPbAvailability`
is at least m (4m in quarters). `AssemblingKeeps`: it does not depend on what
the player has assembled already.

**ItemList_proofs.** `DeletesOnlyChosen` (`OnlyChosen`): what the user agrees to
delete, or exports, is what the question was about. It rests on three facts, which
are the inductive invariant `Inv`: an `itemidx` belongs to one row of the table
and none is larger than the last given out; a row of the list and a row of the table
with one `itemidx` are of the same item, whatever has happened since the query; and
while a question is open nothing else becomes selected. The second is the one that
makes stale lists harmless, and is false without `AUTOINCREMENT`. The steps fall into
four kinds, each a lemma: the list stays, rows go, a query is run, the order changes.
`NamesOfFiles` (`NameCurrent`): a cached name is of the file written when its stamp
says, or was made up when there was none. `TreeShowsLocations` (`NodesAgree`): backpacks
have one row (`BagsOnce`), and for every slot the panel of the tree, that of the list
and that of the file agree (`PanelsAgree`).

**Containers_proofs.** All four properties of `containers`, with crashes anywhere.
`WholeOnDisk` (`SyncIsWhole`) rests on what `MSG_FULLSYNC` keeps between its
statements (`Pending`): the inventory has what was listed and is not still to be
inserted, the inventories of the others are those on disk, and outside of it nothing
is pending. `OneHandOnly` (`BagInOneHand`): the new content of a backpack replaces
every row in it, whosever it is; rows inserted elsewhere are in no backpack.
`NothingOrphaned` (`OrphansSwept`) needs that backpacks themselves are never in a
container that is swept (`BagsOnTop`), for the clean-up would otherwise make orphans.
The three hold provided the tables a session starts from have both. `CachedIdsTrue`
(`CacheTrue`) is inductive with the types of the two tables of ids.

**Trades_proofs.** All properties of `trades`, for any number of characters, partners,
items and slots. The argument goes in layers.

* *The loops.* `CarryOver` is a recursive function over the slots of a window. What it
  does is shown by induction on the slot, stated as a fact about sets of numbers
  (`Induction`, from well-foundedness): the table after n slots exists, keeps types and
  key, and is the old one `Shifted`, that is, each row is still there or is at its
  place in the new container, and only those of the window have moved. The same
  for the list of rejected kinds. With room, the loop never breaks off and the
  window is empty after its last slot.
* *Keys.* Every row has an id of its own (`Keys`): inductive in sessions of any kind,
  shops included. From it `KeptLeavesTable` (`KeptIsGone`) and, with room,
  `RejectedReturns` (`RejectedComesBack`): an item is given back before the rest of the
  window goes, and no later statement takes it. Both are about deals in which no
  rejected item has an identical one in the window (`Singled`, F16).
* *Orderly messages.* What the messages about NPCs and players do is sound in the sense
  of `ItemTable_proofs`, so `TradesTidy` (`SlotsUnique`).
* *Deeds.* Each message is one of a few deeds on the windows (put an item there, take
  one out, the partner brings or takes away one, all goes back, a deal is settled,
  the windows are swapped). `Bargains`, the inductive invariant, says for each state of
  a trade which window may hold something and in which slots: nothing between
  trades, nothing of a partner with an NPC. `WindowsEmpty` (`TradesLeaveNothing`) is a
  part of it. For `NoOrphans` (`TradesOrphanNothing`) one needs that a backpack is in no
  backpack, and that nothing lies in a backpack the partner has only offered yet
  (`Housed`).
* *The ledger.* `TradesKeepLedger` (`LedgerKept`): under `Bargains` each deed is a step of
  `TradeLedger`. The contents of a backpack are offered and withdrawn with it, which needs
  that no two backpacks share a container (the ids of containers are those of backpacks).

* *Player shops.* `Shopping` says of each customer that for every copy in the window
  the shop has an item of that kind at that slot (`Shown`), and that there is one item to
  a slot, the shop's containers included; without the second the first would not count
  anything. It is inductive because nothing a trade does takes from a shop before the
  commit: what is offered or taken back comes from containers that are no shop's
  (`ShopPlaces`), and `ShopItems` comes outside trades. So `ShopsTidy` (`SlotsUnique`, with
  partners of every kind), and by counting `SalesConserve` (`SaleConserves`): the slots of the
  deleted originals of a kind are the slots of its copies (`OriginalsCounted`), and a
  move changes the number of no kind (`ShiftCount`). Both need `[]OwnShops`, that the shop a
  character trades with is its own or of an unknown owner: with the shop of another known
  character the code looks for the copies in the wrong window (F2). With one character
  `OwnShops` always holds (`LoneShopper`, the theorem `trades` is an instance of).

Three of these hold with room only, `RoomInInventory` or `Room`: what the game
guarantees (it lets nothing into a window that could not go back, and a window has
as many slots as the loop visits), and what the code relies on when it breaks off
(F14, F17). It is a hypothesis of the theorem, `[]Room`, and an invariant of `trades`.
The tables a session starts from are clean (`CleanStart`): distinct ids, one item to a
slot, empty windows, contents in containers of backpacks. `AllBut("shop")` is in the properties
because of F2 and F31.

**Startup_proofs.** The four invariants of `startup`. First `ItemsAlwaysWhole`
(`ItemsWhole`) and `AskedUnlessCurrent` (`AskedOrCurrent`), for any archive that is `WellFormed`, any number of entries to a
block, any interval between commits, any number of starts and patches, and an end of the
process anywhere.

* *The archive.* What is read of it is defined by recursive functions over its blocks and
  files; that these exist and what they hold is shown by induction on numbers.
  `ListedVisited`: every block that is linked from the first is visited within as many
  steps as there are blocks (a block that is reached in n steps is the n-th of the walk,
  or the walk has ended before). `WantedListed`: so every record that is wanted is
  among the offsets to be read. `ReadAtHome`: whichever file is open, a wanted record is
  read from the file that holds it, because the ranges the code compares with overlap
  only next to the borders, and these are excepted (F23).
* *The extraction.* `Inv` says of the database in the making that it has every wanted
  record whose offset is no longer in the queue (`Reading`), that its tables agree
  (`Draft`), that the time it was begun is that of the last patch unless there was one
  since (`Making`); of the temporary file, that it is whole from the last commit until
  it is renamed (`Made`). What has been committed before that does not matter: a start
  never uses the temporary file. `Aside` disposes of the steps elsewhere.

Then `SchemaAlwaysComplete` (`SchemaComplete`) and `DataAlwaysSurvives` (`DataSurvives`), for
databases with any rows. An upgrade that was cut short has committed some scripts, but
the version is written by the last statement, so the next start runs scripts on a
database that has been through them: "of version k" cannot be the invariant.

* *The form.* `Form(db, k)` says what a script may rely on and must leave: the table of the
  characters with the columns and the key of version k or a later one, the table of the
  items likewise, unique numbers where there is a key, the other tables and indexes
  if k has them, and none of the second tables. A later form need not be an earlier one
  in everything, but every version has the form of its number (`KnownForm`).
* *The scripts.* `Script0` to `Script7`: run on `Form(db, k)`, script k leaves
  `Form(out, k + 1)`, whichever of its statements fail (those that make what is there
  already change nothing), and what it does not drop on purpose it keeps
  (`Committed`): the items always; the names, unless two characters had one number, when
  the copy into the keyed table fails; the shops from script 3 and the flags from
  script 4 on. Run again, scripts 0 to 2 drop the shops and script 3 the flags, so the
  proof needs that they are run only for a version that had none.
* *The steps.* `UserInv` puts this together: the form of the database by its version
  (`UserKnown`) and, during the upgrade, by the script that is next (`Upgraded`); before the
  last two statements the version is the one the user had (`VersionKept`), an old one
  had no shops and no flags (`HadAtFirst`), and numbers that differed still do
  (`StaysDistinct`). Between the last two statements there is no version; a process that
  ends there starts at script 0 (F19, `seen.viewLost`): for shops and flags
  `DataSurvives` excepts it, for the schema and the items it need not.

For these the user's database is at first what `KnownUser` says: none, an empty one,
one of a version from 0 to 8 (`OfVersion`), or one of a later program, of which nothing is
assumed. TLC checks this of the databases in `startup`, which are made by running
the scripts.

`DisksAssumption`: a first start finds a well-formed archive, an item database of
this version only if it is a whole one, and a `KnownUser` database. `WellFormed` says of the archive what the reader
relies on: blocks with no more entries than fit, bytes after each, offsets inside files.

Assumptions: the `ASSUME`s of the modules, which TLC evaluates in the runs, the hypotheses
about start tables and room named above, and nothing else.

Only model-checked: liveness (`Dispatched`, `EndReturns`, `SearchEnds`, `StartEnds`), as
the prover does not treat fairness and `ENABLED`, and `RecordRead`. The reader of records looks for
known numbers in them, so a record whose data happen to be such numbers is read differently: for
arbitrary records `RecordRead` is false, and the code makes no assumption that excludes them. It is
checked for the records listed in `MCDecoders`. All other properties of the passing runs are theorems.

## 7. Where the code does not do what it says

Four of these are runs whose property is violated (findings in `PROJECT.json`):

* **F4** `overflow_of_others`: `MSG_CONTAINER` deletes by `parent` alone. For a
  backpack this is right (its id is unique), for the overflow window, whose id is 6
  for everybody, it deletes the rows of the other characters (`InventoryView.cpp:2311`).
* **F10** `quest_item`: a mission item is taken back by the slot it was expected in,
  wherever it is by then (`InventoryView.cpp:1108`).
* **F8** `shared_event`: the event is named and auto-reset, so that a worker in
  another client may take the signal (`dllmain.cpp:101`); the message waits
  for the next one of its own client.
* **F7** `filter_change`: the availabilities are reset before the calculator is
  stopped; the one under way is stored afterwards and, as it is no longer unknown,
  stays for the new character (`PatternMatchView.cpp:144`).

The others shape what the properties say and under which messages they hold:

* **F1** For an empty inventory the search returns slot 0, not the first inventory
  slot (`DBManager.cpp:420`). `Named` excepts slot 0 from `SlotsUnique`.
* **F2** When the trade with a *known* shop is committed, the loop looks for the
  copies under the shop's owner (`InventoryView.cpp:1565`); they stay in the
  window if that is another character. `trades` has one character, and `OwnShops`
  excepts it from the theorems.
* **F3** `SetToonName` is an `INSERT OR REPLACE` of two columns (`DBManager.cpp:340`): the
  shop id of the row is reset by each `MSG_MOB_SYNC`.
* **F5** Several handlers return after Lock and Begin without Commit and UnLock
  (`InventoryView.cpp:813`). The lock is recursive, so the GUI thread does
  not notice; the transaction stays open until the next Commit; the calculator
  waits for the lock, and the GUI thread, in `Thread::End`, for the calculator.
  `ShownSurvives` says what the open transaction can cost in a crash; nothing says that
  it is closed.
* **F6** The calculator resets `m_term` when it gets going; a `StopPlease` before
  that is lost and `End()` waits for a whole search (`PatternAvailabilityCalculator.cpp:10`).
* **F9** A join whose second container is not cached sets the stack to NULL
  (`InventoryView.cpp:1134`). `StacksConserved` is about joins of which the table has
  both stacks (`JoinsKnown`).
* **F11** `LoadMessageFilter` calls `empty()` where it means `clear()`
  (`dllmain.cpp:147`): the filter only grows.
* **F12** A deletion is applied twice, from the client's message and from the
  server's; what has moved to the slot in between is deleted (`InventoryView.cpp:810`).
* **F13** A stack joined to itself is doubled and deleted. In a `MSG_CHAR_OPERATION` that
  names one stack twice the game does not send this, and `Joinable` excludes it. In
  `MSG_ITEM_MOVE` it takes a move from the inventory to "any slot" of the inventory:
  `FindFirstItemOfSameType` does not leave out the stack that moves
  (`DBManager.cpp:487`), so the lowest stack of its kind is merged with itself and is
  gone (`InventoryView.cpp:2093`). `MergeMove` does so, too, and `StacksConserved` excepts
  it by name (`MergesWithItself`), for the kind concerned.
* **F14, F16** An NPC's rejected items are lost when the inventory is full
  (`InventoryView.cpp:1000`), and items of one kind are all moved to one
  slot, kept ones included (`:1017`). Where `trades` has an NPC there is
  room, and of identical items it rejects none (`Singled`); it may keep them.
* **F15** `CleanupDB` asks whether *anybody* has the container
  (`InventoryView.cpp:2501`): what one character left in a bag that another now has
  stays. `OrphansSwept` says no more than that.
* **F17** Declining with a full inventory leaves items in the window, which the
  next trade deletes (`InventoryView.cpp:1449`); `trades` has room.
* **F18** Hiding the matcher's view takes pending updates off the queue; as their
  bosses are calculated, the next search skips them and the rows keep
  showing "calculating..." (`PatternMatchView.cpp:318`).
* **F19** The upgrade commits each version's script but records the version at the end
  only. Run again from the old version, the scripts lose nothing, with these
  exceptions: two rows of one character in a database of version 0 make `Upgrade0`
  lose all names; an end between `DROP VIEW` and `CREATE VIEW` makes the next start
  take the database for version 0, and shop ids and flags are gone; an end during the
  first creation leaves an empty file, which is upgraded from 0 as well.
* **F20** `Thread::End` of the progress dialog clears a flag and waits without limit, while
  the thread sits in `GetMessage`: another message to its window must arrive
  (`ProgressDialog.cpp:94`). `StartEnds` relies on the user's mouse.
* **F21** The item database is stamped with the time of its last write, so that a
  patch of the game while it is made goes unnoticed (`DBManager.cpp:124`);
  `AskedOrCurrent` excepts it. Without the game's archive any item database is
  taken, of whatever scheme.
* **F22** A line of 255 characters or more in the settings file sets `failbit`, and
  the reader loops for ever (`SettingsManager.cpp:43`): the place "stuck" in `Startup`.
  The settings are truncated before they are written. The folder of the preferences is
  derived once, also from an empty path (`AOManager.cpp:124`).
* **F23** The first record of the second data file is read from the first one and
  lost (`AODatabaseParser.cpp:128`), and an index block that ends at the end of its file
  is not read (`AODatabaseIndex.cpp:53`); `Expected` leaves out the former, `WellFormed`
  excludes the latter. A skipped record at a
  multiple of 1,000 or 10,000 skips the test for cancel or the commit as well. A
  missing data file, or a record that cannot be parsed, ends the start, also when there
  is an item database of an earlier one.
* **F24** Messages of type D have one byte more than the packed structs have
  (`AOMessageBase.cpp:21`): what the structs read of one is torn. `HandlersAgree` and
  `ContentsRead` except them. A cursor may be moved behind the end (`Parser.cpp:17`).
* **F25** `while(count2--) NEXT(val);` is two statements by the macro
  (`AOItemParser.cpp:457`): a group of animations takes three words whatever its
  count. A count of functions is shifted by ten, which is one too few from
  68 on; the last function is found again by the branch for lingering ones (`:469`). A
  requirement list cut short loses the one pending, a modifier 0x12 stays on for what
  follows, and an unknown function ends the record. `RecordRead` is exact for the
  other sections and says that what comes before is kept for these.
* **F26** Sorting keeps the selection by position, so that other rows are selected
  afterwards and the info panel is not told. A search for what was searched for last
  does nothing, also when the tree has replaced the list. Clicking the selected
  node again does not refresh it. Neither tree nor list are refreshed after a
  deletion in the tree. `OnlyChosen` is about the items selected when the question opens.
* **F27** Deleting a backpack's node deletes by container number for all characters
  (`InvTreeItems.cpp:198`); numbers of backpacks are unique, so in the runs nobody else's
  item goes.
* **F28** Copying a reference to, or showing, a row that has left the table throws
  (`InventoryView.cpp:318`), copying with the database locked; nothing catches it.
  `running` becomes FALSE, and the model's session is over.
* **F29** A made-up name ("Backpack: n") is kept for ever, also when the bag's row
  becomes known (`ContainerManager.cpp:83`), and the comparison of file times tests the high
  word twice (`:67`). `NameCurrent` is about names in files.
* **F30** Collapsing a node deletes its children but not theirs (`MFTreeView.cpp:25`, which
  says so), a leak.
* **F31** A backpack put into a player shop moves to the shop's container alone: its
  contents keep the seller as their owner and stay in the table without a backpack
  of the seller (`InventoryView.cpp:1583`). `NoOrphans` speaks of players only.
* The detours are in place before the event (`dllmain.cpp:253-266`): messages
  of that interval wait for the next one. `early` is their number.

## 8. Modelling decisions

* One action per message; where a message comes with several operations, one per
  operation. `Next` disjuncts that end in `Message` are what the game sends: they
  restrict arguments to those a server would use, never what the handler does.
* Runs start in the middle of a session (`Loadouts`, `OpenBags`), as the application
  does when it finds a database of an earlier session; `Containers` starts with an
  empty cache, as a started application does.
* In `ItemTable`, `itemidx` values are used again after a deletion, which keeps tables
  finite and which no handler can tell; in `StoredItems`, where stale rows are addressed
  by them, they never are.
* Times ("more than ten seconds ago") are a choice left open. Times of files count
  the writes; in the views they count down with the budget, as only their order matters.
* Bytes are fields. A decoder is right if it reads each field whole and as what it
  is; what it reads from the middle of one is `torn`, whatever the value.
* A failed SQL statement changes nothing and is not looked at by the code; so in `Sql`.
* In the views, the low and high key of an item are one value, the kind; the filter by
  quality, texts of the status bar and of the clipboard, and CSV quoting are left out.
  Sizing columns is drawing rows (`DrawRow`), which asks for names.
* Assumed of Windows: collapsing a node above the selected one selects it; a list made
  shorter drops the selection past its end without notice; a modal window disables
  the main window but not its timers and messages.
* Assumed of the game: a backpack is one item; a message names a place that is; what is
  in the window already is not chosen in a shop once more; a shop has one thing to a slot.

## 9. Not modelled

* Identify, summary and message views: queries over the same tables, laid out as text,
  without state that anything else reads. The report and the layout of the pattern
  matcher's view likewise.
* Injection and process start: Windows API calls around a life cycle that
  `HookQueue` has as `AttachHooks` ... `EndReset`. Installing
  the detours is a library's work; the model begins where a message is copied.
* The list of accounts (folders of the game, read once at the start): the models have
  one account.
* Ripper (a command line around the parser and the writer), plugins, logger, tray
  icon, crash dumps: no state that the parts above depend on, or third-party code.
* Code of Windows and SQLite is modelled from how it is used, see section 8.

What could be added within reach: a run with several
characters for player shops, where F2 makes `SaleConserves` false.
