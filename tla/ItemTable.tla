----------------------------- MODULE ItemTable -----------------------------
(***************************************************************************)
(* The tItems table as the message handlers of InventoryView see it: the   *)
(* rows, the SQL statements the handlers send, the slot searches of        *)
(* DBManager, and the session the GUI thread keeps with the database: the  *)
(* global DBManager lock, the open transaction and what is on disk.        *)
(*                                                                         *)
(* ql and the two item keys are one value, the kind; flags is left out.    *)
(* Slot and capacity numbers of the game are constants, so that small      *)
(* instances keep the order the code relies on: equip slots < inventory    *)
(* slots < "inventory full" < "any slot".                                  *)
(***************************************************************************)
EXTENDS Integers, FiniteSets

CONSTANTS
    Toons,          \* the monitored characters
    Kinds,          \* the item kinds (keylow, keyhigh, ql)
    Bags,           \* the container ids of backpacks
    Ids,            \* itemidx values; their number bounds the table
    NoStack,        \* SQL NULL in the stack column
    FirstInvSlot,   \* 64, the first inventory slot after the equip panels
    InvFull,        \* 94, the first slot past the inventory
    AnySlot,        \* 0x6f, "wherever there is room"
    LastTradeSlot,  \* 35, shopCapacity
    MaxDepth        \* bound: how often the lock may be left held

INV_BANK             == 1
INV_TOONINV          == 2
INV_PLAYERSHOP       == 3
INV_TRADE            == 4
INV_TRADEPARTNER     == 5
INV_OVERFLOW         == 6
INV_HOTSWAPTEMP      == 7
INV_OTHER_PLAYERSHOP == 8

ASSUME SlotAssumption ==
    /\ FirstInvSlot \in Nat \ {0}
    /\ InvFull \in Nat
    /\ AnySlot \in Nat
    /\ LastTradeSlot \in Nat
    /\ FirstInvSlot < InvFull
    /\ InvFull < AnySlot

ASSUME BagAssumption == Bags \subseteq Nat \ 0..8

ASSUME StackAssumption == NoStack \notin Int

Stacks == Int \cup {NoStack}

Row == [id: Ids, kind: Kinds, stack: Stacks, parent: Nat, slot: Nat,
        children: Nat, owner: Toons]

VARIABLES
    items,   \* tItems as the application's connection reads it
    disk,    \* tItems as of the last commit
    txn,     \* a transaction is open on the connection
    depth    \* how often the GUI thread holds the recursive DBManager lock
             \* between two messages

session == <<items, disk, txn, depth>>

-----------------------------------------------------------------------------
(* Queries and updates.                                                    *)

Rows(db, o, p) == {r \in db : r.owner = o /\ r.parent = p}

Owned(db, o) == {r \in db : r.owner = o}

\* Mutant: the owner is forgotten.
RowsAtOfAnyone(db, o, p, s) == {r \in db : r.parent = p /\ r.slot = s}


RowsAt(db, o, p, s) == {r \in db : r.owner = o /\ r.parent = p /\ r.slot = s}

Move(db, R, p, s) ==
    (db \ R) \cup {[r EXCEPT !.parent = p, !.slot = s] : r \in R}

Minus(s, n) == IF s = NoStack THEN NoStack ELSE s - n
Plus(s, t)  == IF s = NoStack \/ t = NoStack THEN NoStack ELSE s + t

TakeFromStack(db, R, n) ==
    (db \ R) \cup {[r EXCEPT !.stack = Minus(r.stack, n)] : r \in R}

AddToStack(db, R, n) ==
    (db \ R) \cup {[r EXCEPT !.stack = Plus(r.stack, n)] : r \in R}

\* itemidx is AUTOINCREMENT; only its uniqueness matters to the handlers, so
\* free values are used again.
FreeIds(db) == Ids \ {r.id : r \in db}

Numberings(db, S) ==
    {f \in [S -> FreeIds(db)] : \A x, y \in S : f[x] = f[y] => x = y}

RoomFor(db, S) == Numberings(db, S) # {}

NewIds(db, S) == CHOOSE f \in [S -> FreeIds(db)] :
                    \A x, y \in S : f[x] = f[y] => x = y

Item(k, n, p, s, b, o) ==
    [kind |-> k, stack |-> n, parent |-> p, slot |-> s, children |-> b, owner |-> o]

InsertItems(db, S) ==
    db \cup {[id |-> NewIds(db, S)[c], kind |-> c.kind, stack |-> c.stack,
              parent |-> c.parent, slot |-> c.slot, children |-> c.children,
              owner |-> c.owner] : c \in S}

InsertItem(db, k, n, p, s, b, o) == InsertItems(db, {Item(k, n, p, s, b, o)})

Copies(db, R) == {[r EXCEPT !.id = NewIds(db, R)[r]] : r \in R}

-----------------------------------------------------------------------------
(* The slot searches.                                                      *)

\* Where the search begins.
FirstSlot(p) == IF p = INV_TOONINV THEN FirstInvSlot ELSE 0

\* Mutant: one less than the number of items, -1 for an empty container.
NextSlotByCount(db, o, p) ==
    FirstSlot(p) + Cardinality(Rows(db, o, p)) - 1

\* The slots in use are walked in order and compared with a counter: the
\* counter stops at n when at most n rows lie at or below its slot.
FindNextAvailableContainerSlot(db, o, p) ==
    LET first == FirstSlot(p)
        used  == {r \in Rows(db, o, p) : r.slot >= first}
        upTo(n) == Cardinality({r \in used : r.slot <= first + n})
    IN  IF used = {} THEN 0
        ELSE first + CHOOSE n \in 0..Cardinality(used) :
                        /\ upTo(n) <= n
                        /\ \A m \in 0..(n - 1) : upTo(m) > m

\* 0 stands for "no such item".
FindFirstItemOfSameType(db, o, p, s, q) ==
    LET same == {r.slot : r \in {t \in Rows(db, o, q) :
                            \E u \in RowsAt(db, o, p, s) : u.kind = t.kind}}
    IN  IF same = {} THEN 0 ELSE CHOOSE m \in same : \A n \in same : m <= n

-----------------------------------------------------------------------------
(* What a handler leaves behind.                                           *)

\* Lock, Begin, statements, Commit, UnLock.  A Begin inside an open
\* transaction fails unnoticed; its Commit then ends the open one.
Commit(db) ==
    /\ items' = db
    /\ disk' = db
    /\ txn' = FALSE
    /\ UNCHANGED depth

\* A statement sent without Begin.
Execute(db) ==
    /\ items' = db
    /\ disk' = IF txn THEN disk ELSE db
    /\ UNCHANGED <<txn, depth>>

\* Lock and Begin, then a return that skips Commit and UnLock.
Abandon ==
    /\ depth < MaxDepth
    /\ depth' = depth + 1
    /\ txn' = TRUE
    /\ UNCHANGED <<items, disk>>

SessionInit(db) ==
    /\ items = db
    /\ disk = db
    /\ txn = FALSE
    /\ depth = 0

-----------------------------------------------------------------------------
(* State predicates shared by the components.                              *)

\* The game has no inventory slot 0.
Named(p, s) == p = INV_TOONINV => s > 0

\* "Any slot", or a slot the table shows free.
Vacant(c, p, s) == s >= AnySlot \/ RowsAt(items, c, p, s) = {}

TableOK ==
    /\ items \subseteq Row
    /\ disk \subseteq Row
    /\ txn \in BOOLEAN
    /\ depth \in Nat

\* itemidx is a key of the table.
IdsDistinct(db) == \A r, s \in db : r.id = s.id => r = s

\* No two items of a character sit in the same slot of the same container,
\* whatever mixture of slots named by the game and slots found by
\* FindNextAvailableContainerSlot put them there.  Slot 0 of the inventory is
\* excepted: it is where the search puts an item of an empty inventory.
SlotsUnique ==
    \A r, s \in items :
        (/\ r.owner = s.owner
         /\ r.parent = s.parent
         /\ r.slot = s.slot
         /\ Named(r.parent, r.slot)) => r = s

\* Nothing is left behind in the container hot swaps go through, where no
\* later message would ever look for it.
NothingInHotswap == \A r \in items : r.parent # INV_HOTSWAPTEMP
=============================================================================
