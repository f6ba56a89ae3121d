----------------------------- MODULE ItemMoves -----------------------------
(***************************************************************************)
(* The InventoryView handlers that move, split, join, use, delete and      *)
(* create single items: MSG_ITEM_MOVE, the stack and delete operations of  *)
(* MSG_CHAR_OPERATION (from the client and from the server), the two       *)
(* operations of MSG_PARTNER_TRADE that are about one's own items, and     *)
(* MSG_SPAWN_REWARD.                                                       *)
(*                                                                         *)
(* One action is one message, handled from start to end: the messages of   *)
(* all game clients reach the GUI thread one at a time.                    *)
(***************************************************************************)
EXTENDS TempContainerCache, FiniteSetsExt

CONSTANTS
    Stackable,      \* kinds the game data marks as stackable and splittable
    Depletable,     \* kinds the game data marks as used up
    Targets,        \* the to types move messages name
    MaxStack        \* bound: the largest stack of a row

ASSUME KindAssumption == Stackable \subseteq Kinds /\ Depletable \subseteq Kinds

ToTypes == {"backpack", "bank", "inventory", "overflow", "unknown"}

ASSUME MoveAssumption == Targets \subseteq ToTypes /\ MaxStack \in Nat

\* The bound on stacks.
Bounded(db) == \A r \in db : r.stack \in (0..MaxStack) \cup {NoStack}

-----------------------------------------------------------------------------
(* MSG_ITEM_MOVE, from the server.                                         *)

NewParent(from, to, b) ==
    CASE from = INV_OVERFLOW -> INV_TOONINV
      [] from # INV_OVERFLOW /\ to = "backpack"  -> b
      [] from # INV_OVERFLOW /\ to = "bank"      -> INV_BANK
      [] from # INV_OVERFLOW /\ to = "inventory" -> INV_TOONINV
      [] from # INV_OVERFLOW /\ to = "overflow"  -> INV_OVERFLOW
      [] OTHER -> 0

\* Mutant: the last update looks for the slot the item came from.
HotswapHalf(db, c, from, s, n) ==
    LET out == Move(db, RowsAt(db, c, INV_TOONINV, n), INV_HOTSWAPTEMP, s)
        put == Move(out, RowsAt(out, c, from, s), INV_TOONINV, n)
    IN  Move(put, RowsAt(put, c, INV_HOTSWAPTEMP, n), from, s)

\* What sits on the equip slot goes by way of a container of its own to the
\* place the new item comes from.
Hotswap(db, c, from, s, n) ==
    LET out == Move(db, RowsAt(db, c, INV_TOONINV, n), INV_HOTSWAPTEMP, s)
        put == Move(out, RowsAt(out, c, from, s), INV_TOONINV, n)
    IN  Move(put, RowsAt(put, c, INV_HOTSWAPTEMP, s), from, s)

\* The result of a scalar subquery for a stack: NULL where there is no row.
StackAt(db, c, p, s) ==
    LET R == RowsAt(db, c, p, s)
    IN  IF R = {} THEN {NoStack} ELSE {r.stack : r \in R}

\* Adds the stack at (q, t) to the item at (p, s) and deletes the former.
JoinInto(db, c, p, s, q, t, n) ==
    LET joined == AddToStack(db, RowsAt(db, c, p, s), n)
    IN  joined \ RowsAt(joined, c, q, t)

\* GetItemProperties looks at one row of the slot.
IsStackable(c, from, s) == \E r \in RowsAt(items, c, from, s) : r.kind \in Stackable

IsSingle(c, from, s) ==
    \/ RowsAt(items, c, from, s) = {}
    \/ \E r \in RowsAt(items, c, from, s) : r.kind \notin Stackable

EquipMove(c, from, s, n) ==
    /\ n < FirstInvSlot
    /\ Commit(Hotswap(items, c, from, s, n))

\* The item is merged with the item of its kind in the lowest slot.
MergeMove(c, from, s, n) ==
    LET first == FindFirstItemOfSameType(items, c, from, s, INV_TOONINV) IN
    /\ n >= AnySlot
    /\ IsStackable(c, from, s)
    /\ first > 0
    /\ \E m \in StackAt(items, c, from, s) :
          Commit(JoinInto(items, c, INV_TOONINV, first, from, s, m))

NoMerge(c, from, s, p, n) ==
    \/ p # INV_TOONINV
    \/ /\ n >= FirstInvSlot
       /\ \/ n < AnySlot
          \/ IsSingle(c, from, s)
          \/ FindFirstItemOfSameType(items, c, from, s, p) = 0

PlainMove(c, from, s, p, n) ==
    LET slot == IF n >= AnySlot \/ n = 0
                THEN FindNextAvailableContainerSlot(items, c, p)
                ELSE n
    IN  /\ NoMerge(c, from, s, p, n)
        /\ Commit(Move(items, RowsAt(items, c, from, s), p, slot))

ItemMove(c, type, t, s, to, b, n) ==
    LET from == GetFromContainerId(c, type, t)
        p    == NewParent(from, to, b)
    IN  /\ p # 0
        /\ from # 0
        /\ \/ p = INV_TOONINV /\ EquipMove(c, from, s, n)
           \/ p = INV_TOONINV /\ MergeMove(c, from, s, n)
           \/ PlainMove(c, from, s, p, n)
        /\ UNCHANGED caches

-----------------------------------------------------------------------------
(* MSG_CHAR_OPERATION.                                                     *)

\* Mutant: the old stack keeps what is split off.
SplitStackTwice(c, type, t, s, n) ==
    LET from == GetFromContainerId(c, type, t)
        slot == FindNextAvailableContainerSlot(items, c, from)
        new  == {[r EXCEPT !.stack = n, !.slot = slot] : r \in RowsAt(items, c, from, s)}
    IN  /\ from # 0
        /\ RoomFor(items, new)
        /\ Commit(items \cup Copies(items, new))
        /\ UNCHANGED caches

\* The new row gets the split-off count, the old one keeps the rest.
SplitStack(c, type, t, s, n) ==
    LET from  == GetFromContainerId(c, type, t)
        slot  == FindNextAvailableContainerSlot(items, c, from)
        new   == {[r EXCEPT !.stack = n, !.slot = slot] : r \in RowsAt(items, c, from, s)}
        split == items \cup Copies(items, new)
    IN  /\ IF from = 0
           THEN Abandon
           ELSE /\ RoomFor(items, new)
                /\ Commit(TakeFromStack(split, RowsAt(split, c, from, s), n))
        /\ UNCHANGED caches

\* The client's delete names the item's key, the server's only the slot.
ClientDeleteItem(c, type, t, s, k) ==
    LET from == GetFromContainerId(c, type, t) IN
    /\ IF from = 0
       THEN Abandon
       ELSE Commit(items \ {r \in RowsAt(items, c, from, s) : r.kind = k})
    /\ UNCHANGED caches

ServerDeleteItem(c, type, t, s) ==
    LET from == GetFromContainerId(c, type, t) IN
    /\ IF from = 0
       THEN Abandon
       ELSE Commit(items \ RowsAt(items, c, from, s))
    /\ UNCHANGED caches

\* A quest item goes; only its temporary id is sent.
DeleteTempItem(c, t) ==
    LET slot == GetItemSlotId(c, t) IN
    /\ slot > 0
    /\ Execute(items \ RowsAt(items, c, INV_TOONINV, slot))
    /\ UNCHANGED caches

\* The stack at (type2, t2, s2) is joined to the one at (type, t, s).
JoinStacks(c, type, t, s, type2, t2, s2) ==
    LET removed == GetFromContainerId(c, type2, t2)
        from    == GetFromContainerId(c, type, t)
    IN  /\ from # 0
        /\ \E n \in StackAt(items, c, removed, s2) :
              Commit(JoinInto(items, c, from, s, removed, s2, n))
        /\ UNCHANGED caches

-----------------------------------------------------------------------------
(* MSG_PARTNER_TRADE operations 0x57 and 0x03.                             *)

\* A tradeskill result goes to the overflow window.
TradeskillResult(c, k, n, s) ==
    LET slot == IF s >= AnySlot
                THEN FindNextAvailableContainerSlot(items, c, INV_OVERFLOW)
                ELSE s
        new  == Item(k, n, INV_OVERFLOW, slot, 0, c)
    IN  /\ RoomFor(items, {new})
        /\ Commit(InsertItems(items, {new}))
        /\ UNCHANGED caches

\* Mutant: the statements are sent without Begin and Commit.
UseItemUncommitted(c, type, t, s, k) ==
    LET from == GetFromContainerId(c, type, t)
        used(db) == {r \in RowsAt(db, c, from, s) : r.kind = k /\ k \in Depletable}
        less == TakeFromStack(items, used(items), 1)
    IN  /\ Execute(less \ {r \in used(less) : r.stack = 0})
        /\ UNCHANGED caches

\* An item is used: a depletable one loses one, the last one is deleted.
UseItem(c, type, t, s, k) ==
    LET from == GetFromContainerId(c, type, t)
        used(db) == {r \in RowsAt(db, c, from, s) : r.kind = k /\ k \in Depletable}
        less == TakeFromStack(items, used(items), 1)
    IN  /\ Commit(less \ {r \in used(less) : r.stack = 0})
        /\ UNCHANGED caches

-----------------------------------------------------------------------------
(* MSG_SPAWN_REWARD.                                                       *)

\* 0x01: the temporary id of an item after zoning.
NameTempItem(c, t, s) ==
    /\ UpdateTempItemId(c, t, s)
    /\ UNCHANGED <<session, containerIdCache>>

\* 0x71: a mission item appears in the overflow window; the slot the next
\* message will move it to is remembered under its temporary id.
SpawnReward(c, t, k, s) ==
    LET slot == IF s >= AnySlot
                THEN FindNextAvailableContainerSlot(items, c, INV_OVERFLOW)
                ELSE s
        new  == Item(k, 1, INV_OVERFLOW, slot, 0, c)
        db   == InsertItems(items, {new})
    IN  /\ RoomFor(items, {new})
        /\ Commit(db)
        /\ UpdateTempItemId(c, t,
              IF s >= AnySlot
              THEN FindNextAvailableContainerSlot(db, c, INV_TOONINV)
              ELSE s)
        /\ UNCHANGED containerIdCache

-----------------------------------------------------------------------------
(* The messages that arrive.  The game moves an item into a slot it names   *)
(* only if that slot is free (equip slots excepted), and it splits and     *)
(* joins stacks that can be split and joined.                              *)

FreeFor(c, p, n) ==
    /\ Named(p, n)
    /\ \/ Vacant(c, p, n)
       \/ n = 0
       \/ p = INV_TOONINV /\ n < FirstInvSlot

SplitsOff(c, p, s, n) ==
    \A r \in RowsAt(items, c, p, s) : r.stack # NoStack => n < r.stack

Joinable(c, p, s, q, t) ==
    /\ <<p, s>> # <<q, t>>
    /\ \A r \in RowsAt(items, c, p, s), u \in RowsAt(items, c, q, t) : r.kind = u.kind

Moves(c, type, t, s, to, b, n) ==
    LET from == GetFromContainerId(c, type, t)
    IN  /\ Named(from, s)
        /\ FreeFor(c, NewParent(from, to, b), n)
        /\ ItemMove(c, type, t, s, to, b, n)

MoveMessage(c) ==
    \E type \in Types, t \in TempIds, s \in Slots,
       to \in Targets, b \in Bags, n \in Slots : Moves(c, type, t, s, to, b, n)

Splits(c, type, t, s, n) ==
    LET from == GetFromContainerId(c, type, t)
    IN  /\ Named(from, s)
        /\ SplitsOff(c, from, s, n)
        /\ SplitStack(c, type, t, s, n)

SplitMessage(c) ==
    \E type \in Types, t \in TempIds, s \in Slots, n \in 1..MaxStack :
        Splits(c, type, t, s, n)

DeleteMessage(c) ==
    \E type \in Types, t \in TempIds, s \in Slots :
        /\ Named(GetFromContainerId(c, type, t), s)
        /\ \/ \E k \in Kinds : ClientDeleteItem(c, type, t, s, k)
           \/ ServerDeleteItem(c, type, t, s)

DeleteTempMessage(c) == \E t \in TempItemIds : DeleteTempItem(c, t)

Joins(c, type, t, s, type2, t2, s2) ==
    LET p == GetFromContainerId(c, type, t)
        q == GetFromContainerId(c, type2, t2)
    IN  /\ Named(p, s)
        /\ Named(q, s2)
        /\ Joinable(c, p, s, q, s2)
        /\ JoinStacks(c, type, t, s, type2, t2, s2)

JoinMessage(c) ==
    \E type \in Types, t \in TempIds, s \in Slots,
       type2 \in Types, t2 \in TempIds, s2 \in Slots : Joins(c, type, t, s, type2, t2, s2)

TradeskillMessage(c) ==
    \E k \in Kinds, n \in 1..MaxStack, s \in Slots :
        /\ Vacant(c, INV_OVERFLOW, s)
        /\ TradeskillResult(c, k, n, s)

UseMessage(c) ==
    \E type \in Types, t \in TempIds, s \in Slots, k \in Kinds :
        /\ Named(GetFromContainerId(c, type, t), s)
        /\ UseItem(c, type, t, s, k)

RewardMessage(c) ==
    \E t \in TempItemIds, s \in Slots :
        /\ Named(INV_TOONINV, s)
        /\ \/ NameTempItem(c, t, s)
           \/ \E k \in Kinds :
                 /\ Vacant(c, INV_OVERFLOW, s)
                 /\ SpawnReward(c, t, k, s)

Message(c) ==
    \/ MoveMessage(c)
    \/ SplitMessage(c)
    \/ DeleteMessage(c)
    \/ DeleteTempMessage(c)
    \/ JoinMessage(c)
    \/ TradeskillMessage(c)
    \/ UseMessage(c)
    \/ RewardMessage(c)

Init == Start

Next == \E c \in Toons : Message(c) /\ Bounded(items')

Spec == Init /\ [][Next]_vars

-----------------------------------------------------------------------------
(* Properties.                                                             *)

\* Every variable has its type.
TypeOK == TableOK /\ CachesOK

\* A message changes the rows of one character at most, although all have the
\* same container and slot numbers.
MovesStayWithToon ==
    [][\A c, o \in Toons :
          \/ c = o
          \/ Owned(items', c) = Owned(items, c)
          \/ Owned(items', o) = Owned(items, o)]_vars

\* What the window shows survives a crash.  A transaction that a handler left
\* open (InventoryView.cpp:820) holds back no more than the deletion of a quest
\* item, which a restart brings back into the inventory.
ShownSurvives ==
    /\ items \subseteq disk
    /\ \A r \in disk \ items : r.parent = INV_TOONINV

\* How many items are in some rows, all stacks together.
Stock(R) == MapThenSumSet(LAMBDA r : r.stack, R)

\* What a character has of a kind, how many that is, and whether it is known: a
\* NULL is not a number.
Held(db, c, k) == {r \in Owned(db, c) : r.kind = k}

Total(db, c, k) == Stock(Held(db, c, k))

Counted(db, c, k) == \A r \in Held(db, c, k) : r.stack # NoStack

\* The character has the same rows, or as many in others.
Keeps(c, k) ==
    \/ Held(items', c, k) = Held(items, c, k)
    \/ Counted(items, c, k) => /\ Counted(items', c, k)
                               /\ Total(items', c, k) = Total(items, c, k)

HasAt(c, p, s, k) == \E r \in RowsAt(items, c, p, s) : r.kind = k

\* "Any slot" of the inventory is asked for a stack that is in the inventory, in
\* the lowest slot of its kind.  FindFirstItemOfSameType (DBManager.cpp:487) does
\* not leave out the stack that moves: it is added to itself and deleted.
MergesWithItself(c, from, s, p, n) ==
    /\ from = INV_TOONINV
    /\ p = INV_TOONINV
    /\ n >= AnySlot
    /\ IsStackable(c, from, s)
    /\ FindFirstItemOfSameType(items, c, from, s, p) = s

\* The message names an item the table has.
Known(c, type, t, s) == RowsAt(items, c, GetFromContainerId(c, type, t), s) # {}

\* The ways to rearrange items.  Not among them are moves that merge a stack of
\* kind k with itself, and joins of which the table has one stack at most, as when
\* the other is in a container that is not cached: what there is becomes NULL
\* (InventoryView.cpp:1155) or is deleted.
MovesKind(c, k) ==
    \E type \in Types, t \in TempIds, s \in Slots :
        /\ Known(c, type, t, s)
        /\ \E to \in Targets, b \in Bags, n \in Slots :
              LET from == GetFromContainerId(c, type, t)
              IN  /\ Moves(c, type, t, s, to, b, n)
                  /\ HasAt(c, from, s, k) =>
                        ~ MergesWithItself(c, from, s, NewParent(from, to, b), n)

SplitsKnown(c) ==
    \E type \in Types, t \in TempIds, s \in Slots :
        /\ Known(c, type, t, s)
        /\ \E n \in 1..MaxStack : Splits(c, type, t, s, n)

JoinsKnown(c) ==
    \E type \in Types, t \in TempIds, s \in Slots :
        /\ Known(c, type, t, s)
        /\ \E type2 \in Types, t2 \in TempIds, s2 \in Slots :
              /\ Known(c, type2, t2, s2)
              /\ Joins(c, type, t, s, type2, t2, s2)

\* A message that changes how many of a kind a character has, or loses count of
\* them, has not merely moved, swapped, merged, split or joined what is there: that
\* changes where things are, never how many of a kind the character has.
StacksConserved ==
    [][\A c \in Toons, k \in Kinds :
          ~ Keeps(c, k) => ~ (MovesKind(c, k) \/ SplitsKnown(c) \/ JoinsKnown(c))]_vars
=============================================================================
