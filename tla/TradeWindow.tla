---------------------------- MODULE TradeWindow ----------------------------
(***************************************************************************)
(* What the trade handlers of InventoryView share: items wait in a         *)
(* container of their own while they are offered, and loops over the slots *)
(* of a trade window carry them over to another container.                 *)
(***************************************************************************)
EXTENDS TempContainerCache

VARIABLE
    trading     \* the game's side: whom each character has a trade window open
                \* with, one of Partners

Partners == {"none", "npc", "player", "shop"}

TradesWith(c, partner) == trading' = [trading EXCEPT ![c] = partner]

\* Mutant: the item keeps its slot number.
MoveToSameSlot(c, from, s, p) == Commit(Move(items, RowsAt(items, c, from, s), p, s))

\* One item goes to the next free slot of container p.
MoveToFreeSlot(c, from, s, p) ==
    Commit(Move(items, RowsAt(items, c, from, s), p,
                FindNextAvailableContainerSlot(items, c, p)))

\* Mutant: the free slot is searched for once.
CarryOverToOne(db, c, owner, w, o, p, looks) ==
    LET slot == FindNextAvailableContainerSlot(db, c, p)
    IN  (db \ Rows(db, owner, w)) \cup
        {[r EXCEPT !.parent = p, !.slot = slot, !.owner = o] : r \in Rows(db, owner, w)}

\* Slot s of window w is carried over to o's container p, into the slot that is
\* the next free one for c.  Where the code looks at how much room there is, it
\* breaks off when the inventory is full: the rest stays in the window, the
\* table changes no more, and so neither does the slot.
CarrySlot(db, c, owner, w, s, o, p, looks) ==
    LET rows == RowsAt(db, owner, w, s)
        slot == FindNextAvailableContainerSlot(db, c, p)
    IN  IF looks /\ slot >= InvFull THEN db
        ELSE (db \ rows) \cup
             {[r EXCEPT !.parent = p, !.slot = slot, !.owner = o] : r \in rows}

\* The slots 0..LastTradeSlot of the window, lowest first.
CarryOver(db, c, owner, w, o, p, looks) ==
    LET after[n \in 0..(LastTradeSlot + 1)] ==
            IF n = 0 THEN db ELSE CarrySlot(after[n - 1], c, owner, w, n - 1, o, p, looks)
    IN  after[LastTradeSlot + 1]

\* The offered items go back to the inventory as long as it has room.
MoveBack(db, c) == CarryOver(db, c, c, INV_TRADE, c, INV_TOONINV, TRUE)

-----------------------------------------------------------------------------
(* The table as a ledger of items (TradeLedger).                           *)

Id(R) == {r.id : r \in R}

InBags(db, R) ==
    {r \in db : \E b \in R : b.children > 0 /\ r.parent = b.children /\ r.owner = b.owner}

OfferedRows(c) ==
    LET R == Rows(items, c, INV_TRADE) IN R \cup InBags(items, R)

IncomingRows(c) == Rows(items, c, INV_TRADEPARTNER)

HeldRows(c) == Owned(items, c) \ (OfferedRows(c) \cup IncomingRows(c))

Ledger ==
    INSTANCE TradeLedger WITH
        held     <- [c \in Toons |-> Id(HeldRows(c))],
        offered  <- [c \in Toons |-> Id(OfferedRows(c))],
        incoming <- [c \in Toons |-> Id(IncomingRows(c))]
=============================================================================
