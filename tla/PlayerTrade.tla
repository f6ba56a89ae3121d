---------------------------- MODULE PlayerTrade ----------------------------
(***************************************************************************)
(* A trade with another player or with a shop terminal: the operations of  *)
(* MSG_SHOP_TRANSACTION that are not about player shops, the partner's     *)
(* offers in MSG_PARTNER_TRADE, and MSG_ITEM_BOUGHT.                       *)
(***************************************************************************)
EXTENDS TradeWindow

CONSTANTS
    Template,       \* the kind every backpack of a partner is stored as
    Traded,         \* bound: the kinds that partners and shops offer
    MaxStack        \* bound: the largest stack offered

ASSUME TemplateAssumption == Template \in Kinds /\ Traded \subseteq Kinds

Windows(db, c) == Rows(db, c, INV_TRADE) \cup Rows(db, c, INV_TRADEPARTNER)

-----------------------------------------------------------------------------
(* MSG_SHOP_TRANSACTION.                                                   *)

\* 0x00: a trade starts; what an earlier one left in the windows is deleted.
StartTrade(c) ==
    /\ Commit(items \ Windows(items, c))
    /\ UNCHANGED caches

\* Mutants: the partner's window is not emptied; mine is emptied as well.
DeclineMine(c) ==
    /\ Commit(MoveBack(items, c))
    /\ UNCHANGED caches

DeclineAll(c) ==
    /\ Commit(items \ Windows(items, c))
    /\ UNCHANGED caches

\* 0x02: declined or cancelled.
Decline(c) ==
    LET back == MoveBack(items, c)
    IN  /\ Commit(back \ Rows(back, c, INV_TRADEPARTNER))
        /\ UNCHANGED caches

\* Mutant: what the backpacks contain stays.
CommitTradeOuter(c) ==
    /\ Commit(CarryOver(items \ Rows(items, c, INV_TRADE), c, c, INV_TRADEPARTNER, c, INV_TOONINV, FALSE))
    /\ UNCHANGED caches

\* 0x04: committed.  My items go, with what my backpacks contain, and the
\* partner's come in, without a look at how much room there is.
CommitTrade(c) ==
    LET filled  == {r.children : r \in {b \in Rows(items, c, INV_TRADE) : b.children > 0}}
        emptied == items \ {r \in Owned(items, c) : r.parent \in filled}
        gone    == emptied \ Rows(emptied, c, INV_TRADE)
    IN  /\ Commit(CarryOver(gone, c, c, INV_TRADEPARTNER, c, INV_TOONINV, FALSE))
        /\ UNCHANGED caches

\* 0x05: one of my items is added.
AddItem(c, type, t, s) ==
    /\ MoveToFreeSlot(c, GetFromContainerId(c, type, t), s, INV_TRADE)
    /\ UNCHANGED caches

\* 0x06: one of my items is taken back.
RemoveItem(c, s) ==
    /\ MoveToFreeSlot(c, INV_TRADE, s, INV_TOONINV)
    /\ UNCHANGED caches

\* An item that is new to the table goes to the next free slot of container p.
InsertNew(c, k, n, p, b) ==
    LET new == Item(k, n, p, FindNextAvailableContainerSlot(items, c, p), b, c)
    IN  /\ RoomFor(items, {new})
        /\ Commit(InsertItems(items, {new}))
        /\ UNCHANGED caches

\* 0x08: the partner adds a backpack.
PartnerAddsBackpack(c, b) == InsertNew(c, Template, 1, INV_TRADEPARTNER, b)

\* 0x09: the partner takes it back; it is found by its container id.
PartnerRemovesBackpack(c, b) ==
    /\ Commit(items \ {r \in Rows(items, c, INV_TRADEPARTNER) : r.children = b})
    /\ UNCHANGED caches

-----------------------------------------------------------------------------
(* MSG_PARTNER_TRADE and MSG_ITEM_BOUGHT.                                  *)

\* 0x55.
PartnerAddsItem(c, k, n) == InsertNew(c, k, n, INV_TRADEPARTNER, 0)

\* 0x56.
PartnerRemovesItem(c, s) ==
    /\ Commit(items \ RowsAt(items, c, INV_TRADEPARTNER, s))
    /\ UNCHANGED caches

ItemBought(c, k, n) == InsertNew(c, k, n, INV_TOONINV, 0)

-----------------------------------------------------------------------------
(* The messages that arrive: a trade starts, items are added and taken     *)
(* back on both sides, and the trade ends one way or the other.            *)

Starts(c, partner) ==
    /\ trading[c] = "none"
    /\ StartTrade(c)
    /\ TradesWith(c, partner)

Ends(c) ==
    /\ Decline(c) \/ CommitTrade(c)
    /\ TradesWith(c, "none")

\* An item is offered from a container that has it, or taken back.
Offers(c) ==
    /\ \/ \E type \in Types \ {"trade"}, t \in TempIds, s \in Slots :
             /\ Named(GetFromContainerId(c, type, t), s)
             /\ AddItem(c, type, t, s)
       \/ \E s \in Slots : RemoveItem(c, s)
    /\ UNCHANGED trading

NewBags == Bags \ {r.children : r \in items}

PartnerOffers(c) ==
    /\ \/ \E k \in Traded, n \in 1..MaxStack : PartnerAddsItem(c, k, n)
       \/ \E s \in Slots : PartnerRemovesItem(c, s)
       \/ \E b \in NewBags : PartnerAddsBackpack(c, b)
       \/ \E b \in Bags : PartnerRemovesBackpack(c, b)
    /\ UNCHANGED trading

Buys(c) ==
    /\ \E k \in Traded, n \in 1..MaxStack : ItemBought(c, k, n)
    /\ UNCHANGED trading

PlayerMessage(c) ==
    \/ Starts(c, "player")
    \/ trading[c] = "player" /\ (Ends(c) \/ Offers(c) \/ PartnerOffers(c))
    \/ Buys(c)
=============================================================================
