----------------------------- MODULE PlayerShop -----------------------------
(***************************************************************************)
(* Player shops: which character a shop belongs to (tToons: MSG_MOB_SYNC,  *)
(* MSG_SHOP_INFO), what is in it (MSG_SHOP_ITEMS), and the operations of   *)
(* MSG_SHOP_TRANSACTION that buy from it.  A bought item is first copied   *)
(* to the trade partner's window; the original goes when the trade is      *)
(* committed.                                                              *)
(***************************************************************************)
EXTENDS PlayerTrade

CONSTANTS
    Shops,          \* shop ids
    Stocks          \* what shops offer: sets of [kind, slot]

ASSUME ShopAssumption ==
    /\ Shops \subseteq Nat \ {0}
    /\ \A stock \in Stocks :
          /\ IsFiniteSet(stock) /\ stock \subseteq [kind : Kinds, slot : Nat]
          /\ \A i, j \in stock : i.slot = j.slot => i = j

VARIABLES
    named,          \* the characters with a row in tToons
    shopid,         \* the shopid column of that row, 0 for none
    visiting        \* the game's side: the shop a character trades in

shops == <<named, shopid>>

-----------------------------------------------------------------------------
(* tToons.                                                                 *)

\* INSERT OR REPLACE of id and name: the other columns get their defaults.
SetToonName(c) ==
    /\ named' = named \cup {c}
    /\ shopid' = [shopid EXCEPT ![c] = 0]
    /\ Commit(items)

MobSync(c) == SetToonName(c) /\ UNCHANGED caches

\* A character without a row gets none.
ShopInfo(c, shop) ==
    /\ shopid' = IF c \in named THEN [shopid EXCEPT ![c] = shop] ELSE shopid
    /\ UNCHANGED named
    /\ Commit(items)
    /\ UNCHANGED caches

\* The owner and the container of a shop, as a trade of c sees them: an
\* unknown shop's stock is kept with c itself.
ShopFor(c, shop) ==
    LET owners == {o \in named : shopid[o] = shop}
    IN  IF owners = {} THEN {[owner |-> c, container |-> INV_OTHER_PLAYERSHOP]}
        ELSE {[owner |-> o, container |-> INV_PLAYERSHOP] : o \in owners}

-----------------------------------------------------------------------------
(* The stock, and buying from it.                                          *)

\* Every update is a complete one.
ShopItems(c, shop, stock) ==
    \E x \in ShopFor(c, shop) :
        LET old == Rows(items, x.owner, x.container)
            new == {Item(i.kind, 1, x.container, i.slot, 0, x.owner) : i \in stock}
        IN  /\ RoomFor(items \ old, new)
            /\ Commit(InsertItems(items \ old, new))
            /\ UNCHANGED <<caches, shops>>

\* 0x05: an item of the shop is copied to the window, under its slot number.
AddShopItem(c, shop, s) ==
    \E x \in ShopFor(c, shop) :
        LET copy == {[r EXCEPT !.parent = INV_TRADEPARTNER, !.owner = c] :
                        r \in RowsAt(items, x.owner, x.container, s)}
        IN  /\ RoomFor(items, copy)
            /\ Commit(items \cup Copies(items, copy))
            /\ UNCHANGED <<caches, shops>>

\* 0x06: the copy is deleted.
RemoveShopItem(c, s) ==
    /\ Commit(items \ RowsAt(items, c, INV_TRADEPARTNER, s))
    /\ UNCHANGED <<caches, shops>>

\* Mutant: the originals stay.
CommitShopCopies(c, shop) ==
    /\ \E x \in ShopFor(c, shop) :
          LET mine == CarryOver(items, c, x.owner, INV_TRADEPARTNER, c, INV_TOONINV, FALSE)
          IN  Commit(CarryOver(mine, c, c, INV_TRADE, x.owner, x.container, FALSE))
    /\ UNCHANGED <<caches, shops>>

\* 0x04: the originals go, the copies come in, and what I put into the window
\* goes to the shop.
CommitShopTrade(c, shop) ==
    \E x \in ShopFor(c, shop) :
        LET taken == {r.slot : r \in Rows(items, c, INV_TRADEPARTNER)}
            sold  == items \ {r \in Rows(items, x.owner, x.container) : r.slot \in taken}
            mine  == CarryOver(sold, c, x.owner, INV_TRADEPARTNER, c, INV_TOONINV, FALSE)
        IN  /\ Commit(CarryOver(mine, c, c, INV_TRADE, x.owner, x.container, FALSE))
            /\ UNCHANGED <<caches, shops>>

-----------------------------------------------------------------------------
(* The messages that arrive: a character enters a shop, chooses from its   *)
(* stock, adds things of its own, and ends the trade one way or the other. *)

Enters(c) ==
    /\ Starts(c, "shop")
    /\ \E shop \in Shops : visiting' = [visiting EXCEPT ![c] = shop]
    /\ UNCHANGED shops

Chooses(c) ==
    /\ trading[c] = "shop"
    /\ \E s \in Slots :
          \/ RowsAt(items, c, INV_TRADEPARTNER, s) = {} /\ AddShopItem(c, visiting[c], s)
          \/ RemoveShopItem(c, s)
    /\ UNCHANGED <<trading, visiting>>

AddsOwn(c) ==
    /\ trading[c] = "shop"
    /\ Offers(c)
    /\ UNCHANGED <<visiting, shops>>

Leaves(c) ==
    /\ trading[c] = "shop"
    /\ CommitShopTrade(c, visiting[c]) \/ (Decline(c) /\ UNCHANGED shops)
    /\ TradesWith(c, "none")
    /\ visiting' = [visiting EXCEPT ![c] = 0]

\* The stock and the owner of a shop are told outside a trade.
Learns(c) ==
    /\ \A o \in Toons : trading[o] = "none"
    /\ \/ MobSync(c)
       \/ \E shop \in Shops :
             \/ ShopInfo(c, shop)
             \/ \E stock \in Stocks : ShopItems(c, shop, stock)
    /\ UNCHANGED <<trading, visiting>>

ShopMessage(c) == Enters(c) \/ Chooses(c) \/ AddsOwn(c) \/ Leaves(c) \/ Learns(c)

ShopsInit ==
    /\ visiting = [c \in Toons |-> 0]
    /\ named = {}
    /\ shopid = [c \in Toons |-> 0]
=============================================================================
