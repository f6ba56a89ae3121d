------------------------------- MODULE Trades -------------------------------
(***************************************************************************)
(* The trades of one session: with NPCs, with players and shop terminals,  *)
(* and with player shops.  They go through the same two windows, which the *)
(* start of a trade empties, so that what one trade leaves in a window the *)
(* next one destroys.                                                      *)
(***************************************************************************)
EXTENDS NpcTrade, PlayerShop

CONSTANT
    Meetings        \* the partners met in a session, by the table it starts from

ASSUME MeetingsAssumption == Meetings \in [Loadouts -> SUBSET (Partners \ {"none"})]

VARIABLE
    meets           \* the partners met in this session

tradeVars == <<vars, trading, deal, shops, visiting, meets>>

TradesInit ==
    /\ Start
    /\ meets = Meetings[items]
    /\ trading = [c \in Toons |-> "none"]
    /\ deal = NoDeal
    /\ ShopsInit

NpcStep(c) ==
    /\ "npc" \in meets
    /\ NpcMessage(c)
    /\ UNCHANGED <<shops, visiting, meets>>

PlayerStep(c) ==
    /\ "player" \in meets
    /\ PlayerMessage(c)
    /\ deal' = NoDeal
    /\ UNCHANGED <<shops, visiting, meets>>

ShopStep(c) ==
    /\ "shop" \in meets
    /\ ShopMessage(c)
    /\ deal' = NoDeal
    /\ UNCHANGED meets

TradesNext == \E c \in Toons : NpcStep(c) \/ PlayerStep(c) \/ ShopStep(c)

TradesSpec == TradesInit /\ [][TradesNext]_tradeVars

-----------------------------------------------------------------------------
(* Properties.                                                             *)

EndsTrade(c, partner) == trading[c] = partner /\ trading'[c] = "none"

\* A step in a session without this partner.
AllBut(partner) == partner \notin meets

\* The table keeps a ledger of every trade with an NPC or a player: what was
\* offered leaves only when the trade is settled, and all of it comes back
\* when an NPC's window is closed without a deal.
LedgerKept ==
    /\ Ledger!LedgerInit
    /\ [][AllBut("shop") => Ledger!LedgerNext \/ UNCHANGED Ledger!books]_tradeVars
    /\ [][AllBut("shop") =>
             \A c \in Toons : EndsTrade(c, "npc") /\ deal' = NoDeal => Ledger!CallOff(c)
          ]_tradeVars

\* "move rejected stuff back to inv" (InventoryView.cpp:985): an item the NPC
\* rejects is still in the table after the deal.
RejectedComesBack == deal.rejected \subseteq Id(items)

\* "and delete the stuff I gave away" (InventoryView.cpp:1027): an item the NPC
\* keeps is no longer in the table after the deal.
KeptIsGone == deal.kept \cap Id(items) = {}

\* Between trades of whatever kind the windows are empty: there is nothing the
\* start of the next trade could delete.
WindowsEmpty == \A c \in Toons : trading[c] = "none" => Windows(items, c) = {}

\* What is in a backpack goes where the backpack goes: after trades with players
\* nothing is in a backpack that its owner does not have.  (What is in a backpack
\* given to an NPC, or put into a player shop, stays until the next clean-up.)
NoOrphans ==
    meets \subseteq {"player"} =>
        \A r \in items : r.parent \in Bags =>
            \E b \in Owned(items, r.owner) : b.children = r.parent

Count(R, k) == Cardinality({r \in R : r.kind = k})

\* A purchase neither loses nor doubles anything: when a trade with a shop of
\* one's own, or of an unknown owner, ends, there is one item of a kind for
\* every item before it, the copies in the window not counted.
SaleConserves ==
    [][\A c \in Toons, k \in Kinds : EndsTrade(c, "shop") =>
          Count(items', k) = Count(items \ IncomingRows(c), k)]_tradeVars
=============================================================================
