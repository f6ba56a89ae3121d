------------------------------ MODULE MCTrades ------------------------------
(* One character; the table a session starts from says whom it deals with:  *)
(* an NPC, a player, a shop that may be its own, or all three in turn.      *)
EXTENDS Trades

CONSTANTS ann, bar, ring, pack

MCBags == {9, 10}

MCRow(n, k, p, s, b) ==
    [id |-> n, kind |-> k, stack |-> 1, parent |-> p, slot |-> s,
     children |-> b, owner |-> ann]

\* Four items, two of them identical, in the inventory and in a backpack.
MCGiven ==
    {MCRow(1, bar, INV_TOONINV, 2, 0), MCRow(2, ring, INV_TOONINV, 3, 0),
     MCRow(3, bar, 9, 0, 0), MCRow(4, pack, 9, 1, 0)}

\* A filled backpack and a single item.
MCPacked ==
    {MCRow(1, pack, INV_TOONINV, 2, 9), MCRow(2, bar, 9, 0, 0), MCRow(3, bar, INV_TOONINV, 3, 0)}

MCOne == {MCRow(1, bar, INV_TOONINV, 2, 0)}

\* One item, for a session with NPCs and players.
MCSocial == {MCRow(1, ring, INV_TOONINV, 2, 0)}

MCLoadouts == {MCGiven, MCPacked, MCOne, MCSocial}

MCMeetings ==
    [db \in MCLoadouts |-> CASE db = MCGiven -> {"npc"}
                             [] db = MCPacked -> {"player"}
                             [] db = MCOne -> {"shop"}
                             [] db = MCSocial -> {"npc", "player"}]

MCOpenBags == {[c \in Toons |-> [t \in TempIds |-> 9]]}

MCStocks == {{[kind |-> ring, slot |-> 0]},
             {[kind |-> ring, slot |-> 0], [kind |-> bar, slot |-> 1]}}
=============================================================================
