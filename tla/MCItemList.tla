----------------------------- MODULE MCItemList -----------------------------
(* Two characters with an item, a backpack and what is in it.               *)
EXTENDS ItemList

MCRow(n, k, p, s, b, c) ==
    [id |-> n, thing |-> n, kind |-> k, parent |-> p, slot |-> s, children |-> b, owner |-> c]

MCPlaces == {<<Inventory, 47>>, <<11, 0>>}

\* The last and first slots of the panels.
MCEdges ==
    {{MCRow(1, 101, Inventory, s, 0, 1), MCRow(2, 102, Inventory, s + 1, 0, 1)} : s \in {15, 31, 46, 63}}

MCPacked == {MCRow(1, 101, 11, 0, 0, 1), MCRow(2, 102, Inventory, 64, 11, 1)}

\* Sessions of the user while messages come, messages only, a backpack
\* renamed, and the edges of the panels.
MCStart(t, b) == [items |-> t, lastId |-> 2, left |-> b]

MCStarts ==
    {MCStart(MCPacked, b) : b \in {<<2, 0, 3>>, <<0, 0, 4>>, <<1, 3, 0>>}}
    \cup {MCStart(t, <<0, 0, 1>>) : t \in MCEdges}

MCArrivals == {<<1, 101, 0>>, <<2, 102, 11>>}

MCTexts == {{}, {101}}
=============================================================================
