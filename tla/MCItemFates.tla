---------------------------- MODULE MCItemFates ----------------------------
(* One character with an item in the inventory and one in a backpack.        *)
EXTENDS ItemFates

CONSTANTS ann, bar, ring

MCBags == {9}

MCRow(i, k, p, s) ==
    [id |-> i, kind |-> k, stack |-> 1, parent |-> p, slot |-> s,
     children |-> 0, owner |-> ann]

\* One item in the inventory and one in the backpack.
MCLoadouts == {{MCRow(1, bar, INV_TOONINV, 2), MCRow(2, ring, 9, 0)}}

MCOpenBags == {[c \in Toons |-> [t \in TempIds |-> 9]]}
=============================================================================
