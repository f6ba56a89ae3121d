---------------------------- MODULE MCItemMoves ----------------------------
(* Small instances of ItemMoves: two characters with items in the same      *)
(* slots of the same containers, and a backpack whose temporary id is known *)
(* for one of them only.                                                    *)
EXTENDS ItemMoves, SlotSearch

CONSTANTS
    ann, bob, bar, ring,
    MaxMessages     \* bound: the length of a session

VARIABLE heard      \* messages handled so far

MCInit == Init /\ heard = 0

MCNext == heard < MaxMessages /\ Next /\ heard' = heard + 1

MCSpec == MCInit /\ [][MCNext]_<<vars, heard>>

\* Container id 9 is the first that is not a container of the program's own.
MCBags == {9}

MCRow(i, k, n, p, s, b, o) ==
    [id |-> i, kind |-> k, stack |-> n, parent |-> p, slot |-> s,
     children |-> b, owner |-> o]

\* Both characters wear a ring, and one has another in the overflow window; or
\* one has a stack in the inventory and one in the backpack.
MCLoadouts == {
    {MCRow(1, ring, 1, INV_TOONINV, 1, 0, ann),
     MCRow(2, ring, 1, INV_OVERFLOW, 0, 0, ann),
     MCRow(3, ring, 1, INV_TOONINV, 1, 0, bob)},
    {MCRow(1, bar, 2, INV_TOONINV, 2, 0, ann),
     MCRow(2, bar, 1, 9, 0, 0, ann)}}

MCOpenBags == {[c \in Toons |-> [t \in TempIds |-> IF c = ann THEN 9 ELSE 0]]}
=============================================================================
