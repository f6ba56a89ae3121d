---------------------------- MODULE MCContainers ----------------------------
(* Two characters and backpacks that change hands between them.             *)
EXTENDS Containers

CONSTANTS
    ann, bob, bar, pack

MCBags == {9, 10}

MCOneBag == {9}

MCRow(n, k, p, s, b, o) ==
    [id |-> n, kind |-> k, stack |-> 1, parent |-> p, slot |-> s,
     children |-> b, owner |-> o]

\* A filled backpack.
MCPacked == {{MCRow(1, pack, INV_TOONINV, 2, 9, ann), MCRow(2, bar, 9, 0, 0, ann)}}

\* Nothing, an item, a backpack, an item and a backpack.
MCLoads ==
    LET thing == [kind |-> bar, stack |-> 1, slot |-> 3, bag |-> 0]
        bag   == [kind |-> pack, stack |-> 1, slot |-> 2, bag |-> 9]
    IN  {{}, {thing}, {bag, thing}}

MCNoBags == {[c \in Toons |-> [t \in TempIds |-> 0]]}
=============================================================================
