----------------------------- MODULE ItemFates -----------------------------
(***************************************************************************)
(* ItemMoves with something the game knows and the table does not: which   *)
(* item a temporary item id was given to.  It is a history variable; every *)
(* message is handled by an action of ItemMoves.                           *)
(***************************************************************************)
EXTENDS ItemMoves

VARIABLE
    granted     \* per character and temporary id: the itemidx it was given to,
                \* 0 for none

FatesInit ==
    /\ Init
    /\ granted = [c \in Toons |-> [t \in TempItemIds |-> 0]]

\* A mission item is in the overflow window until the next message moves it.
InTransit(c) ==
    {r \in Owned(items, c) : r.parent = INV_OVERFLOW /\ \E t \in TempItemIds : granted[c][t] = r.id}

\* Items go from one container to another, wherever there is room there.
Moving(c) ==
    \E type \in Types, t \in TempIds, s \in Slots, to \in Targets, b \in Bags :
        /\ Named(GetFromContainerId(c, type, t), s)
        /\ GetFromContainerId(c, type, t) # NewParent(GetFromContainerId(c, type, t), to, b)
        /\ \A r \in InTransit(c) : type = "overflow" /\ s = r.slot
        /\ ItemMove(c, type, t, s, to, b, AnySlot)
        /\ UNCHANGED granted

\* A mission item arrives ...
Granting(c, t) ==
    /\ granted[c][t] = 0
    /\ \E k \in Kinds : SpawnReward(c, t, k, AnySlot)
    /\ \E r \in items' \ items : granted' = [granted EXCEPT ![c][t] = r.id]

\* ... and is taken away with the mission.
TakingBack(c, t) ==
    /\ granted[c][t] # 0
    /\ InTransit(c) = {}
    /\ DeleteTempItem(c, t)
    /\ granted' = [granted EXCEPT ![c][t] = 0]

FatesNext ==
    \/ \E c \in Toons : Moving(c)
    \/ \E c \in Toons, t \in TempItemIds : Granting(c, t) \/ TakingBack(c, t)

FatesSpec == FatesInit /\ [][FatesNext]_<<vars, granted>>

-----------------------------------------------------------------------------
(* Properties.                                                             *)

\* Taking a mission item back by its temporary id deletes that item and no
\* other one, wherever the item has got to since the id was stored.
OnlyTheQuestItem ==
    [][\A c \in Toons, t \in TempItemIds :
          TakingBack(c, t) => \A r \in items \ items' : r.id = granted[c][t]]_<<vars, granted>>
=============================================================================
