------------------------- MODULE TempContainerCache -------------------------
(***************************************************************************)
(* TempContainerCache: which backpack a temporary container id names, and  *)
(* which inventory slot a temporary item id names, per character, and the  *)
(* translation of a message's "from type" into a container id.             *)
(***************************************************************************)
EXTENDS ItemTable

CONSTANTS
    TempIds,        \* temporary container ids
    TempItemIds,    \* temporary item ids
    Types,          \* the from types messages name
    Slots,          \* the slots messages name
    Loadouts,       \* the tables a run may start from
    OpenBags        \* the temporary container ids known at the start of a run

VARIABLES
    containerIdCache,   \* 0 where the id is not cached
    itemSlotCache       \* 0 where the id is not cached

caches == <<containerIdCache, itemSlotCache>>

vars == <<session, caches>>

CachesOK ==
    /\ containerIdCache \in [Toons -> [TempIds -> Nat]]
    /\ itemSlotCache \in [Toons -> [TempItemIds -> Nat]]

ClearTempContainerIdCache(c) ==
    containerIdCache' = [containerIdCache EXCEPT ![c] = [t \in TempIds |-> 0]]

UpdateTempContainerId(c, t, b) ==
    containerIdCache' = [containerIdCache EXCEPT ![c][t] = b]

GetContainerId(c, t) == containerIdCache[c][t]

UpdateTempItemId(c, t, s) ==
    itemSlotCache' = [itemSlotCache EXCEPT ![c][t] = s]

GetItemSlotId(c, t) == itemSlotCache[c][t]

\* The "from types" the code tells apart: the panes of the character, the
\* windows of other parties (trade partner, shop terminal, player shop), and
\* an unknown type, which is taken for the inventory.
FromTypes == {"backpack", "inventory", "bank", "remote", "trade", "overflow",
              "unknown"}

GetFromContainerId(c, type, t) ==
    CASE type = "backpack" -> GetContainerId(c, t)
      [] type = "bank"     -> INV_BANK
      [] type = "remote"   -> 0
      [] type = "trade"    -> INV_TRADE
      [] type = "overflow" -> INV_OVERFLOW
      [] OTHER             -> INV_TOONINV

-----------------------------------------------------------------------------
(* A run starts in the middle of a session: the table is what the messages  *)
(* before it left, and some backpacks have been opened.                    *)

ASSUME StartAssumption ==
    /\ Types \subseteq FromTypes
    /\ Slots \subseteq Nat
    /\ \A db \in Loadouts : db \subseteq Row /\ IsFiniteSet(db)
    /\ OpenBags \subseteq [Toons -> [TempIds -> Nat]]

Start ==
    /\ \E db \in Loadouts : SessionInit(db)
    /\ containerIdCache \in OpenBags
    /\ itemSlotCache = [c \in Toons |-> [t \in TempItemIds |-> 0]]
=============================================================================
