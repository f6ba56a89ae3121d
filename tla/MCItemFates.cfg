CONSTANTS
    ann = ann
    bar = bar
    ring = ring
    Toons = {ann}
    Kinds = {bar, ring}
    Bags <- MCBags
    Ids = {1, 2, 3}
    NoStack = NoStack
    FirstInvSlot = 2
    InvFull = 5
    AnySlot = 6
    LastTradeSlot = 2
    MaxDepth = 1
    TempIds = {t1}
    TempItemIds = {q1}
    Stackable = {bar}
    Depletable = {bar}
    Types = {"backpack", "inventory", "overflow"}
    Targets = {"backpack", "inventory"}
    Slots = {0, 1, 2, 3, 6}
    MaxStack = 2
    Loadouts <- MCLoadouts
    OpenBags <- MCOpenBags
SPECIFICATION FatesSpec
CHECK_DEADLOCK FALSE
PROPERTIES OnlyTheQuestItem
