CONSTANTS
    MaxMessages = 3
    ann = ann
    bob = bob
    bar = bar
    ring = ring
    Toons = {ann, bob}
    Kinds = {bar, ring}
    Bags <- MCBags
    Ids = {1, 2, 3, 4}
    NoStack = NoStack
    FirstInvSlot = 2
    InvFull = 5
    AnySlot = 6
    LastTradeSlot = 2
    MaxDepth = 1
    TempIds = {t1}
    TempItemIds = {q1}
    Stackable = {bar}
    Depletable = {bar}
    Types = {"backpack", "inventory", "overflow"}
    Targets = {"backpack", "inventory", "overflow"}
    Slots = {0, 1, 2, 6}
    MaxStack = 3
    Loadouts <- MCLoadouts
    OpenBags <- MCOpenBags
SPECIFICATION MCSpec
CHECK_DEADLOCK FALSE
INVARIANTS TypeOK SlotsUnique LowestFree NothingInHotswap ShownSurvives
PROPERTIES StacksConserved MovesStayWithToon

