CONSTANTS
    ann = ann
    bob = bob
    bar = bar
    pack = pack
    Toons = {ann, bob}
    Kinds = {bar, pack}
    Bags <- MCOneBag
    Ids = {1, 2, 3}
    NoStack = NoStack
    FirstInvSlot = 2
    InvFull = 5
    AnySlot = 6
    LastTradeSlot = 2
    MaxDepth = 0
    TempIds = {t1}
    TempItemIds = {}
    Types = {}
    Slots = {}
    Loadouts <- MCPacked
    OpenBags <- MCNoBags
    Loads <- MCLoads
    Template = pack
    NoToon = NoToon
SPECIFICATION ContainersSpec
CHECK_DEADLOCK FALSE
PROPERTIES OthersKept
