CONSTANTS
    ann = ann
    bar = bar
    ring = ring
    pack = pack
    Toons = {ann}
    Kinds = {bar, ring, pack}
    Bags <- MCBags
    Ids = {1, 2, 3, 4}
    NoStack = NoStack
    FirstInvSlot = 2
    InvFull = 7
    AnySlot = 8
    LastTradeSlot = 3
    MaxDepth = 0
    TempIds = {t1}
    TempItemIds = {}
    Types = {"backpack", "inventory", "trade"}
    Slots = {0, 1, 2, 3, 4}
    Loadouts <- MCLoadouts
    OpenBags <- MCOpenBags
    Template = pack
    Traded = {bar}
    MaxStack = 1
    Shops = {7}
    Stocks <- MCStocks
    Meetings <- MCMeetings
SPECIFICATION TradesSpec
CHECK_DEADLOCK FALSE
INVARIANTS SlotsUnique RejectedComesBack KeptIsGone WindowsEmpty NoOrphans
PROPERTIES LedgerKept SaleConserves
