CONSTANTS
    Toons = {1, 2}
    Kinds = {101, 102}
    Listed = {101, 102}
    Bags = {11}
    Places <- MCPlaces
    Arrivals <- MCArrivals
    Starts <- MCStarts
    Names = {7, 8}
    Columns = {"name", "location"}
    Texts <- MCTexts
SPECIFICATION ListSpec
CHECK_DEADLOCK FALSE
INVARIANTS NodesAgree NameCurrent
PROPERTIES OnlyChosen
