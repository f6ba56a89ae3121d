\* Three bosses, two settings; a calculation takes the database lock twice.
SPECIFICATION Spec
CONSTANTS
    NumPb = 3
    Settings = {ann, bob}
    Unknown = unknown
    Queries = 2
INVARIANTS
    TypeOK
    QuietUnlessShown
    SettingHolds
PROPERTIES
    EndReturns
    SearchEnds
CHECK_DEADLOCK FALSE
