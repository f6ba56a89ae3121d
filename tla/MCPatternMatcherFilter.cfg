\* Two bosses, two settings.
SPECIFICATION Spec
CONSTANTS
    NumPb = 2
    Settings = {ann, bob}
    Unknown = unknown
    Queries = 2
INVARIANTS
    CriteriaCurrent
CHECK_DEADLOCK FALSE
