\* One client, two threads that detour, an application started twice.
SPECIFICATION Spec
CONSTANTS
    Clients = {c1}
    Threads = {main, net}
    chat = chat
    inv = inv
    MessageIds <- MCMessageIds
    Registries <- MCRegistries
    Ignored = {}
    MaxMessages = 3
    MaxLaunches = 2
INVARIANTS
    TypeOK
    NoLostWakeup
    InOrder
PROPERTIES
    IsLossyFifo
    Dispatched
CHECK_DEADLOCK FALSE
