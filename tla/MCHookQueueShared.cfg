\* Two clients, which share the named event.
SPECIFICATION Spec
CONSTANTS
    Clients = {c1, c2}
    Threads = {main}
    chat = chat
    inv = inv
    MessageIds <- MCMessageIds
    Registries = {{}}
    Ignored = {}
    MaxMessages = 1
    MaxLaunches = 1
PROPERTIES
    Dispatched
CHECK_DEADLOCK FALSE
