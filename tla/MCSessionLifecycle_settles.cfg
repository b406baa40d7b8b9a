\* Liveness: one agent session from its spawn on, two processes, no crashes.
SPECIFICATION FairSpec
CONSTANTS
    Ids = {s1}
    LlmIds = {s1}
    Established = {}
    Names = {a}
    ViewNames = {}
    Procs = {p1, p2}
    Commands = {"spawn", "label"}
    Events = {"working", "stop"}
    MaxCommands = 2
    Crashes = FALSE
    None = None
    s1 = s1
    a = a
    p1 = p1
    p2 = p2
PROPERTIES
    StoreSettles
