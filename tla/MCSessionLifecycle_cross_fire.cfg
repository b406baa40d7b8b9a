\* A sweep overlaps a spawn.
SPECIFICATION Spec
CONSTANTS
    Ids = {s1}
    LlmIds = {s1}
    Established = {}
    Names = {a}
    ViewNames = {}
    Procs = {p1, p2}
    Commands = {"spawn"}
    Events = {"working", "stop"}
    MaxCommands = 1
    Crashes = FALSE
    None = None
    s1 = s1
    a = a
    p1 = p1
    p2 = p2
INVARIANTS
    ExitIsReal
