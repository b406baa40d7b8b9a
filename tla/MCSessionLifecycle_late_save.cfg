\* A hook and a kill race on one record.
SPECIFICATION Spec
CONSTANTS
    Ids = {s1}
    LlmIds = {s1}
    Established = {s1}
    Names = {a}
    ViewNames = {}
    Procs = {p1, p2}
    Commands = {"kill"}
    Events = {"session-start", "prompt-submit", "working", "stop", "session-end"}
    MaxCommands = 1
    Crashes = FALSE
    None = None
    s1 = s1
    a = a
    p1 = p1
    p2 = p2
PROPERTIES
    TerminalAbsorbing
