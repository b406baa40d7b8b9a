\* Two processes race on the record of one running agent session.
\* A "working" event is a prompt-submit that captures nothing.
SPECIFICATION Spec
CONSTANTS
    Ids = {s1}
    LlmIds = {s1}
    Established = {s1}
    Names = {a}
    ViewNames = {}
    Procs = {p1, p2}
    Commands = {"kill", "archive", "rm", "label"}
    Events = {"session-start", "prompt-submit", "stop", "session-end"}
    MaxCommands = 2
    Crashes = TRUE
    None = None
    s1 = s1
    a = a
    p1 = p1
    p2 = p2
SYMMETRY ProcSymmetry
INVARIANTS
    TypeOK
    
    EstablishedExitIsReal
