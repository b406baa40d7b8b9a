\* One process at a time, two sessions (an agent and a shell), a view named v: with two
\* more names a rename gets as far as its save.
SPECIFICATION Spec
CONSTANTS
    Ids = {s1, s2}
    LlmIds = {s1}
    Established = {}
    Names = {a, b, v}
    ViewNames = {v}
    Procs = {p1}
    Commands = {"spawn", "kill", "archive", "rm", "label", "rename"}
    Events = {"session-start", "prompt-submit", "working", "stop", "session-end"}
    MaxCommands = 4
    Crashes = TRUE
    None = None
    s1 = s1
    s2 = s2
    a = a
    b = b
    v = v
    p1 = p1
INVARIANTS
    RecordsAreReal
PROPERTIES
    ImplementsRegistry
