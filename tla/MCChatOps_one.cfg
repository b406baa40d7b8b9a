\* One operation of any kind; finishes that do not fail end within the wait.
SPECIFICATION FairSpec
CONSTANTS
    Ops = {o1}
    Slugs = {s}
    FreshPaths = FALSE
    Prompt = TRUE
    DiesInFinish = FALSE
    ToolsSurvive = FALSE
    MaxFaults = 2
    None = None
    s = s
    o1 = o1
INVARIANTS
    TypeOK
    SingleExecution
    TornDownWhole
PROPERTIES
    NeverCutOffEarly
    NeverKillsFinisher
    Completes
\* Every operation ends.
CHECK_DEADLOCK FALSE
