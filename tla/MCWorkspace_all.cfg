SPECIFICATION Spec
SYMMETRY Alike
CONSTANTS
    None = None
    Workers = {w1, w2, w3}
    MaxSuffix = 3
    QuietUsers = TRUE
    ResumesVacant = TRUE
    LateFailures = FALSE
    Homes = {h1, h2}
    Remote = remote
    Keys <- SomeKeys
    SyncedRecords = {"record"}
    MaxClock = 2
    MaxEdits = 2
    Calm = TRUE
    Sessions = {s1, s2}
    Chats = {c1, c2, c3}
    MaxOps = 3
    Overlaps = FALSE
    LeakyEnvs = TRUE
    MaxView = 2
    MaxPane = 2
    Agents = {a1}
    Terminals = {t1, t2}
    Restless = FALSE
    w1 = w1
    w2 = w2
    w3 = w3
    h1 = h1
    h2 = h2
    remote = remote
    s1 = s1
    s2 = s2
    c1 = c1
    c2 = c2
    c3 = c3
    a1 = a1
    t1 = t1
    t2 = t2
INVARIANTS
    TypeOK
    
    TerminalsShowTheChosen
    ChatsAreTracked
PROPERTIES
    SyncsKeepWork
CHECK_DEADLOCK FALSE
