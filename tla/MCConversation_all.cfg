SPECIFICATION Spec
CONSTANTS
    None = None
    Panes = {q1, q2}
    Letters = {m1, m2}
    OneTypist = TRUE
    MaxDialogs = 2
    MaxTaps = 2
    DialogKinds = {"permit", "multi"}
    Alike = FALSE
    QuietPane = TRUE
    MaxEntry = 6
    InboxTail = 4
    DeepTail = 5
    ThreadTurns = 2
    PageTurns = 2
    CallIds = {c1, c2}
    MaxLine = 3
    MaxRewrite = 1
    Kinds = {"typed", "other"}
    Engines = {"claude", "codex"}
    PollsShrink = TRUE
    MaxRec = 3
    MaxPath = 2
    MaxRow = 2
    MaxNow = 3
    Window = 2
    SegGap = 1
    MinSeg = 1
    Readers = {d1, d2}
    MaxTail = 1
    MaxMoment = 4
    d1 = d1
    d2 = d2
    LaneNames = {n1, n2}
    q1 = q1
    q2 = q2
    m1 = m1
    m2 = m2
    c1 = c1
    c2 = c2
    n1 = n1
    n2 = n2
SYMMETRY AlikeOnes
INVARIANTS
    TypeOK
    
    
    
    RowsAreTheFile
    
    TailIsTrue
CHECK_DEADLOCK FALSE
