SPECIFICATION FairSpec
CONSTANTS
    None = None
    Migrators = {m}
    OldRecords = {r1, r2}
    OldViews = {vw}
    Malformed = {x}
    MaxWrites = 2
    MaxFaults = 2
    Launches = {l1, l2, l3}
    MaxIntervals = 2
    m = m
    r1 = r1
    r2 = r2
    vw = vw
    x = x
    l1 = l1
    l2 = l2
    l3 = l3
    Tabs = {k1}
    MaxWorld = 1
    MaxFocus = 1
    MaxQueue = 0
    Places = {p1, p2}
    QuietFocus = TRUE
    MaxSession = 3
    MaxLegacy = 1
    MaxLabels = 2
    MaxTouch = 2
    DisplayNames = {n1, tx}
    Hub = tx
    Documents = {d1}
    Undated = FALSE
    Rollouts = {b1, b2, b3}
    MaxWalk = 2
    MaxTicks = 3
    b1 = b1
    b2 = b2
    b3 = b3
    k1 = k1
    p1 = p1
    p2 = p2
    n1 = n1
    tx = tx
    d1 = d1
INVARIANTS
    TypeOK
    UpdatesAreSpaced
    UsageIsCurrent
PROPERTIES
    MigratesWhole
    TabsStayCurrent
    EditsStayLocal
CHECK_DEADLOCK FALSE
