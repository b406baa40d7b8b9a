SPECIFICATION Spec
CONSTANTS
    None = None
    Engines = {"claude", "codex", "agy"}
    MaxBlocks = 2
    MaxLinks = 2
    OddForms = FALSE
    Chats <- ChatIds
    Trees <- TreeIds
    Checkouts = {t1, t2}
    Skills = {k1, k2}
    MaxStoreEdits = 1
    MaxLaunches = 2
    OneAtATime = TRUE
    ReadOnlyWorkers = {w1}
    MaxTxTrees = 2
    ResumesElsewhere = FALSE
    w1 = w1
    t1 = t1
    t2 = t2
    k1 = k1
    k2 = k2
    Ingests = {i1, i2}
    Sidecars = {f}
    MaxLength = 2
    MaxVersions = 2
    Window = 1
    SafeRewrites = TRUE
    IngestsDie = TRUE
    i1 = i1
    i2 = i2
    f = f
SYMMETRY Alike
INVARIANTS
    TypeOK
    
    
    SandboxFits
    MirrorIsSound

    
CHECK_DEADLOCK FALSE
