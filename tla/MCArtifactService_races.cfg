\* Two processes, every command; repair and group run while nothing else does.
SPECIFICATION Spec
CONSTANTS
    Procs = {p1, p2}
    Authors = {x, y}
    Contents = {c, d}
    Groups = {g}
    Commands = {"create", "modify", "snapshot", "group", "repair"}
    Alone = {"repair", "group"}
    MaxRev = 3
    MaxCrashes = 2
    None = None
    p1 = p1
    p2 = p2
    x = x
    y = y
    c = c
    d = d
    g = g
SYMMETRY ArtifactSymmetry
INVARIANTS
    TypeOK
    CommittedRevsExist
    DoctorFindsNoDebris
PROPERTIES
    ImplementsLog
