\* A group change overlaps a modify, and a repair runs when all is quiet.
SPECIFICATION Spec
CONSTANTS
    Procs = {p1, p2}
    Authors = {x}
    Contents = {c, d}
    Groups = {g}
    Commands = {"create", "modify", "group", "repair"}
    Alone = {"repair"}
    MaxRev = 1
    MaxCrashes = 0
    None = None
    p1 = p1
    p2 = p2
    x = x
    c = c
    d = d
    g = g
PROPERTIES
    CommittedRevsKept
