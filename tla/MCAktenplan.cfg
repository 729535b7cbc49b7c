SPECIFICATION FairSpec
CONSTANTS
    Runners = {p1, p2}
    a = a
    b = b
    c = c
    v = v
    Nodes = {a, b, c, v}
    Top = Top
    Parent <- MCParent
    Order <- MCOrder
    Slashed = {v}
    Roots = {s1, s2}
    NoRoot = NoRoot
INVARIANTS
    CleanRunIsComplete
    SilenceMeansThere
    OneSpace
PROPERTY
    RunsConverge
