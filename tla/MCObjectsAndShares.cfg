SPECIFICATION AccessSpec
CONSTANTS
    s = s
    home = home
    a = a
    b = b
    x = x
    y = y
    z = z
    w = w
    n1 = n1
    n2 = n2
    c1 = c1
    c2 = c2
    grp = grp
    Ids <- MCIds
    Slash = Slash
    NoId = NoId
    Zero = Zero
    Personal = home
    Tree0 <- MCTree
    Clients = {c1, c2}
    Asked <- MCAsked
    MaxFaults = 2
    Callers = {c1, c2}
    Names = {grp}
    Wanted <- MCWanted
    Foreign <- MCForeign
    MaxFailures = 1
    MaxForeign = 1
INVARIANTS
    TypeOK
    OkMeansDone
    LandsWhereAsked
    AbsentIsTrue
    BulkTriesEvery
    AclIsTrue
PROPERTIES
    OnlyNamedChange
    EachStepAdvances
    OnlyNamedShares
