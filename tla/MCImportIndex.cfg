SPECIFICATION Spec
CONSTANTS
    s = s
    home = home
    a = a
    b = b
    x = x
    y = y
    z = z
    w = w
    n1 = n1
    n2 = n2
    c1 = c1
    c2 = c2
    Ids <- MCIds
    Slash = Slash
    NoId = NoId
    Zero = Zero
    Personal = home
    Tree0 <- MCTree
    Clients = {c1, c2}
    Asked <- MCAsked
    MaxFaults = 1
INVARIANT
    IndexOnUpload
