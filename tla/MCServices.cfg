SPECIFICATION Spec
CONSTANTS
    u = u
    v = v
    i1 = i1
    i2 = i2
    t1 = t1
    t2 = t2
    r1 = r1
    r2 = r2
    k1 = k1
    k2 = k2
    k3 = k3
    f1 = f1
    f2 = f2
    d1 = d1
    d2 = d2
    d3 = d3
    e = e
    fl = fl
    gx = gx
    gy = gy
    gz = gz
    n1 = n1
    Requests = {r1, r2}
    Users = {u, v}
    Service = v
    Sids = {i1, i2}
    Tokens = {t1, t2}
    None = None
    ConfigIds = {k1, k2, k3}
    Bodies = {b1, b2}
    Files = {f1, f2}
    FileOf <- MCFileOf
    Torn = Torn
    Absent = Absent
    Nodes = {d1, d2, d3, e, fl}
    FolderNodes = {d1, d2, d3, e}
    Root = Root
    Outside = Outside
    Parent0 <- MCParent0
    QueryDepth = 3
    CrawlDepth = 4
    MaxDepth = 2
    MaxMoves = 2
    MaxFailed = 1
    Signs = {"$", "!", "x"}
    MaxLen = 3
    GivenIds = {gx, gy, gz, n1}
    GuidLike = {gx, gy, gz}
    RawOf <- MCRawOf
    Logins = {"worker", "import", "lost", "other"}
    KeysAsked <- MCKeysAsked
    Fields = {1, 2}
    Config <- MCConfig
    Unset = Unset
    MaxWrites = 3
    Empty = ""
    MetaProperties = {"subject"}
    NoIds = {"bad"}
    Resources <- MCResources
    Rank <- MCRank
    Alike <- MCAlike
    Forms <- MCForms
    Fragments <- MCFragments
    PageSizes = {1, 2, 7}
    MaxInt = 7
SYMMETRY Symmetry
INVARIANTS
    ServicesTypeOK
    LogoutIsFinal
    TokensAreOwn
    NamesAreProved
    SavedIsRead
    StayersFoundOnce
    StaysWithinDepth
    ResolvesToTheEnd
    SameResource
    LastWriteIsShown
    ParsedAsWritten
    AnswersAreRight
