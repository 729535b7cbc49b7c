SPECIFICATION FairSpec
CONSTANTS
    Callers = {p1}
    Watcher = w
    NoOne = NoOne
    Conns = {c1, c2, c3, c4, c5}
    NoConn = NoConn
INVARIANTS
    OneOpen
    RetryIsElsewhere
PROPERTY
    CallsEnd
