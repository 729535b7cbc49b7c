SPECIFICATION Spec
CONSTANTS
    Guids = {g1}
    OyIds = {o1, o2}
    NoId = NoId
    Absent = Absent
    Threads = {t1, t2}
    NoThread = NoThread
    PersistAt = 2
    MaxCount = 5
    FirstMaps <- UppercaseFiles
PROPERTY
    PutIsFound
