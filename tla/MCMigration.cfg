SPECIFICATION FairSpec
CONSTANTS
    Guids = {g1, g2}
    OyIds = {o1, o2}
    NoId = NoId
    Absent = Absent
    Threads = {t1, t2, t3}
    NoThread = NoThread
    PersistAt = 2
    MaxCount = 5
    FirstMaps <- LowercaseFiles
INVARIANTS
    CleanMeansSaved
    LossBound
PROPERTIES
    PutIsFound
    SavesAreWhole
    LimitLeadsToSave
