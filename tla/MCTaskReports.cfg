CONSTANTS
    t1 = t1
    Conn = {c1, c2}
    Request = {r1, r2}
    Task = {t1}
    TaskOf <- OneId
    ModuleCount = 2
    NoConn = NoConn
    NoTask = NoTask
    NoRequest = NoRequest
SPECIFICATION FairSpec
INVARIANTS
    NoticeMeansStored
    CompletedOnce
    NoTaskLost
PROPERTIES
    StoredIsReported
    GoneTaskSettles
CHECK_DEADLOCK FALSE
