CONSTANTS
    c1 = c1
    c2 = c2
    inspect = inspect
    t1 = t1
    NoPc = NoPc
    Connection = {c1, c2}
    Pc = {c1, c2}
    Request = {inspect}
    TaskId = {t1}
    Layout <- MCLayout
    Endpoint <- MCEndpoint
    PcOf <- MCPcOf
    TaskOf <- MCTaskOf
    MaxRows = 2
SPECIFICATION HeartbeatSpec
INVARIANTS
    ThreadsFindDatabase
    NoThreadOutlives
PROPERTIES
    StopEnds
CHECK_DEADLOCK FALSE
