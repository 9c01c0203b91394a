CONSTANTS
    p1 = p1
    p2 = p2
    plain = plain
    piped = piped
    wide = wide
    chunked = chunked
    query = query
    t1 = t1
    t2 = t2
    NoPc = NoPc
    Pc = {p1, p2}
    Request = {plain, piped, wide, chunked, query}
    TaskId = {t1, t2}
    Layout <- MCLayout
    Endpoint <- MCEndpoint
    PcOf <- MCPcOf
    TaskOf <- MCTaskOf
    MaxRows = 2
SPECIFICATION HttpSpec
INVARIANTS
    OneTaskPerRequest
    NoRequestWaits
    InspectionsUnderstood
    
CHECK_DEADLOCK FALSE
