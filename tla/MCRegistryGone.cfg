CONSTANTS
    p1 = p1
    p2 = p2
    t1 = t1
    Pc = {p1, p2}
    Conn = {c1, c2}
    Socket = {s1, s2}
    Request = {r1}
    Task = {t1}
    TaskOf <- OneId
    Module = {m1, m2}
    KnownPc <- AllKnown
    MaxInbox = 1
    NoPc = NoPc
    NoConn = NoConn
    NoSocket = NoSocket
    NoRequest = NoRequest
SPECIFICATION FairSpec
PROPERTIES
    GoneClientsLeave
CHECK_DEADLOCK FALSE
