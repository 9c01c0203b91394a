CONSTANTS
    p1 = p1
    p2 = p2
    t1 = t1
    Pc = {p1, p2}
    Conn = {c1, c2, c3}
    Socket = {s1, s2}
    Request = {r1, r2}
    Task = {t1}
    TaskOf <- OneId
    Module = {m1}
    KnownPc <- OneKnown
    MaxInbox = 1
    NoPc = NoPc
    NoConn = NoConn
    NoSocket = NoSocket
    NoRequest = NoRequest
SPECIFICATION Spec
SYMMETRY Interchangeable
INVARIANTS
    TypeOK
    OneEntryPerPc
    OnlyVerifiedAdmitted
    NoTaskForgotten
    FailedAtMostOnce
PROPERTIES
    KeepsTaskContract
CHECK_DEADLOCK FALSE
