CONSTANTS
    Conn = {c1, c2, c3}
    Pc = {p1}
    KnownPc = {p1}
    ip = ip
    name = name
    v1 = v1
    v2 = v2
    Empty = Empty
    Field = {ip, name}
    Value = {v1, v2, Empty}
    InitialInfo <- First
    Info <- Reports
    NoConn = NoConn
    NoPc = NoPc
    MaxFailures = 1
    MaxScans = 1
SPECIFICATION Spec
INVARIANTS
    ScansKept
    WrittenIsTold
    ApiShowsLastDetection
PROPERTIES
    FirstConnectKept
    RegistrationTakesHold
SYMMETRY Symmetry
CHECK_DEADLOCK FALSE
