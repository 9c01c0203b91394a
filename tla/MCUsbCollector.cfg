CONSTANTS
    stick = stick
    twin = twin
    hub = hub
    s1 = s1
    s2 = s2
    p1 = p1
    p2 = p2
    NoSerial = NoSerial
    NoPid = NoPid
    Device = {stick, twin, hub}
    Serial <- MCSerial
    Pid <- MCPid
    SiliconMotion = {stick, twin}
    StorageVid = {stick, twin, hub}
    MaxLines = 5
    MaxEvents = 2
SPECIFICATION Spec
INVARIANTS
    RecordsFitLog
    NoStorageLost
    EventsPlaced
CONSTRAINT TwoSections
CHECK_DEADLOCK FALSE
