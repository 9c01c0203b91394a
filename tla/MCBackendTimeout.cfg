CONSTANTS
    Req = {r1, r2}
SPECIFICATION FairSpec
PROPERTIES
    TimeoutIsHandled
CHECK_DEADLOCK FALSE
