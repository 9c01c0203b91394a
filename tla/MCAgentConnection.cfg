CONSTANTS
    MaxReconnectAttempts = 5
    MaxFailures = 6
SPECIFICATION FairSpec
INVARIANTS
    
    NeverStranded
    RegistersOnce

    
CHECK_DEADLOCK FALSE
