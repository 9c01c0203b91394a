CONSTANTS
    heartbeat = heartbeat
    task = task
    Message = {heartbeat, task}
    Size <- MCSize
    AgentLimit = 3
    ServerLimit = 3
    MaxMessages = 3
    MaxConnections = 2
SPECIFICATION Spec
INVARIANTS
    TypeOK
    AgentFramesRight
    AgentReadsAll
    ServerFramesRight
    ServerReadsAll
PROPERTIES
    KeepsChannels
CONSTRAINT OneDirection
CHECK_DEADLOCK FALSE
