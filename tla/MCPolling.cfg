SPECIFICATION FairSpec
CONSTANTS
    did = did
    plain = plain
    PidList <- MCPidList
    Validated = {did}
    Type <- MCType
    InitLength = 1
    CmdQueueSize = 1
    AnswerQueueSize = 1
    ScanCommands = 1
INVARIANTS
    TypeOK
    
    CleanExchange
PROPERTIES
    ExecutionEnds
    
