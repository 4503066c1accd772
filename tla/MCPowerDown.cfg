SPECIFICATION FairSpec
CONSTANTS
    QueueSize = 2
    ElmSleepRetries = 2
INVARIANTS
    TypeOK
    OneStraggler
    HandshakeParksAutopid
PROPERTIES
    ShutdownCompletes
    ChipSettles
