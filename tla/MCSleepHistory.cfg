SPECIFICATION HFairSpec
CONSTANTS
    Requests <- MCRequests
    NoRequest = "NONE"
    ResetReasons <- MCReasons
    ExpectedReasons <- MCExpected
    GuardThreshold = 2
    SwReset = "sw"
    PowerOn = "poweron"
    SleepVoltage = 131
    SleepTime = 3
    WakeInterval = 3
    ElmSleepRetries = 1
    ScheduleDelays <- MCDelays
    SleepModes <- MCModes
    Wakeups <- MCWakeups
    Readings <- MCReadings
INVARIANTS
    TypeOK
    DormantIsDown
PROPERTIES
    CountdownHonoured
    
    RecoveryIsLastResort
    CountdownEnds
    WakesOnVoltage
    WakesPeriodically
