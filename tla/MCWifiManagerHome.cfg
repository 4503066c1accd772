SPECIFICATION FairSpec
CONSTANTS
    Networks <- MCNetworks
    Primary = "garage"
    NoNetwork = ""
    Configs <- HomeIsBackup
    WorkCap = 1
    Threshold = 2
    EventBound = 0
CHECK_DEADLOCK FALSE
PROPERTIES
    AutoSwitches
