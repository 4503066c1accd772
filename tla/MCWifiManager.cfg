SPECIFICATION FairSpec
CONSTANTS
    Networks <- MCNetworks
    Primary = "garage"
    NoNetwork = ""
    Configs <- MCConfigs
    WorkCap = 1
    Threshold = 2
    EventBound = 0
INVARIANTS
    TypeOK
    StatusFollowsDriver
CHECK_DEADLOCK FALSE
PROPERTIES
    ReconnectsForGood
    ApComesBack
