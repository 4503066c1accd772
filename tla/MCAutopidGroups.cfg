SPECIFICATION FairSpec
CONSTANTS
    Groups <- MCGroups
    Condition <- MCCondition
    Periodic = {"rpm"}
    RpmGroup = "rpm"
    MaxVoltage = 1
    MinVoltage = 1
    WakeVoltage = 1
    Configs <- MCConfigs
INVARIANT TypeOK
PROPERTIES
    OrderStands
    EngineGroupsStop
    AlwaysPolled
    LowVoltageRests
CHECK_DEADLOCK FALSE
