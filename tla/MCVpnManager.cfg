SPECIFICATION FairSpec
CONSTANTS
    Profiles <- MCProfiles
    Complete <- MCProfiles
    Savable <- MCSavable
    Testable <- MCTestable
    NoVpn = "none"
    NoFile = "nofile"
    QueueSize = 1
    BackoffBase = 2
    BackoffCap = 3
INVARIANTS
    TypeOK
    TunnelIsCurrent
PROPERTIES
    ConnectsForGood
    ConnectingEnds
