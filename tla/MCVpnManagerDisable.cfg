SPECIFICATION Spec
CONSTANTS
    Profiles <- MCProfiles
    Complete <- MCProfiles
    Savable <- MCSavable
    Testable <- MCTestable
    NoVpn = "none"
    NoFile = "nofile"
    QueueSize = 1
    BackoffBase = 1
    BackoffCap = 1
INVARIANTS
    DisabledMeansDown
