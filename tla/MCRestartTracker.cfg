SPECIFICATION Spec
CONSTANTS
    HistoryLen = 3
    Requests = {user, wake}
    NoRequest = NoRequest
    ResetReasons <- MCResetReasons
    ExpectedReasons <- MCExpected
    SwReset = "sw"
    GuardThreshold = 2
    MaxBoots = 5
INVARIANTS
    TypeOK
    RingHoldsLatestBoots
    CounterAgreesWithHistory
PROPERTIES
    PlannedMeansAsked
    ImplementsLedger
