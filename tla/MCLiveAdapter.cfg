SPECIFICATION Spec
CONSTANTS
    MaxRevision = 4
    Retention = 2
    Limit = 2
    MaxFaults = 3
    MaxResets = 1
    OthersOnly = {2}
INVARIANTS
    TypeOK
    SavedWasReceived
PROPERTIES
    SendsFollowTheFile
    PanelCatchesUp
    HealthRecovers
