SPECIFICATION Spec
CONSTANTS
    a1 = a1
    p1 = p1
    c1 = c1
    Aggregates <- MCAggregates
    Participants <- MCParticipants
    Currencies <- MCCurrencies
    Deadline = 1
    EventIds = {1}
    Messages <- MCMessages
    None = None
    MaxLog = 2
    MaxBatch = 2
    Stale = 0
    MaxTime = 1
    MaxFaults = 1
INVARIANTS
    TypeOK
    ActualCoversTopic
    SkippedIsAdmitted
    ServedActualIsRecent
PROPERTIES
    RecordsAreConsumed
