SPECIFICATION Spec
CONSTANTS
    a1 = a1
    a2 = a2
    p1 = p1
    p2 = p2
    c1 = c1
    c2 = c2
    Aggregates <- MCAggregates
    Participants <- MCParticipants
    EventIds = {1, 2, 3, 4, 5, 6, 7, 8, 9}
    Currencies <- MCCurrencies
    Deadline = 1
    Window = 2
    MaxNow = 5
    Messages <- MCMessages
    Offsets = {0}
    None = None
INVARIANTS
    TypeOK
    AppliedIsPrefix
    WaitingIsReported
    ProjectionIsReplay
    KpisAgree
PROPERTIES
    ProjectionOnlyGrows
    RedeliveryOnlyReports
