SPECIFICATION Spec
CONSTANTS
    Sessions = {s1}
    Participants = {p1}
    Requests = {r1, r2, r3, r4, r5}
    Amounts = {10}
    Overlap = TRUE
    MaxTime = 0
    None = None
    BatchSize = 1
    MaxFaults = 1
    Deadline = 1
    Window = 1
    Currency = eur
    MaxEvents = 5
CHECK_DEADLOCK FALSE
INVARIANTS
    NoVersionGap
    OutboxMatchesTables
    CompleteIsTrue
    ClosesCountAsValid
PROPERTIES
    FollowsTheService
