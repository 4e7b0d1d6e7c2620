SPECIFICATION Spec
CONSTANTS
    Requests = {r1, r2, r3}
    Keys = {k1, k2}
    MaxFaults = 2
    None = None
CHECK_DEADLOCK FALSE
INVARIANTS
    TypeOK
    KeyHasOnePayment
    AuditedOnce
    PublishedIsAudited
PROPERTIES
    PaymentsAreAudited
