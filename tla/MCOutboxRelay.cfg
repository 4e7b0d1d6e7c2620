SPECIFICATION Spec
CONSTANTS
    Sessions = {s1}
    MaxVersion = 3
    MaxTime = 1
    BatchSize = 2
    MaxFaults = 2
CHECK_DEADLOCK FALSE
INVARIANTS
    TypeOK
    PublishedIsInLog
    QuietLogIsOrdered
PROPERTIES
    StoredIsPublished
