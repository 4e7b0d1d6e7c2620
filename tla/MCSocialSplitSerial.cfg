SPECIFICATION Spec
CONSTANTS
    Sessions = {s1}
    Participants = {p1, p2}
    Requests = {r1, r2, r3, r4, r5, r6, r7}
    Amounts = {10, 20}
    Overlap = FALSE
    MaxTime = 2
    None = None
SYMMETRY Symmetry
CHECK_DEADLOCK FALSE
INVARIANTS
    TypeOK
    VersionsAreConsecutive
    CompletedIsSettled
    CloseIsPublishedOnce
    VersionsFollowTime
PROPERTIES
    CompletedIsFinal
