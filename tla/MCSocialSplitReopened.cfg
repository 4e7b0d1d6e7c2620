SPECIFICATION Spec
CONSTANTS
    Sessions = {s1}
    Participants = {p1, p2}
    Requests = {r1, r2, r3, r4, r5, r6}
    Amounts = {10}
    Overlap = TRUE
    MaxTime = 1
    None = None
SYMMETRY Symmetry
CHECK_DEADLOCK FALSE
PROPERTIES
    CompletedIsFinal
