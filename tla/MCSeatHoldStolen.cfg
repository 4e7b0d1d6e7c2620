SPECIFICATION Spec
CONSTANTS
    Parts <- MCParts
    Seats <- MCOneSeat
    Holds = {h1, h2, h3}
    Releases = {d1, d2}
    TTL = 2
    MaxTime = 3
    None = None
CHECK_DEADLOCK FALSE
INVARIANTS
    HeldSeatIsRefused
