SPECIFICATION Spec
CONSTANTS
    CAP = 11
    FirstRooms = {9, 10}
    MaxPieces = 2
    Values <- MCValues
    Fixed <- MCFixed
    Others <- MCOthers
    Strange <- MCStrange
CHECK_DEADLOCK FALSE
INVARIANTS
    TypeOK
    RoundTrip
    VerdictOfTheBytes
    Canonical
