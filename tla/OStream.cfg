SPECIFICATION FairSpec
CONSTANTS
    scalar = scalar
    blob = blob
    seq = seq
    Fields <- MCFields
    Wire <- MCWire
    Ids <- MCIds
    HeaderSize = 2
    MAX_DEPTH = 2
    Installs <- MCInstalls
    Sinks = {TRUE, FALSE}
    SoleOwner = FALSE
    CallBound = 4
INVARIANTS
    TypeOK
    PendingWithinDepth
    HeadIntact
    WellFramed
    VerdictCovers
    NoHollowPacket
    OverflowParked
PROPERTIES
    FirstFailureWins
    ImplementsEncoder
    CallReturns
