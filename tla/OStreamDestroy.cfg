SPECIFICATION FairSpec
CONSTANTS
    scalar = scalar
    blob = blob
    seq = seq
    Fields <- MCFields
    Wire <- MCWire
    Ids <- MCIds
    HeaderSize = 2
    MAX_DEPTH = 2
    Installs <- MCInstallsSmall
    Sinks = {TRUE}
    SoleOwner = TRUE
    CallBound = 3
PROPERTIES
    DestructorDrains
