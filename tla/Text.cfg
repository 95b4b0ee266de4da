SPECIFICATION Spec
CONSTANTS
    N = 4
    WORD = 2
    Bytes <- MCBytes
    Payloads = {0, 1, 2, 3, 4, 5}
    Assignable <- MCAssignable
    Held <- MCHeld
INVARIANTS
    TypeOK
    VerdictOfTheWhole
    StateOfThePrefix
    KeepsCharacters
    Terminated
