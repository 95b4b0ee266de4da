SPECIFICATION Spec
CONSTANTS
    a = a
    b = b
    zero = zero
    minusZero = minusZero
    nan = nan
    Containers <- MCContainers
    Elements <- MCElements
    Default = zero
    Alike <- MCAlike
    N = 3
    Lists <- MCLists
    Declared <- MCDeclared
INVARIANTS
    TypeOK
PROPERTIES
    ImplementsSequence
