SPECIFICATION ObjectSpec
CONSTANTS
    Alphabet <- MCAlphabet
    Messages <- MCMessages
    Budgets = {5}
    Storage <- MCStorage
    Later <- MCLater
    MESSAGES = 2
    Clip = 2
    MAX_DEPTH = 3
    CARRY_CAP = 4
    CAP_NEED_MAX = 5
INVARIANT NeverHalfWritten
