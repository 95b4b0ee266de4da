SPECIFICATION FairSpec
CONSTANTS
    Alphabet <- MCAlphabet
    Messages <- MCMessages
    Budgets <- MCBudgets
    MAX_DEPTH = 2
    CARRY_CAP = 4
    CAP_NEED_MAX = 4
INVARIANTS
    LiveSpanExact
