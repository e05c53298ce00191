SPECIFICATION LanesSpec
CONSTANTS
    Requests <- AllRequests
    Fingerprint <- HashOfGram
    WordBits = 3
    MinimumRadius = 1
    Radix = 4
    WordBytes = 3
    LastByte = 1
    WideMax = 31
    NarrowMax = 7
    MaxDocuments = 3
    MaxEntries = 12
    MaxPostings = 12
INVARIANTS
    BudgetsHold
    AnswersHold
    CompositesAreWhole
CHECK_DEADLOCK FALSE
