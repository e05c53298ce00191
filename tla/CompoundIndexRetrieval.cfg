SPECIFICATION CompoundSpec
CONSTANTS
    Scenarios <- AllScenarios
    Questions <- SomeQuestions
    ViewQuestions <- SomeViewQuestions
    Savers = {p1, p2}
    MaxLoads = 2
    Absent = Absent
    MaximumSpecs = 3
    KeywordTerms = 2
    SpecimenTerms = 6
    MinimumViewSimilarity = 15
    Fingerprint <- HashOfGram
    WordBits = 3
    MinimumRadius = 1
    Radix = 4
    WordBytes = 3
    LastByte = 1
    WideMax = 31
    NarrowMax = 7
    MaxDocuments = 3
    MaxEntries = 12
    MaxPostings = 12
INVARIANTS
    LoadsAgree
    AnswersMean
    LanesStayApart
    ViewsAgree
CHECK_DEADLOCK FALSE
