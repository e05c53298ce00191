SPECIFICATION SpecAnalyst
CONSTANTS
    Ciks = {1, 2}
    Listings <- SomeListings
    Responses <- SomeResponses
    FetchRequests <- SomeFetches
    AnalysisRequests <- SomeAnalyses
    MixedOrder <- Mixed
    MaxFetches = 2
    MaxAnalyses = 2
    None = None
    Corpora <- SomeCorpora
    KeyOf <- Key
    TitleHas <- HasFragment
    FileName <- ResultsFile
    TitleOfPath <- PathAsTitle
    MethodOrder <- Methods
    IngestCommands <- SomeIngestions
    ResultFiles <- SomeResults
    Found <- SomeFound
    Informative <- Tells
    IdOf <- EdgeId
    LineageOptions <- SomeLineageOptions
    NodeCommands <- SomeNodes
    ListedAlerts = 2
    Outputs = {o1, o2}
    Time = 1
    MaxCommands = 3
    Absent = Absent
    TitleKey <- WithoutCase
    SafeName <- InLowerCase
    Parents <- SomeParents
    SectionOptions <- SomeSectionOptions
    MaxSectionings = 2
    NoDirectory = NoDirectory
    TickerRows <- SomeRows
    StableMix <- Mix
    Upper <- UpperCase
    FormOrder <- SomeForms
    Submission <- SomeSubmission
    Downloads <- SomeDownloads
    AcquisitionRequests <- SomeAcquisitions
    BulkLimit = 3
    SaveEach = 2
    MaxAcquisitions = 2
    NoRun = NoRun
SYMMETRY SomeDirectories
INVARIANTS
    ReceiptsTellTheTruth
    SeriesTellTheHistory
    LineageLooksBack
CHECK_DEADLOCK FALSE
