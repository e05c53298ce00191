SPECIFICATION PortfolioSpec
CONSTANTS
    Contracts <- SomeTexts
    Profiles = {"lease", "general"}
    AnalysisChoices <- SomeLimits
    CompareChoices <- SomeComparisons
    Sources <- SomeSources
    Scope <- Everything
    AnalysisOptions <- Usual
    CompareOptions <- Comparing
    BenchmarkOptions <- Benchmarking
    MaxFiles = 2
    MaxImports = 2
    Absent = Absent
    IdLength = 6
    Numerals <- NumeralWords
    Amounts <- AmountWords
    Percents <- PercentWords
    ValueOf <- Values
    Capitals <- CapitalWords
    ShortWords <- Brief
    Alphabet <- Places_
    LongestHeading = 8
    LongestLabel = 3
    ShortestSentence = 2
    Before = 3
    After = 3
INVARIANTS
    ContractsAreWhole
    ComparisonsBalance
    OutliersStandOut
    PipelineIsWhole
CHECK_DEADLOCK FALSE
