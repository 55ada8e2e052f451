SPECIFICATION ToolsSpec
CONSTANTS
    Disks <- AllDisks
    Awb <- AwbFiles
    Models <- AllModels
    MaxDepth = 6
    SourceTree <- WholeTree
    TooDeep <- Deep
    BaseFiles <- AllBaseFiles
    MaxConfigures = 2
    Texts <- AllTexts
    Trees <- AllTrees
    Types <- AllTypes
    Attributes <- AllAttributes
    MaxCollects = 1
    Benchmarks <- AllBenchmarks
    Requests <- AllRequests
    IniDisks <- AllIniDisks
    Puts <- AllPuts
    MaxInclude = 2
    MaxPuts = 2
    CommandLines <- AllCommandLines
    MaxCalls = 2
    Numeral <- Numbers10
    ThreadOf <- OneThread
    KnownSymbols <- OneSymbol
    StateLists <- AllStateLists
    CommandList <- CommandStates
    PmWords <- AllWords
    PmDone <- PerformedWords
    ArgLines <- AllArgLines
    ArgFiles <- AllArgFiles
    Numeric <- NumberOf
    ParamNames <- OneParam
    Builds <- AllBuilds
INVARIANTS
    FoundAsWritten
    RunIsPrepared
    TreeOfWanted
    ParamsDefined
    OwnFilesOnly
    StatesFound
    SaidAsSuspended
    SameMeaning
    ArgsAsTyped
PROPERTIES
    PutIsKept
    SetupIsWhole
    ParsingEnds
CHECK_DEADLOCK FALSE
