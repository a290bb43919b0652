SPECIFICATION ExperimentSpec
CONSTANTS
    Pools <- MCPools
    Operations <- MCOperations
    NodesOptions = {0, 2}
    ControllersFollowed <- MCControllersFollowed
    ResultsFollowed <- MCResultsFollowed
    c1 = c1
    c2 = c2
    c3 = c3
    Controllers = {c1, c2, c3}
    Self = c1
    DictionarySize = 3
    SetSizes = {0, 1, 2, 3, 4}
    Launches = 3
    MaxFd = 8
    n1 = n1
    n2 = n2
    Uninitialized = Uninitialized
    NaN = NaN
    Nodes = {n1, n2}
    Measured = {"put", "get"}
    Rated = {"get"}
    ReportOrder <- MCReportOrder
    OutputOrder <- MCOutputOrder
    Times = {1, 2}
    Latencies = {1, 5}
    FrequencyInterval = 2
    CdfPoints = 2
    MaxMeasurements <- MCMaxMeasurements
    MaxRuns = 2
SYMMETRY MCSymmetry
INVARIANTS
    VerdictInvariant
    NodesGetWhatTheFileSays
    PlaceInvariant
    DescriptorInvariant
    ReadsInsideDictionary
    PrintedInvariant
    GeneralIsExact
    FilesInStep
