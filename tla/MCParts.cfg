SPECIFICATION Spec
CONSTANTS
    Pipelines <- MCPipelines
    NoConstructor <- MCNoConstructor
    Frequency = 6
    MaxRun = 8
    MaxWait = 2
    Indices = {0, 1}
    Calls = {0, 1}
    MaxChunks = 5
    Plugins = {p1, p2}
    Requests <- MCRequests
    MaxCalls = 3
    Sizes = {1, 2, 4, 7}
    Settings <- MCSettings
    MaxNodes = 4
    Inputs <- MCInputs
    Operations <- MCOperations
    MaxOperations = 2
    Alphabet <- MCAlphabet
    Known <- MCKnown
    Organizations = {o1, o2}
    Roles = {1, 2}
    MaxChanges = 2
SYMMETRY MCSymmetry
\* A run, a request, a document, a stream end.
CHECK_DEADLOCK FALSE
PROPERTIES
    RunsSpaced
INVARIANTS
    SeesExactlyEarlierStages
    LastTopStageWins
    IdleBounded
    MergedAsForwarded
    RowsAsGiven
    MadeTablesTakeRows
    ChunksAreTheDocument
    ItemsKept
    FirstOfferIsTaken
