\* the default options: is every level searched?
SPECIFICATION Spec
CONSTANTS
    TopLevel = 4
    Ids <- MCIds
    LevelOf <- MCLevelOf
    Dist <- MCDist
    Relations <- MCRelations
    Source <- MCSource
    Target <- MCTarget
    Queries <- MCQueries
    KEachLevel = 2
    KFinal = 2
    AllKInference = 17
    AllKAdaptive = 50
    RangeLevel = 2
    TopkE = 4
    MaxRetries = 2
    Rates = {0, 1, 3}
    Farthest = 1
    MaxTokens = 2
    Heading = 1
    RowSize <- MCRowSize
    ChunkSize <- MCChunkSize
    ReduceRows = 1
    InvolveLlm = TRUE
    Scores = {0, 1, 2}
    NoNumber = NoNumber
    NoAnswer = NoAnswer
    MaxPoints = 2
INVARIANT GlobalSearchesEachLevel
CHECK_DEADLOCK FALSE
