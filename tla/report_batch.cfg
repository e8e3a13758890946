\* four communities, two workers, two answers of two calls each
SPECIFICATION FairSpec
CONSTANTS
    N = 4
    Extractive <- MCExtractive
    Workers = {w1, w2}
    ChunksPerWorker = 1
    MaxRetries = 2
    MaxGenerate = 2
    EmbedWorkers = 2
INVARIANTS CompleteInOrder NothingRunsOn
PROPERTIES AllOrNothing BatchEnds
