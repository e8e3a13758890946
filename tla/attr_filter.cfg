\* weighted_leiden with the quality filter; the indexer may die and be restarted
SPECIFICATION Spec
CONSTANTS
    Entities <- MCFour
    Relationships <- MCPathOfFour
    MaxLevel = 3
    MinClusters = 2
    Ratings = {1, 5}
    NoRating = NoRating
    QualityThreshold = 3
    MinRating = 2
    SmartStop = TRUE
    QualityFilter = TRUE
    Backfill = FALSE
    NoFile = NoFile
    MaxRuns = 3
    TornWrites = FALSE
INVARIANTS
    TypeOK CommunitiesNest LevelsContiguous
    MemoryMatchesFiles EveryNodeFound LoadedLevelPasses
PROPERTY SavedLevelsStable
CHECK_DEADLOCK FALSE
