\* a level that repeats the one below is built
SPECIFICATION Spec
CONSTANTS
    Entities <- MCThree
    Relationships <- MCPathOfThree
    MaxLevel = 3
    MinClusters = 2
    Ratings = {5}
    NoRating = NoRating
    QualityThreshold = 3
    MinRating = 2
    SmartStop = TRUE
    QualityFilter = FALSE
    Backfill = FALSE
    NoFile = NoFile
    MaxRuns = 1
    TornWrites = FALSE
INVARIANT ConvergedLevelNotBuilt
CHECK_DEADLOCK FALSE
