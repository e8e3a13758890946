\* a restart after the last level was saved loses it
SPECIFICATION Spec
CONSTANTS
    Entities <- MCThree
    Relationships <- MCPathOfThree
    MaxLevel = 2
    MinClusters = 2
    Ratings = {5}
    NoRating = NoRating
    QualityThreshold = 3
    MinRating = 2
    SmartStop = TRUE
    QualityFilter = FALSE
    Backfill = FALSE
    NoFile = NoFile
    MaxRuns = 2
    TornWrites = FALSE
INVARIANT NoLevelLost
CHECK_DEADLOCK FALSE
