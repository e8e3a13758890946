\* mutual_knn_leiden without the filter: isolated nodes are put back; a run starts on
\* whatever a killed one left, files of which only a part was written included
SPECIFICATION Spec
CONSTANTS
    Entities <- MCFive
    Relationships <- MCOnePair
    MaxLevel = 2
    MinClusters = 2
    Ratings = {}
    NoRating = NoRating
    QualityThreshold = 3
    MinRating = 2
    SmartStop = TRUE
    QualityFilter = FALSE
    Backfill = TRUE
    NoFile = NoFile
    MaxRuns = 3
    TornWrites = TRUE
INVARIANTS LevelsCoverEntities EveryClusterReported UniqueIds
CHECK_DEADLOCK FALSE
