\* the search of one level, with the bounded heap and without
SPECIFICATION FairSpec
CONSTANTS
    Vectors <- MCVectors
    Level <- MCLevel
    Indexes <- MCIndexes
    Cross <- MCCross
    Queries <- MCQueries
    Dist <- MCDist
    ML = 1
    First = 2
    EfSearches <- MCEfSearches
    MaxK = 3
    NoVector = NoVector
INVARIANTS ResultsBest ResultsExpanded BeamExhausts
PROPERTY SearchEnds
