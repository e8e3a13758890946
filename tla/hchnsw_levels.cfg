\* three levels, two threads, searches that keep the nearest vector only (efConstruction 1) and
\* lists that overflow; the build ends
SPECIFICATION FairSpec
CONSTANTS
    Vectors <- MCThreeLevels
    Level <- MCThreeLevelsLevel
    Dist <- MCDist
    ML = 2
    M = 2
    EfConstruction = 1
    Threads = {t1, t2}
    NoVector = NoVector
    NoThread = NoThread
INVARIANTS FinishedLevelHasEntry OwnListFresh CrossComplete
PROPERTIES FinishedLevelsFrozen BuildEnds
