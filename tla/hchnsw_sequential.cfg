\* one thread
SPECIFICATION Spec
CONSTANTS
    Vectors <- MCTwoOverFour
    Level <- MCTwoOverFourLevel
    Dist <- MCDist
    ML = 1
    M = 4
    EfConstruction = 8
    Threads = {t1}
    NoVector = NoVector
    NoThread = NoThread
INVARIANT LevelConnected
