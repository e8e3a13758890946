\* runs killed and started again, and a load that may begin at any time
SPECIFICATION Spec
CONSTANTS
    c1 = c1
    c2 = c2
    Communities <- MCCommunities
    Hierarchies <- MCHierarchies
    TripleText = TRUE
    NoFile = NoFile
    NoHierarchy = NoHierarchy
    MaxRuns = 3
INVARIANTS OneHierarchy BuiltIsWhole
PROPERTY PublishedOnceSpec
CHECK_DEADLOCK FALSE
