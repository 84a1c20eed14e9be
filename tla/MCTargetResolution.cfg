\* 1314 sets of files, cyclic ones and broken ones included; nine lists of targets.
CONSTANTS
    Id <- MCId
    MaxQuiz = 1
    Difficulties <- MCDifficulties
    NoQuiz = NoQuiz
    Files <- MCFiles
    Segments <- MCSegments
    TargetLists <- MCTargetLists
    MaxStack = 24
SPECIFICATION ResSpec
INVARIANTS
    GrayIsStack
    CyclesFound
    CleanMeansUsable
    OrphansMirrorExpansion
    FrontierIsReady
    ComputesResolveTargets
    OrderIsTopological
    ComputesReachable
PROPERTY LoopsEnd
CHECK_DEADLOCK FALSE
