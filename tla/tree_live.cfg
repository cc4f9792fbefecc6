SPECIFICATION FairSpec
CONSTANTS
    t1 = t1
    t2 = t2
    t3 = t3
    Nil = Nil
    ExpansionHalves = 2
    Threads = {t1, t2}
    Keys = {63, 64, 65}
    Program <- PLive
    Main = t1
    Prelude = 1
    AutoRebuild = TRUE
    DepthThreshold = 0
    TombNum = 1
    TombDen = 5
    InitialRootRebuild = 64
    MaxNodes = 9
    Slots = {0, 1, 2, 3, 4, 63}
    EmptyModel <- MCEmptyModel
    SingleModel <- MCSingleModel
    ConflictModel <- MCConflictModel
    SubtreeFit <- LiveSubtreeFit
    RootFit <- LiveRootFit
PROPERTIES Terminates
