SPECIFICATION Spec
CONSTANTS
    t1 = t1
    t2 = t2
    t3 = t3
    Nil = Nil
    ExpansionHalves = 2
    Threads = {t1, t2, t3}
    Keys = {63, 64, 65}
    Program <- PRead
    Main = t1
    Prelude = 2
    AutoRebuild = TRUE
    DepthThreshold = 0
    TombNum = 1
    TombDen = 2
    InitialRootRebuild = 64
    MaxNodes = 10
    Slots = {0, 1, 2, 3, 4, 63}
    EmptyModel <- MCEmptyModel
    SingleModel <- MCSingleModel
    ConflictModel <- MCConflictModel
    SubtreeFit <- MCSubtreeFit
    RootFit <- MCRootFit
INVARIANTS TypeOK IterRegular ReadsWritten LenExact
