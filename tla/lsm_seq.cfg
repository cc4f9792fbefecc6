SPECIFICATION Spec
CONSTANTS
    Nil = Nil
    Clients = {1}
    Keys = {1, 2, 3, 4, 5, 6}
    Program <- PSeq
    Backends = {"learned", "btree", "skiplist"}
    BlockSize = 2
    FlushThreshold = 1
    MaxTables = 3
    NumLevels = 1
    MaxRestarts = 0
INVARIANT GetRegular ReadsLatest
