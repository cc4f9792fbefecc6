SPECIFICATION Spec
CONSTANTS
    Nil = Nil
    Clients = {1, 2}
    Keys = {1, 2}
    Program <- PRace
    Backends = {"learned", "btree"}
    BlockSize = 2
    FlushThreshold = 2
    MaxTables = 6
    NumLevels = 4
    MaxRestarts = 0
INVARIANT ReadsLatest
