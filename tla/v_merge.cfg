SPECIFICATION Spec
CONSTANTS
    Nil = Nil
    Clients = {1}
    Keys = {1, 2}
    Program <- PMerge
    Backends = {"learned", "btree", "skiplist"}
    BlockSize = 2
    FlushThreshold = 1
    MaxTables = 2
    NumLevels = 4
    MaxRestarts = 0
INVARIANT ReadsLatest
