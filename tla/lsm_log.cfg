SPECIFICATION Spec
CONSTANTS
    Nil = Nil
    Clients = {1}
    Keys = {1, 2}
    Program <- PLog
    Backends = {"learned", "btree", "skiplist"}
    BlockSize = 2
    FlushThreshold = 2
    MaxTables = 4
    NumLevels = 4
    MaxRestarts = 1
INVARIANTS LogMatchesMemtable CrashKeepsPrefix
