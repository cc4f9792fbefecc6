SPECIFICATION Spec
CONSTANTS
    Nil = Nil
    Mantissa = 3
    ModelBytes = 1
    OrdinalBytes = 2
    Base = 4
    HalfRange = 16
    KeyTypes = {"u64", "i64", "u128", "bytes"}
    Universe <- MCUniverse
    Loads <- MCLoads
    Batches <- MCBatches
    Configs <- MCConfigs
    MaxCalls = 3
INVARIANTS OrderedScan RangeExact EndsExact
PROPERTY Refines
CHECK_DEADLOCK FALSE
VIEW View
