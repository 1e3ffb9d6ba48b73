SPECIFICATION Spec
CONSTANTS
    Threads = {t1, t2}
    Fields = {f1, f2}
    Buffers = {b1, b2}
    MaxKey = 2
    MaxOps = 3
    BatchSize = 1
    PageSize = 1
    Queries = {q1, q2}
    MaxQueries = 6
    MaxLosses = 2
    Bindings <- AllBindings
    Longer <- LongerBindings
SYMMETRY Symmetry
CHECK_DEADLOCK FALSE
INVARIANTS
    TypeOK
    NoLostUpdate
    
    
    ScanIsBetween
    CountIsBetween
    CleanLeavesNothing
    
    OneConnectionEach
    
