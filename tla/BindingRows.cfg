SPECIFICATION Spec
CONSTANTS
    Threads = {t1, t2}
    Fields = {f1, f2}
    Buffers = {b1, b2}
    MaxKey = 2
    MaxOps = 3
    BatchSize = 1
    PageSize = 1
    Queries = {q1, q2}
    MaxQueries = 5
    MaxLosses = 1
    Bindings <- OnlyBadger
    Longer <- LongerBindings
SYMMETRY Symmetry
CHECK_DEADLOCK FALSE
INVARIANT RowsAsWritten
