--------------------------- MODULE MCCoreWorkload ---------------------------
(* Instances of CoreWorkload for TLC. *)
EXTENDS CoreWorkload, TLC

CONSTANTS t1, t2, b1, b2, b3, b4

TwoThreads  == {t1, t2}
FourBuffers == {b1, b2, b3, b4}
Symmetric   == Permutations(TwoThreads) \union Permutations(FourBuffers)

Loading == [load |-> TRUE, batchSize |-> 2, operations |-> {},
            distribution |-> "uniform", retryLimit |-> 1]
Single  == [load |-> FALSE, batchSize |-> 1, distribution |-> "latest",
            operations |-> {"read", "update", "insert", "scan", "readModifyWrite"},
            retryLimit |-> 0]
Batch   == [load |-> FALSE, batchSize |-> 2, distribution |-> "exponential",
            operations |-> {"read", "update", "insert", "scan"}, retryLimit |-> 0]

AllConfigurations  == {Loading, Single, Batch}
LoadConfigurations == {Loading}
=============================================================================
