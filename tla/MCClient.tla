------------------------------ MODULE MCClient ------------------------------
(* Instances of Client for TLC. *)
EXTENDS Client

\* Too few, divisible or not by two workers, and a batch that divides no share.
SmallCounts  == {1, 2, 3, 5}
SmallBatches == {1, 2}
=============================================================================
