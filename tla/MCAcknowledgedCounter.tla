----------------------- MODULE MCAcknowledgedCounter -----------------------
(* Small instances of AcknowledgedCounter. *)
EXTENDS AcknowledgedCounter, TLC

CONSTANTS t1, t2, t3

TwoThreads   == {t1, t2}
ThreeThreads == {t1, t2, t3}
ThreadSymmetry == Permutations(ThreeThreads)
=============================================================================
