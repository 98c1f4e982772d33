------------------------- MODULE MCIndexProjection -------------------------
(* Small instances of IndexProjection for TLC.                              *)
EXTENDS IndexProjection, TLC

CONSTANTS f1, f2, w1, w2

\* Worker processes are interchangeable; not used where liveness is checked.
WorkerSymmetry == Permutations({w1, w2})
=============================================================================
