--------------------------- MODULE MCProcessLock ---------------------------
(* Small instances of ProcessLock for TLC.                                 *)
EXTENDS ProcessLock, TLC

CONSTANTS p1, p2, p3

MCSymmetry == Permutations(Procs)
=============================================================================
