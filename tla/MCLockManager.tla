--------------------------- MODULE MCLockManager ---------------------------
(* LockManager for TLC: the callers are interchangeable.                   *)
EXTENDS LockManager, TLC

CallerSymmetry == Permutations(Callers)
=============================================================================
