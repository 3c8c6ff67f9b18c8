-------------------------- MODULE MCStorageTarget --------------------------
(***************************************************************************)
(* Instances of StorageTarget for TLC.                                     *)
(***************************************************************************)
EXTENDS StorageTarget, TLC

CONSTANTS t1, t2, b1, b2, c1, c2

Shared == 1 :> {b1} @@ 2 :> {b1, b2}

\* No property names a target or a caller.
Symmetry == Permutations(Targets) \cup Permutations(Callers)
=============================================================================
