------------------------- MODULE MCSnapshotRestore -------------------------
(***************************************************************************)
(* Instances of SnapshotRestore for TLC.                                   *)
(***************************************************************************)
EXTENDS SnapshotRestore, TLC

CONSTANTS save1, save2, root1, root2

\* Two save locations overlap: both lead to the first file.
Overlapping == 1 :> save1 @@ 2 :> save1 @@ 3 :> save2
\* A pattern in the catalog resolves to two files.
Apart == 1 :> save1 @@ 2 :> save2

OneEach == [p \in Paths |-> p]
Pattern == [p \in Paths |-> 1]
=============================================================================
