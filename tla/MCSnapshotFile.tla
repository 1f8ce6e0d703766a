--------------------------- MODULE MCSnapshotFile ---------------------------
(* Small instances of SnapshotFile. *)
EXTENDS SnapshotFile, TLC

CONSTANTS s1, s2, p1, p2, g1, g2, i1, i2, i3, i4

\* Every thread in a process of its own.
OwnPid == s1 :> p1 @@ s2 :> p2

\* Bodies of different layout.
OneAndTwo == g1 :> 1 @@ g2 :> 2

\* Inodes are alike.
Alike == Permutations(Inodes)
=============================================================================
