--------------------------- MODULE MCSnapshotFile ---------------------------
(***************************************************************************)
(* The files are interchangeable: they are only ever compared.             *)
(***************************************************************************)
EXTENDS SnapshotFile, TLC

InodeSymmetry == Permutations(Inodes)

=============================================================================
