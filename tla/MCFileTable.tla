---------------------------- MODULE MCFileTable ----------------------------
(* FileTable with two processes that have two descriptors each, three       *)
(* files, one inode besides the directory, and one pipe.                    *)
EXTENDS FileTable, TLC

Symmetry == Permutations(Procs)
=============================================================================
