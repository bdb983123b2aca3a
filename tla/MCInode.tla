------------------------------ MODULE MCInode ------------------------------
(* Inode with two processes and, besides the root directory, two inodes,    *)
(* one block and a name.                                                    *)
EXTENDS Inode, TLC

Symmetry == Permutations(Procs)
=============================================================================
