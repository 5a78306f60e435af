--------------------------- MODULE MCDescriptors ---------------------------
(* An instance of Descriptors for TLC. *)
EXTENDS Descriptors, TLC

Symmetry == Permutations(Proc) \cup Permutations(File) \cup Permutations(Inode)
=============================================================================
