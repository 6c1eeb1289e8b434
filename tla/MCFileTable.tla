---------------------------- MODULE MCFileTable ----------------------------
(* Values of the constants of FileTable for TLC. *)
EXTENDS FileTable, TLC

\* All names in one bucket: the longest chains.
OneBucket == [n \in Names |-> 0]

\* Nothing tells users apart, nor names that share a bucket.
TableSymmetry == Permutations(Names) \cup Permutations(Users)
=============================================================================
