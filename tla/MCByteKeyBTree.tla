---------------------------- MODULE MCByteKeyBTree ----------------------------
(* The storage on a small instance; the purging goroutines are interchangeable. *)
EXTENDS ByteKeyBTree, TLC

Symmetry == Permutations(Purger)
=============================================================================
