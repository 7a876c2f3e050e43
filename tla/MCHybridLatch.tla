--------------------------- MODULE MCHybridLatch ----------------------------
(* Three threads, each of which may read optimistically, clone and write, and *)
(* a frame of two cells.                                                      *)
EXTENDS HybridLatch, TLC
MCSymmetry == Permutations(Threads) \cup Permutations(Cells)
=============================================================================
