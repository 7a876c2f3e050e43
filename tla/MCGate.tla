------------------------------- MODULE MCGate -------------------------------
(* Gate for TLC: six threads, and a count field that saturates at three, so   *)
(* that more threads want the shared side than the word can count.            *)
EXTENDS Gate
MCCountMask == 3
=============================================================================
