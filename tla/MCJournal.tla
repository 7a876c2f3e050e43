------------------------------ MODULE MCJournal -----------------------------
(* Journal for TLC: a ring of three bytes holds one or two records, so that   *)
(* writers wait for space and ranges wrap.                                    *)
EXTENDS Journal, TLC
MCLens == {1, 2}
MCBothModes == BOOLEAN
MCSyncOnly == {TRUE}
MCSymmetry == Permutations(Writers)
=============================================================================
