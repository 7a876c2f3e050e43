---------------------------- MODULE MCCheckpoint ----------------------------
(* Instances of Checkpoint for TLC.                                           *)
EXTENDS Checkpoint, TLC

CONSTANTS w1, w2, k1, k2, c1, c2

MCWriters1 == {w1}
MCWriters2 == {w1, w2}
MCKeys == {k1, k2}
MCKids1 == {c1}
MCSymmetry == Permutations({w1, w2}) \cup Permutations(MCKeys) \cup Permutations({c1, c2})

(* Around failing calls and a crash there is one operation at a time; two     *)
(* failing calls meet one operation, a failing call and a crash two.          *)
FaultsOrWriters ==
    \/ faults + crashes = 0
    \/ /\ Cardinality({w \in Writers : InMaintenance(w)}) <= 1
       /\ faults + crashes <= 2
       /\ faults = 2 => ops <= 1
=============================================================================
