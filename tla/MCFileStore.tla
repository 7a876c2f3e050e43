---------------------------- MODULE MCFileStore ----------------------------
(* Instances of FileStore for TLC. *)
EXTENDS FileStore, TLC

\* Guids are interchangeable.
Symmetric == Permutations(Guid)

\* One instance for both sides of the store.  Power losses and reads are
\* explored apart, each with three writes, and with two once a call has
\* failed; batches of two frames without reads and failed calls.
ReadersOrCrashes ==
    /\ NoReaders \/ crashes = 0
    /\ (NoReaders /\ crashes = 0) \/ writes + faults <= MaxWrites
    /\ (NoReaders /\ faults = 0) \/ Cardinality({g \in Guid : batch[g] # NoSlot}) <= 1
=============================================================================
