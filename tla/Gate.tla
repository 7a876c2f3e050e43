-------------------------------- MODULE Gate --------------------------------
(* The shared/exclusive admission gate of src/concurrency/gate.rs.            *)
(*                                                                            *)
(* The gate is one atomic word: a WRITE_BIT and a count of shared entrants.   *)
(* An exclusive entrant sets the bit first and drains the count second, so    *)
(* the word is between the two states while "draining".  A load followed by   *)
(* a successful compare_exchange is one step; a failed one changes nothing.   *)
(* Batch entry (enter_batch) is exclusive entry under another guard type, and *)
(* CommitGate's two sides are enter_shared and enter_exclusive.               *)
EXTENDS Naturals, FiniteSets

CONSTANTS Threads,     \* the threads that use the gate
          COUNT_MASK   \* largest shared count the word can hold

ASSUME GateAssumption == IsFiniteSet(Threads) /\ COUNT_MASK \in Nat \ {0}

VARIABLES write_bit,   \* BOOLEAN
          count,       \* number in the word's count field
          pc           \* where each thread is with respect to the gate

vars == <<write_bit, count, pc>>

Places == {"outside", "shared", "draining", "exclusive"}

Holders(place) == {t \in Threads : pc[t] = place}

Init == /\ write_bit = FALSE
        /\ count = 0
        /\ pc = [t \in Threads |-> "outside"]

-----------------------------------------------------------------------------
(* A shared entry that overlooks the pending bit.                             *)
EnterSharedIgnoringWriter(t) ==
    /\ pc[t] = "outside"
    /\ count # COUNT_MASK
    /\ count' = count + 1
    /\ pc' = [pc EXCEPT ![t] = "shared"]
    /\ UNCHANGED write_bit

(* A shared entry that does not check the count field for saturation.         *)
EnterSharedUnchecked(t) ==
    /\ pc[t] = "outside"
    /\ ~write_bit
    /\ count' = count + 1
    /\ pc' = [pc EXCEPT ![t] = "shared"]
    /\ UNCHANGED write_bit

EnterShared(t) ==
    /\ pc[t] = "outside"
    /\ ~write_bit
    /\ count # COUNT_MASK
    /\ count' = count + 1
    /\ pc' = [pc EXCEPT ![t] = "shared"]
    /\ UNCHANGED write_bit

(* Setting the bit with a store instead of a compare_exchange.                *)
SetWriteBitOverCount(t) ==
    /\ pc[t] = "outside"
    /\ ~write_bit
    /\ write_bit' = TRUE
    /\ count' = 0
    /\ pc' = [pc EXCEPT ![t] = "draining"]

(* The first half of enter_exclusive: nobody else holds or awaits the bit.    *)
SetWriteBit(t) ==
    /\ pc[t] = "outside"
    /\ ~write_bit
    /\ write_bit' = TRUE
    /\ pc' = [pc EXCEPT ![t] = "draining"]
    /\ UNCHANGED count

(* A drain loop that is satisfied by the last-but-one reader.                 *)
DrainedEarly(t) ==
    /\ pc[t] = "draining"
    /\ count <= 1
    /\ pc' = [pc EXCEPT ![t] = "exclusive"]
    /\ UNCHANGED <<write_bit, count>>

(* The second half of enter_exclusive: the count has reached zero.            *)
Drained(t) ==
    /\ pc[t] = "draining"
    /\ count = 0
    /\ pc' = [pc EXCEPT ![t] = "exclusive"]
    /\ UNCHANGED <<write_bit, count>>

LeaveShared(t) ==
    /\ pc[t] = "shared"
    /\ count' = count - 1
    /\ pc' = [pc EXCEPT ![t] = "outside"]
    /\ UNCHANGED write_bit

(* leave_exclusive stores 0: it clears the bit and the count together.        *)
LeaveExclusive(t) ==
    /\ pc[t] = "exclusive"
    /\ write_bit' = FALSE
    /\ count' = 0
    /\ pc' = [pc EXCEPT ![t] = "outside"]

Next == \E t \in Threads : \/ EnterShared(t)
                           \/ SetWriteBit(t)
                           \/ Drained(t)
                           \/ LeaveShared(t)
                           \/ LeaveExclusive(t)

(* A guard is dropped when its scope ends, and a drain loop keeps polling.    *)
Fairness == \A t \in Threads : /\ WF_vars(LeaveShared(t))
                               /\ WF_vars(LeaveExclusive(t))
                               /\ WF_vars(Drained(t))

Spec == Init /\ [][Next]_vars

FairSpec == Spec /\ Fairness

-----------------------------------------------------------------------------
(* The word and the threads' positions have their types (Gate.state).         *)
TypeOK == /\ write_bit \in BOOLEAN
          /\ count \in 0..COUNT_MASK
          /\ pc \in [Threads -> Places]

(* An exclusive guard (GateWriteGuard, GateBatchGuard) excludes every other   *)
(* guard of the gate, shared or exclusive.                                    *)
MutualExclusion ==
    \A t \in Holders("exclusive") : \A u \in Threads \ {t} :
        pc[u] \notin {"shared", "exclusive"}

(* leave_exclusive stores 0 over the whole word.  That loses nothing only if  *)
(* the count is exactly the number of live GateReadGuards at every moment.    *)
CountIsExact == count = Cardinality(Holders("shared"))

(* "new shared entrants cannot starve it": once an exclusive entrant has set  *)
(* the pending bit it does get in.                                            *)
PendingWriterGetsIn == \A t \in Threads : pc[t] = "draining" ~> pc[t] = "exclusive"

=============================================================================
