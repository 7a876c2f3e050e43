---------------------------- MODULE HybridLatch -----------------------------
(* The three-mode latch of a cached blob frame: src/concurrency/              *)
(* hybrid_latch.rs, used through store/buffer_manager/cached_blob.rs.         *)
(*                                                                            *)
(* A frame is a set of cells that are read and written one at a time.  The    *)
(* exclusive hold that takes the frame from version n to n + 1 writes n + 1   *)
(* in every cell, so the frame of version n holds n everywhere.               *)
EXTENDS Naturals, FiniteSets

CONSTANTS Threads, Cells,
          None,         \* a cell not read yet
          MaxVersion,   \* bound on exclusive holds, for model checking
          LateReads     \* may a plain load run after an Acquire load that
                        \* follows it in the program (AArch64)?

ASSUME LatchAssumption ==
    /\ IsFiniteSet(Threads)
    /\ None \notin Nat
    /\ MaxVersion \in Nat /\ LateReads \in BOOLEAN

VARIABLES readers,    \* the counter when it counts shared holders
          writer,     \* the counter is WRITER
          version,
          data,       \* the frame
          pc,         \* where each thread is
          snap,       \* the version each thread saw
          seen        \* the cells each thread has read

vars == <<readers, writer, version, data, pc, snap, seen>>

Unread == [c \in Cells |-> None]
Goto(t, place) == pc' = [pc EXCEPT ![t] = place]

(* The thread lets go of what it read.                                        *)
Restart(t) == Goto(t, "idle") /\ seen' = [seen EXCEPT ![t] = Unread]

ReadAll(t) == \A c \in Cells : seen[t][c] # None

Init == /\ readers = 0 /\ writer = FALSE /\ version = 0
        /\ data = [c \in Cells |-> 0]
        /\ pc = [t \in Threads |-> "idle"]
        /\ snap = [t \in Threads |-> 0]
        /\ seen = [t \in Threads |-> Unread]

-----------------------------------------------------------------------------
(* Optimistic mode.  acquire_optimistic loads the version, then the counter.  *)
LoadVersion(t) ==
    /\ pc[t] = "idle"
    /\ snap' = [snap EXCEPT ![t] = version]
    /\ Goto(t, "snapped")
    /\ UNCHANGED <<readers, writer, version, data, seen>>

CheckIdle(t) ==
    /\ pc[t] = "snapped"
    /\ Goto(t, IF writer THEN "idle" ELSE "reading")
    /\ UNCHANGED <<readers, writer, version, data, snap, seen>>

(* Plain loads of the frame; late ones float below validate's loads.          *)
ReadCell(t, c) ==
    /\ \/ pc[t] = "reading"
       \/ LateReads /\ pc[t] \in {"validating", "valid"}
    /\ seen[t][c] = None
    /\ seen' = [seen EXCEPT ![t][c] = data[c]]
    /\ UNCHANGED <<readers, writer, version, data, pc, snap>>

(* validate: the counter first, then the version.                             *)
ValidateCounterSkipped(t) ==
    /\ pc[t] = "reading" /\ (ReadAll(t) \/ LateReads)
    /\ Goto(t, "validating")
    /\ UNCHANGED <<readers, writer, version, data, snap, seen>>

ValidateCounter(t) ==
    /\ pc[t] = "reading" /\ (ReadAll(t) \/ LateReads)
    /\ IF writer THEN Restart(t) ELSE Goto(t, "validating") /\ UNCHANGED seen
    /\ UNCHANGED <<readers, writer, version, data, snap>>

ValidateVersion(t) ==
    /\ pc[t] = "validating"
    /\ IF version = snap[t] THEN Goto(t, "valid") /\ UNCHANGED seen ELSE Restart(t)
    /\ UNCHANGED <<readers, writer, version, data, snap>>

Done(t) ==
    /\ pc[t] = "valid" /\ ReadAll(t)
    /\ Restart(t)
    /\ UNCHANGED <<readers, writer, version, data, snap>>

-----------------------------------------------------------------------------
(* Shared mode.  A checkpoint's clone reads the version under the guard       *)
(* (snapshot_bytes_if_version) and then copies the frame.                     *)
AcquireSharedUnchecked(t) ==
    /\ pc[t] = "idle"
    /\ readers' = readers + 1
    /\ Goto(t, "shared")
    /\ UNCHANGED <<writer, version, data, snap, seen>>

AcquireShared(t) ==
    /\ pc[t] = "idle" /\ ~writer
    /\ readers' = readers + 1
    /\ Goto(t, "shared")
    /\ UNCHANGED <<writer, version, data, snap, seen>>

CloneVersion(t) ==
    /\ pc[t] = "shared"
    /\ snap' = [snap EXCEPT ![t] = version]
    /\ Goto(t, "cloning")
    /\ UNCHANGED <<readers, writer, version, data, seen>>

CloneCell(t, c) ==
    /\ pc[t] = "cloning" /\ seen[t][c] = None
    /\ seen' = [seen EXCEPT ![t][c] = data[c]]
    /\ UNCHANGED <<readers, writer, version, data, pc, snap>>

ReleaseShared(t) ==
    /\ pc[t] = "cloning" /\ ReadAll(t)
    /\ readers' = readers - 1
    /\ Restart(t)
    /\ UNCHANGED <<writer, version, data, snap>>

-----------------------------------------------------------------------------
(* Exclusive mode.                                                            *)
AcquireExclusiveOverReaders(t) ==
    /\ pc[t] = "idle" /\ ~writer
    /\ version < MaxVersion
    /\ writer' = TRUE
    /\ Goto(t, "writing")
    /\ UNCHANGED <<readers, version, data, snap, seen>>

AcquireExclusive(t) ==
    /\ pc[t] = "idle" /\ ~writer /\ readers = 0
    /\ version < MaxVersion
    /\ writer' = TRUE
    /\ Goto(t, "writing")
    /\ UNCHANGED <<readers, version, data, snap, seen>>

WriteCell(t, c) ==
    /\ pc[t] = "writing"
    /\ data' = [data EXCEPT ![c] = version + 1]
    /\ UNCHANGED <<readers, writer, version, pc, snap, seen>>

(* release_exclusive: the version first, then the flag.                       *)
BumpVersion(t) ==
    /\ pc[t] = "writing" /\ \A c \in Cells : data[c] = version + 1
    /\ version' = version + 1
    /\ Goto(t, "bumped")
    /\ UNCHANGED <<readers, writer, data, snap, seen>>

ClearFlag(t) ==
    /\ pc[t] = "bumped"
    /\ writer' = FALSE
    /\ Goto(t, "idle")
    /\ UNCHANGED <<readers, version, data, snap, seen>>

Optimistic(t) == \/ LoadVersion(t) \/ CheckIdle(t)
                 \/ \E c \in Cells : ReadCell(t, c)
                 \/ ValidateCounter(t) \/ ValidateVersion(t) \/ Done(t)

Shared(t) == \/ AcquireShared(t) \/ CloneVersion(t)
             \/ \E c \in Cells : CloneCell(t, c)
             \/ ReleaseShared(t)

Exclusive(t) == \/ AcquireExclusive(t)
                \/ \E c \in Cells : WriteCell(t, c)
                \/ BumpVersion(t) \/ ClearFlag(t)

Next == \E t \in Threads : Optimistic(t) \/ Shared(t) \/ Exclusive(t)

Spec == Init /\ [][Next]_vars

-----------------------------------------------------------------------------
Places == {"idle", "snapped", "reading", "validating", "valid",
           "shared", "cloning", "writing", "bumped"}

(* The counter is the shared holders' number or WRITER, never both.           *)
TypeOK == /\ readers \in Nat /\ writer \in BOOLEAN /\ version \in Nat
          /\ data \in [Cells -> Nat]
          /\ pc \in [Threads -> Places]
          /\ snap \in [Threads -> Nat]
          /\ seen \in [Threads -> [Cells -> Nat \cup {None}]]
          /\ writer => readers = 0

(* OptimisticGuard::validate "returns true if no exclusive writer modified    *)
(* the buffer between the snapshot and now": what was read is exactly the     *)
(* frame of the snapshot's version, not a mixture of two.                     *)
ValidatedReadIsAtomic ==
    \A t \in Threads : pc[t] = "valid" =>
        \A c \in Cells : seen[t][c] \in {None, snap[t]}

(* A checkpoint's clone is the frame of the version it is recorded under; the *)
(* version test at write time stands on that.                                 *)
CloneIsOfItsVersion ==
    \A t \in Threads : pc[t] = "cloning" =>
        \A c \in Cells : seen[t][c] \in {None, snap[t]}

=============================================================================
