------------------------- MODULE HybridLatchProofs --------------------------
(* Proofs about the hybrid latch, for every finite set of threads, every      *)
(* frame and every number of exclusive holds, on a machine that keeps a       *)
(* reader's loads in program order (LateReads = FALSE).                       *)
EXTENDS HybridLatch, FiniteSetTheorems, TLAPS

Holding == {"writing", "bumped"}
Sharers == {t \in Threads : pc[t] \in {"shared", "cloning"}}

(* The counter tells the truth about who holds the latch.                     *)
Exclusion == /\ readers = Cardinality(Sharers)
             /\ \A t \in Threads : pc[t] \in Holding => writer
             /\ \A t, u \in Threads : pc[t] \in Holding /\ pc[u] \in Holding => t = u

BeingWritten == \E t \in Threads : pc[t] = "writing"

(* Outside exclusive holds the frame is that of the current version.          *)
FrameOfVersion == ~BeingWritten => \A c \in Cells : data[c] = version

AllOf(t) == \A c \in Cells : seen[t][c] \in {None, snap[t]}

(* A mixed read is still to be found out: the version has moved on, or it     *)
(* will, because somebody is writing.                                         *)
ReadersKnow ==
    \A t \in Threads :
        /\ snap[t] <= version
        /\ pc[t] = "reading" => AllOf(t) \/ version > snap[t] \/ BeingWritten
        /\ pc[t] = "validating" => AllOf(t) \/ version > snap[t]
        /\ pc[t] = "valid" => AllOf(t)
        /\ pc[t] = "cloning" => AllOf(t) /\ snap[t] = version
        /\ pc[t] \in {"idle", "snapped", "shared"} \cup Holding => seen[t] = Unread

IInv == TypeOK /\ Exclusion /\ FrameOfVersion /\ ReadersKnow

(* The shared holders form a finite set.                                      *)
LEMMA SharersFinite == IsFiniteSet(Sharers)
  BY LatchAssumption, FS_Subset DEF Sharers

(* While the latch is held exclusively, or its counter is 0, nobody shares it.*)
LEMMA NoSharers ==
  ASSUME TypeOK, Exclusion, writer \/ readers = 0
  PROVE  \A t \in Threads : pc[t] \notin {"shared", "cloning"}
  <1>1. readers = 0
    BY DEF TypeOK
  <1>2. Cardinality(Sharers) = 0
    BY <1>1 DEF Exclusion
  <1>3. Sharers = {}
    BY <1>2, SharersFinite, FS_EmptySet
  <1> QED
    BY <1>3 DEF Sharers

(* A new latch is idle and its frame is version 0.                            *)
LEMMA InitIInv == Init => IInv
  <1> SUFFICES ASSUME Init PROVE IInv
    OBVIOUS
  <1>1. \A t \in Threads : pc[t] = "idle" /\ snap[t] = 0 /\ seen[t] = Unread
    BY DEF Init
  <1>2. Cardinality(Sharers) = 0
    <2>1. Sharers = {}
      BY <1>1 DEF Sharers
    <2> QED
      BY <2>1, FS_EmptySet
  <1>3. TypeOK
    <2>1. seen \in [Threads -> [Cells -> Nat \cup {None}]]
      BY DEF Init, Unread
    <2>2. readers \in Nat /\ version \in Nat /\ data \in [Cells -> Nat] /\ snap \in [Threads -> Nat]
      BY DEF Init
    <2>3. pc \in [Threads -> Places]
      BY DEF Init, Places
    <2> QED
      BY <2>1, <2>2, <2>3, Zenon DEF Init, TypeOK
  <1>4. Exclusion
    BY <1>1, <1>2 DEF Init, Exclusion, Holding
  <1>5. FrameOfVersion
    BY DEF Init, FrameOfVersion
  <1>6. ReadersKnow
    BY <1>1 DEF Init, ReadersKnow
  <1> QED
    BY <1>3, <1>4, <1>5, <1>6 DEF IInv

(* The steps of an optimistic reader.                                         *)
LEMMA OptimisticIInv ==
  ASSUME IInv, LateReads = FALSE, NEW t \in Threads, Optimistic(t)
  PROVE  IInv'
  <1> USE DEF IInv, Goto, Restart
  <1>0. UNCHANGED <<readers, writer, version, data>>
    BY DEF Optimistic, LoadVersion, CheckIdle, ReadCell, ValidateCounter, ValidateVersion, Done
  <1>1. Sharers' = Sharers
    BY DEF Sharers, TypeOK, Optimistic, LoadVersion, CheckIdle, ReadCell, ValidateCounter,
           ValidateVersion, Done
  <1>2. \A u \in Threads : pc'[u] \in Holding <=> pc[u] \in Holding
    BY DEF Holding, TypeOK, Optimistic, LoadVersion, CheckIdle, ReadCell, ValidateCounter,
           ValidateVersion, Done
  <1>3. BeingWritten' <=> BeingWritten
    BY DEF BeingWritten, TypeOK, Optimistic, LoadVersion, CheckIdle, ReadCell, ValidateCounter,
           ValidateVersion, Done
  <1>4. Exclusion'
    BY <1>0, <1>1, <1>2 DEF Exclusion
  <1>5. FrameOfVersion'
    BY <1>0, <1>3 DEF FrameOfVersion
  <1>6. ReadersKnow' /\ TypeOK'
    <2>1. CASE LoadVersion(t)
      BY <2>1, <1>0, <1>3 DEF LoadVersion, ReadersKnow, TypeOK, AllOf, Holding, Places
    <2>2. CASE CheckIdle(t)
      <3>1. pc[t] = "snapped" /\ seen[t] = Unread /\ UNCHANGED <<snap, seen>>
        BY <2>2 DEF CheckIdle, ReadersKnow
      <3>2. AllOf(t)'
        BY <3>1 DEF AllOf, Unread
      <3>3. pc' \in [Threads -> Places]
        BY <2>2 DEF CheckIdle, TypeOK, Places
      <3>4. TypeOK'
        BY <1>0, <3>1, <3>3 DEF TypeOK
      <3> QED
        BY <2>2, <1>0, <1>3, <3>1, <3>2, <3>4 DEF CheckIdle, ReadersKnow, TypeOK, AllOf, Holding
    <2>3. ASSUME NEW c \in Cells, ReadCell(t, c) PROVE ReadersKnow' /\ TypeOK'
      <3>1. pc[t] = "reading" /\ UNCHANGED <<pc, snap>>
        BY <2>3 DEF ReadCell
      <3>2. AllOf(t) => AllOf(t)' \/ version > snap[t] \/ BeingWritten
        <4> SUFFICES ASSUME AllOf(t), ~(version > snap[t]), ~BeingWritten PROVE AllOf(t)'
          OBVIOUS
        <4>0. snap[t] \in Nat /\ version \in Nat
          BY DEF TypeOK
        <4>1. version = snap[t]
          <5>1. snap[t] <= version
            BY DEF ReadersKnow
          <5> QED
            BY <4>0, <5>1
        <4>2. data[c] = snap[t]
          BY <4>1 DEF FrameOfVersion
        <4>3. \A d \in Cells : seen'[t][d] = IF d = c THEN data[c] ELSE seen[t][d]
          BY <2>3 DEF ReadCell, TypeOK
        <4> QED
          BY <3>1, <4>2, <4>3 DEF AllOf
      <3>3. TypeOK'
        BY <2>3, <1>0 DEF ReadCell, TypeOK
      <3>4. \A u \in Threads : u # t => seen'[u] = seen[u]
        BY <2>3 DEF ReadCell, TypeOK
      <3>5. \A u \in Threads : u # t => (AllOf(u)' <=> AllOf(u))
        BY <3>1, <3>4 DEF AllOf
      <3> QED
        BY <1>0, <1>3, <3>1, <3>2, <3>3, <3>4, <3>5 DEF ReadersKnow, Holding
    <2>4. CASE ValidateCounter(t)
      <3>1. ~writer => ~BeingWritten
        BY DEF Exclusion, BeingWritten, Holding
      <3>2. UNCHANGED snap
        BY <2>4 DEF ValidateCounter
      <3>3. TypeOK'
        <4>1. seen' \in [Threads -> [Cells -> Nat \cup {None}]]
          BY <2>4 DEF ValidateCounter, TypeOK, Unread
        <4>2. pc' \in [Threads -> Places]
          BY <2>4 DEF ValidateCounter, TypeOK, Places
        <4> QED
          BY <1>0, <3>2, <4>1, <4>2 DEF TypeOK
      <3> QED
        BY <2>4, <1>0, <1>3, <3>1, <3>2, <3>3 DEF ValidateCounter, ReadersKnow, TypeOK, AllOf, Holding
    <2>5. CASE ValidateVersion(t) \/ Done(t)
      <3>1. UNCHANGED snap
        BY <2>5 DEF ValidateVersion, Done
      <3>2. TypeOK'
        <4>1. seen' \in [Threads -> [Cells -> Nat \cup {None}]]
          BY <2>5 DEF ValidateVersion, Done, TypeOK, Unread
        <4>2. pc' \in [Threads -> Places]
          BY <2>5 DEF ValidateVersion, Done, TypeOK, Places
        <4> QED
          BY <1>0, <3>1, <4>1, <4>2 DEF TypeOK
      <3> QED
        BY <2>5, <1>0, <1>3, <3>1, <3>2 DEF ValidateVersion, Done, ReadersKnow, TypeOK, AllOf, Holding
    <2> QED
      BY <2>1, <2>2, <2>3, <2>4, <2>5 DEF Optimistic
  <1> QED
    BY <1>4, <1>5, <1>6

(* The steps of a clone.                                                      *)
LEMMA SharedIInv ==
  ASSUME IInv, NEW t \in Threads, Shared(t)
  PROVE  IInv'
  <1> USE DEF IInv, Goto, Restart
  <1>0. UNCHANGED <<writer, version, data>>
    BY DEF Shared, AcquireShared, CloneVersion, CloneCell, ReleaseShared
  <1>2. \A u \in Threads : pc'[u] \in Holding <=> pc[u] \in Holding
    BY DEF Holding, TypeOK, Shared, AcquireShared, CloneVersion, CloneCell, ReleaseShared
  <1>3. BeingWritten' <=> BeingWritten
    BY DEF BeingWritten, TypeOK, Shared, AcquireShared, CloneVersion, CloneCell, ReleaseShared
  <1>5. FrameOfVersion'
    BY <1>0, <1>3 DEF FrameOfVersion
  <1>6. pc[t] \in {"shared", "cloning"} => ~BeingWritten
    BY NoSharers DEF BeingWritten, Exclusion, Holding
  <1>7. pc' \in [Threads -> Places]
    BY DEF Shared, AcquireShared, CloneVersion, CloneCell, ReleaseShared, TypeOK, Places
  <1>8. CASE AcquireShared(t)
    <2>1. Sharers' = Sharers \cup {t} /\ t \notin Sharers
      BY <1>8 DEF AcquireShared, Sharers, TypeOK
    <2>2. Cardinality(Sharers') = Cardinality(Sharers) + 1
      BY <2>1, SharersFinite, FS_AddElement
    <2>3. Exclusion'
      BY <1>8, <1>0, <1>2, <2>2 DEF AcquireShared, Exclusion
    <2>4. TypeOK'
      BY <1>8, <1>7 DEF AcquireShared, TypeOK
    <2>5. ReadersKnow'
      BY <1>8, <1>0, <1>3 DEF AcquireShared, ReadersKnow, TypeOK, AllOf, Holding
    <2> QED
      BY <1>5, <2>3, <2>4, <2>5
  <1>9. CASE CloneVersion(t)
    <2>1. Sharers' = Sharers
      BY <1>9 DEF CloneVersion, Sharers, TypeOK
    <2>2. Exclusion'
      BY <1>9, <1>0, <1>2, <2>1 DEF CloneVersion, Exclusion
    <2>3. TypeOK'
      BY <1>9, <1>7 DEF CloneVersion, TypeOK
    <2>4. seen[t] = Unread
      BY <1>9 DEF CloneVersion, ReadersKnow
    <2>5. AllOf(t)'
      BY <1>9, <2>4 DEF CloneVersion, AllOf, Unread
    <2>6. ReadersKnow'
      BY <1>9, <1>0, <1>3, <2>5 DEF CloneVersion, ReadersKnow, TypeOK, AllOf, Holding
    <2> QED
      BY <1>5, <2>2, <2>3, <2>6
  <1>10. ASSUME NEW c \in Cells, CloneCell(t, c) PROVE IInv'
    <2>1. Sharers' = Sharers /\ UNCHANGED <<readers, pc, snap>>
      BY <1>10 DEF CloneCell, Sharers
    <2>2. Exclusion'
      BY <1>0, <1>2, <2>1 DEF Exclusion
    <2>3. TypeOK'
      BY <1>10 DEF CloneCell, TypeOK
    <2>4. data[c] = snap[t]
      BY <1>10, <1>6 DEF CloneCell, FrameOfVersion, ReadersKnow
    <2>5. AllOf(t)'
      BY <1>10, <2>4 DEF CloneCell, AllOf, ReadersKnow, TypeOK
    <2>6. \A u \in Threads : u # t => seen'[u] = seen[u] /\ (AllOf(u)' <=> AllOf(u))
      BY <1>10 DEF CloneCell, AllOf, TypeOK
    <2>7. ReadersKnow'
      BY <1>10, <1>0, <1>3, <2>1, <2>5, <2>6 DEF CloneCell, ReadersKnow, Holding
    <2> QED
      BY <1>5, <2>2, <2>3, <2>7
  <1>11. CASE ReleaseShared(t)
    <2>1. Sharers' = Sharers \ {t} /\ t \in Sharers
      BY <1>11 DEF ReleaseShared, Sharers, TypeOK
    <2>2. Cardinality(Sharers') = Cardinality(Sharers) - 1
      BY <2>1, SharersFinite, FS_RemoveElement
    <2>3. readers # 0
      BY <1>11, NoSharers DEF ReleaseShared
    <2>4. Exclusion'
      BY <1>11, <1>0, <1>2, <2>2 DEF ReleaseShared, Exclusion
    <2>5. seen' \in [Threads -> [Cells -> Nat \cup {None}]]
      BY <1>11 DEF ReleaseShared, TypeOK, Unread
    <2>6. TypeOK'
      BY <1>11, <1>7, <2>3, <2>5 DEF ReleaseShared, TypeOK
    <2>7. ReadersKnow'
      BY <1>11, <1>0, <1>3 DEF ReleaseShared, ReadersKnow, TypeOK, AllOf, Holding
    <2> QED
      BY <1>5, <2>4, <2>6, <2>7
  <1> QED
    BY <1>8, <1>9, <1>10, <1>11 DEF Shared

(* The steps of an exclusive hold.  Nobody clones meanwhile, and bumping the  *)
(* version exposes every reader that could have read a mixture.               *)
LEMMA ExclusiveIInv ==
  ASSUME IInv, NEW t \in Threads, Exclusive(t)
  PROVE  IInv'
  <1> USE DEF IInv, Goto
  <1>0. UNCHANGED <<readers, snap, seen>>
    BY DEF Exclusive, AcquireExclusive, WriteCell, BumpVersion, ClearFlag
  <1>1. \A u \in Threads : AllOf(u)' <=> AllOf(u)
    BY <1>0 DEF AllOf
  <1>2. \A u \in Threads : pc[u] \notin {"shared", "cloning"}
    BY NoSharers DEF Exclusive, AcquireExclusive, WriteCell, BumpVersion, ClearFlag, Exclusion, Holding
  <1>3. pc' \in [Threads -> Places]
    BY DEF Exclusive, AcquireExclusive, WriteCell, BumpVersion, ClearFlag, TypeOK, Places
  <1>4. Sharers' = Sharers
    BY <1>2 DEF Exclusive, AcquireExclusive, WriteCell, BumpVersion, ClearFlag, Sharers, TypeOK
  <1>5. CASE AcquireExclusive(t)
    <2>1. BeingWritten'
      BY <1>5 DEF AcquireExclusive, BeingWritten, TypeOK
    <2>2. TypeOK'
      BY <1>5, <1>3 DEF AcquireExclusive, TypeOK
    <2>3. Exclusion'
      BY <1>5, <1>0, <1>4 DEF AcquireExclusive, Exclusion, Holding, TypeOK
    <2>4. ReadersKnow'
      BY <1>5, <1>0, <1>1, <1>2, <2>1 DEF AcquireExclusive, ReadersKnow, Holding, TypeOK
    <2> QED
      BY <2>1, <2>2, <2>3, <2>4 DEF FrameOfVersion
  <1>6. ASSUME NEW c \in Cells, WriteCell(t, c) PROVE IInv'
    <2>1. BeingWritten /\ BeingWritten' /\ UNCHANGED <<writer, version, pc>>
      BY <1>6 DEF WriteCell, BeingWritten
    <2>2. TypeOK'
      BY <1>6 DEF WriteCell, TypeOK
    <2>3. Exclusion' /\ ReadersKnow'
      BY <1>0, <1>1, <1>4, <2>1 DEF Exclusion, ReadersKnow
    <2> QED
      BY <2>1, <2>2, <2>3 DEF FrameOfVersion
  <1>7. CASE BumpVersion(t)
    <2>1. version' = version + 1 /\ UNCHANGED <<writer, data>>
      BY <1>7 DEF BumpVersion
    <2>2. TypeOK'
      BY <1>7, <1>3 DEF BumpVersion, TypeOK
    <2>3. Exclusion'
      BY <1>7, <1>0, <1>4 DEF BumpVersion, Exclusion, Holding, TypeOK
    <2>4. FrameOfVersion'
      BY <1>7 DEF BumpVersion, FrameOfVersion
    <2>5. \A u \in Threads : snap'[u] < version'
      BY <1>0, <2>1 DEF ReadersKnow, TypeOK
    <2>6. ReadersKnow'
      BY <1>7, <1>0, <1>1, <1>2, <2>1, <2>5 DEF BumpVersion, ReadersKnow, Holding, TypeOK
    <2> QED
      BY <2>2, <2>3, <2>4, <2>6
  <1>8. CASE ClearFlag(t)
    <2>1. ~BeingWritten /\ ~BeingWritten'
      BY <1>8 DEF ClearFlag, BeingWritten, Exclusion, Holding, TypeOK
    <2>2. TypeOK'
      BY <1>8, <1>3 DEF ClearFlag, TypeOK
    <2>3. Exclusion'
      BY <1>8, <1>0, <1>4 DEF ClearFlag, Exclusion, Holding, TypeOK
    <2>4. FrameOfVersion'
      BY <1>8, <2>1 DEF ClearFlag, FrameOfVersion
    <2>5. ReadersKnow'
      BY <1>8, <1>0, <1>1, <2>1 DEF ClearFlag, ReadersKnow, Holding, TypeOK
    <2> QED
      BY <2>2, <2>3, <2>4, <2>5
  <1> QED
    BY <1>5, <1>6, <1>7, <1>8 DEF Exclusive

(* The inductive invariant of the latch, with loads in program order.         *)
THEOREM LatchInvariant ==
  ASSUME LateReads = FALSE
  PROVE  Spec => []IInv
  <1>1. IInv /\ [Next]_vars => IInv'
    <2> SUFFICES ASSUME IInv, [Next]_vars PROVE IInv'
      OBVIOUS
    <2>1. CASE Next
      BY <2>1, OptimisticIInv, SharedIInv, ExclusiveIInv DEF Next
    <2>2. CASE UNCHANGED vars
      BY <2>2 DEF vars, IInv, TypeOK, Exclusion, Sharers, FrameOfVersion, BeingWritten,
                  ReadersKnow, AllOf
    <2> QED
      BY <2>1, <2>2
  <1> QED
    BY InitIInv, <1>1, PTL DEF Spec

(* OptimisticGuard::validate is sound: what a validated reader has read is    *)
(* the frame of exactly one version.                                          *)
THEOREM ValidateIsSound ==
  ASSUME LateReads = FALSE
  PROVE  Spec => []ValidatedReadIsAtomic
  <1>1. IInv => ValidatedReadIsAtomic
    BY DEF IInv, ReadersKnow, AllOf, ValidatedReadIsAtomic
  <1> QED
    BY LatchInvariant, <1>1, PTL

(* A clone taken under the shared latch is the frame of the version recorded  *)
(* with it (snapshot_bytes_if_version).                                       *)
THEOREM CloneIsSound ==
  ASSUME LateReads = FALSE
  PROVE  Spec => []CloneIsOfItsVersion
  <1>1. IInv => CloneIsOfItsVersion
    BY DEF IInv, ReadersKnow, AllOf, CloneIsOfItsVersion
  <1> QED
    BY LatchInvariant, <1>1, PTL

=============================================================================
