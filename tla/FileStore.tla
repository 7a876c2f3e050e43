----------------------------- MODULE FileStore -----------------------------
(***************************************************************************)
(* FileBlobStore (src/src/store/blob_store/file/mod.rs): blob frames in    *)
(* the slots of blobs.dat, one checksum record per slot in integrity.dat,  *)
(* and a manifest guid -> slot kept as a snapshot (manifest.bin) plus a    *)
(* log of set / delete deltas (manifest.log).  A frame is never rewritten  *)
(* in place: a write takes a free slot, publishes the new mapping in       *)
(* memory and parks the old slot in pending_free_slots until a flush has   *)
(* made the delta durable and drained the readers of the old mapping.      *)
(*                                                                         *)
(* write_blob(s), delete_blob, flush and vacuum hold data_io_lock, so one  *)
(* mutator runs at a time: it is the program counter pc.  Readers hold     *)
(* slot_io_lock shared from the lookup to the end of the I/O.  A frame is  *)
(* abstracted to the number of the write that produced it, and a checksum  *)
(* record to the number of the frame it was computed from.                 *)
(***************************************************************************)
EXTENDS Integers, Sequences, FiniteSets, SequencesExt

CONSTANTS Guid,       \* blob guids
          Reader,     \* threads in read_blob
          NumSlots,   \* capacity of blobs.dat in slots (a bound of the model)
          MaxBatch,   \* frames per write_blobs call
          MaxWrites,  \* frames written; a crash or a fault before one costs one
          MaxCrashes, \* power losses; a fault before one costs one
          MaxFaults,  \* failed I/O calls over a behaviour
          Faults,     \* kinds of I/O call that may fail
          NoGuid      \* no owner of a slot during the replay of manifest.log

FaultKinds == {"write", "sync", "append", "torn_append", "snapshot",
               "dir_sync", "truncate", "copy"}

ASSUME StoreAssumption ==
    /\ IsFiniteSet(Guid)
    /\ NumSlots \in Nat /\ MaxBatch \in Nat /\ MaxWrites \in Nat
    /\ MaxCrashes \in Nat /\ MaxFaults \in Nat
    /\ Faults \subseteq FaultKinds
    /\ NoGuid \notin Guid

VARIABLES entries,    \* Manifest.entries: guid -> slot, NoSlot when absent
          next_slot,  \* Manifest.next_slot
          reusable,   \* Manifest.reusable_slots, as a set
          pending_free, pending_log, manifest_dirty,
          data, integ,         \* blobs.dat and integrity.dat as a read sees them
          ddata, dinteg,       \* and as a power loss leaves what was synced
          data_dirty,          \* data_sync_epoch < data_write_epoch
          integ_dirty,         \* integrity_dirty
          bin, dbin,           \* manifest.bin: visible, durable
          log, dlog,           \* manifest.log: visible, durable
          pc, job,             \* step of the mutator; "flush", "vacuum" (its
                               \* leading flush) or "relocate" (its own part)
          batch, image,        \* the reserved slots and the frames of a write
          plan, backup,        \* SlotMoves of vacuum; relocation_backup
          rd,                  \* the readers
          writes, crashes, faults, \* counters of the bounds
          acceptable           \* ghost: contents a recovery may show

manifest == <<entries, next_slot, reusable, pending_free, pending_log, manifest_dirty>>
files == <<data, integ, ddata, dinteg, data_dirty, integ_dirty>>
logs == <<bin, dbin, log, dlog>>
work == <<batch, image, plan, backup>>
vars == <<manifest, files, logs, pc, job, work, rd, writes, crashes, faults, acceptable>>

NoSlot == -1
EMPTY == 0      \* a slot never written, punched or cut off
TORN == -1      \* a frame or record that was only partly written
Slots == 0..(NumSlots - 1)
Held(f) == {f[g] : g \in Guid} \ {NoSlot}
Nothing == [g \in Guid |-> NoSlot]
NoImage == [g \in Guid |-> EMPTY]
NoBackup == [entries |-> Nothing, next |-> 0, reusable |-> {}]
Idle == [pc |-> "idle", slot |-> NoSlot, rec |-> EMPTY, got |-> EMPTY,
         wantrec |-> EMPTY, want |-> EMPTY]

\* What read_blob would return for g under a mapping: the frame in its slot,
\* if the checksum record of the slot is the frame's own.
Content(ents, d, i, g) ==
    IF ents[g] = NoSlot THEN EMPTY
    ELSE IF d[ents[g]] = i[ents[g]] THEN d[ents[g]] ELSE TORN
View == [g \in Guid |-> Content(entries, data, integ, g)]

Fail(kind) == kind \in Faults /\ faults < MaxFaults /\ faults' = faults + 1

Init ==
    /\ entries = Nothing /\ next_slot = 0
    /\ reusable = {} /\ pending_free = {} /\ pending_log = <<>>
    /\ manifest_dirty = FALSE
    /\ data = [s \in Slots |-> EMPTY] /\ ddata = data
    /\ integ = [s \in Slots |-> EMPTY] /\ dinteg = integ
    /\ data_dirty = FALSE /\ integ_dirty = FALSE
    /\ bin = [entries |-> Nothing, next |-> 0] /\ dbin = bin
    /\ log = <<>> /\ dlog = <<>>
    /\ pc = "idle" /\ job = "flush"
    /\ batch = Nothing /\ image = NoImage
    /\ plan = Nothing /\ backup = NoBackup
    /\ rd = [r \in Reader |-> Idle]
    /\ writes = 0 /\ crashes = 0 /\ faults = 0
    /\ acceptable = {NoImage}

(* ---- locks ---- *)

\* enter_slot_write: the fence of a flush and the whole of a vacuum.
NoReaders == \A r \in Reader : rd[r].pc = "idle"
SlotsExclusive == job = "relocate"
\* The manifest RwLock is held for writing over the steps of a publication.
ManifestLocked ==
    pc \in {"f_append", "f_appended", "snapshot", "renamed", "truncate", "f_persisted"}

(* ---- slots ---- *)

\* Bug: the trim also drops the slot below the reusable tail.
TrimmedTooFar(free, n) ==
    CHOOSE m \in 0..n : /\ \A s \in m..(n - 2) : s + 1 \in free
                        /\ m = 0 \/ m \notin free

\* trim_trailing_reusable_slots: the lowest high-water mark with only reusable
\* slots above it.
Trimmed(free, n) ==
    CHOOSE m \in 0..n : /\ \A s \in m..(n - 1) : s \in free
                        /\ m = 0 \/ m - 1 \notin free

\* allocate_slot for every guid of a batch: reusable slots first, then fresh
\* ones; f gives the slots, n the number of fresh ones.  Which reusable slot is
\* popped depends on the order of the free list and is left open.
Allocates(W, f, n) ==
    /\ f \in [W -> reusable \cup (next_slot..(next_slot + n - 1))]
    /\ \A g, h \in W : f[g] = f[h] => g = h
    /\ (next_slot..(next_slot + n - 1)) \subseteq {f[g] : g \in W}
    /\ n > 0 => reusable \subseteq {f[g] : g \in W}
    /\ next_slot + n <= NumSlots

(* ---- write_blob, write_blobs, write_blobs_with_data_sync ---- *)

\* prepare_blob_writes: the slots of the batch are reserved.
WriteReserve(W) ==
    /\ pc = "idle" /\ W # {} /\ writes + Cardinality(W) + crashes + faults <= MaxWrites
    /\ \E n \in 0..MaxBatch, f \in [W -> Slots] :
         /\ Allocates(W, f, n)
         /\ batch' = [g \in Guid |-> IF g \in W THEN f[g] ELSE NoSlot]
         /\ reusable' = reusable \ {f[g] : g \in W}
         /\ next_slot' = next_slot + n
    /\ \E f \in [W -> (writes + 1)..(writes + Cardinality(W))] :
         /\ \A g, h \in W : f[g] = f[h] => g = h
         /\ image' = [g \in Guid |-> IF g \in W THEN f[g] ELSE EMPTY]
    /\ writes' = writes + Cardinality(W)
    /\ pc' = "reserved"
    /\ UNCHANGED <<entries, pending_free, pending_log, manifest_dirty, files, logs,
                   job, plan, backup, rd, crashes, faults, acceptable>>

\* A file with val, by guid, in the slots reserved for the batch.
Filled(file, val) ==
    [s \in Slots |-> IF \E g \in Guid : batch[g] = s
                     THEN val[CHOOSE g \in Guid : batch[g] = s] ELSE file[s]]

\* The frames, then the checksum records.  With io_uring the ring also syncs
\* blobs.dat (pwrite_many_and_sync_at); the records are synced by the flush.
WriteSlots(synced) ==
    /\ pc = "reserved"
    /\ data' = Filled(data, image)
    /\ integ' = Filled(integ, image)
    /\ ddata' = IF synced THEN data' ELSE ddata
    /\ data_dirty' = ~synced /\ integ_dirty' = TRUE
    /\ pc' = "written"
    /\ UNCHANGED <<manifest, dinteg, logs, job, work, rd, writes, crashes, faults,
                   acceptable>>

\* release_reserved_slots on an I/O error: the slots go back to the allocator
\* with whatever the failed write left in them.
WriteFails ==
    /\ pc = "reserved" /\ Fail("write")
    /\ data' = Filled(data, [g \in Guid |-> TORN])
    /\ data_dirty' = TRUE
    /\ \/ integ' = integ /\ integ_dirty' = integ_dirty
       \/ integ' = Filled(integ, image) /\ integ_dirty' = TRUE
    /\ LET free == reusable \cup Held(batch)
           n == Trimmed(free, next_slot)
       IN /\ next_slot' = n
          /\ reusable' = {s \in free : s < n}
    /\ batch' = Nothing /\ image' = NoImage /\ pc' = "idle"
    /\ UNCHANGED <<entries, pending_free, pending_log, manifest_dirty, ddata, dinteg,
                   logs, job, plan, backup, rd, writes, crashes, acceptable>>

\* publish_blob_writes: the mappings of the batch, in the order of the batch.
PublishWrites ==
    /\ pc = "written"
    /\ LET W == {g \in Guid : batch[g] # NoSlot}
           after(S) == [g \in Guid |-> IF g \in S THEN image[g] ELSE View[g]]
       IN \E q \in SetToSeqs(W) :
            /\ \A i, j \in 1..Len(q) : i < j => image[q[i]] < image[q[j]]
            /\ entries' = [g \in Guid |-> IF g \in W THEN batch[g] ELSE entries[g]]
            /\ pending_free' = pending_free \cup ({entries[g] : g \in W} \ {NoSlot})
            /\ pending_log' = pending_log \o
                 [i \in 1..Len(q) |-> [op |-> "set", guid |-> q[i], slot |-> batch[q[i]]]]
            /\ acceptable' = acceptable \cup
                 {after({q[i] : i \in 1..k}) : k \in 1..Len(q)}
    /\ manifest_dirty' = TRUE
    /\ batch' = Nothing /\ image' = NoImage /\ pc' = "idle"
    /\ UNCHANGED <<next_slot, reusable, files, logs, job, plan, backup, rd,
                   writes, crashes, faults>>

\* delete_blob; nothing happens for a guid that is not mapped.
DeleteBlob(g) ==
    /\ pc = "idle" /\ entries[g] # NoSlot
    /\ entries' = [entries EXCEPT ![g] = NoSlot]
    /\ pending_free' = pending_free \cup {entries[g]}
    /\ pending_log' = Append(pending_log, [op |-> "delete", guid |-> g, slot |-> NoSlot])
    /\ manifest_dirty' = TRUE
    /\ acceptable' = acceptable \cup {[View EXCEPT ![g] = EMPTY]}
    /\ UNCHANGED <<next_slot, reusable, files, logs, pc, job, work, rd, writes, crashes,
                   faults>>

(* ---- flush_locked ---- *)

\* flush, or vacuum, which starts with a flush.
BeginFlush(j) ==
    /\ pc = "idle" /\ pc' = "f_data" /\ job' = j
    /\ UNCHANGED <<manifest, files, logs, work, rd, writes, crashes, faults, acceptable>>

SyncData ==
    /\ pc = "f_data"
    /\ ddata' = IF data_dirty THEN data ELSE ddata
    /\ data_dirty' = FALSE /\ pc' = "f_integ"
    /\ UNCHANGED <<manifest, data, integ, dinteg, integ_dirty, logs, job, work, rd,
                   writes, crashes, faults, acceptable>>

\* Bug: the checksum records are declared clean without a sync.
SyncIntegritySkipped ==
    /\ pc = "f_integ" /\ pc' = "f_manifest" /\ integ_dirty' = FALSE
    /\ UNCHANGED <<manifest, data, integ, ddata, dinteg, data_dirty, logs, job, work, rd,
                   writes, crashes, faults, acceptable>>

SyncIntegrity ==
    /\ pc = "f_integ"
    /\ dinteg' = IF integ_dirty THEN integ ELSE dinteg
    /\ integ_dirty' = FALSE
    /\ pc' = "f_manifest"
    /\ UNCHANGED <<manifest, data, integ, ddata, data_dirty, logs, job, work, rd,
                   writes, crashes, faults, acceptable>>

SyncFails ==
    /\ pc \in {"f_data", "f_integ"} /\ Fail("sync")
    /\ pc' = "idle" /\ job' = "flush"
    /\ UNCHANGED <<manifest, files, logs, work, rd, writes, crashes, acceptable>>

\* The flush returns Ok: everything published so far is promised to survive.
Flushed ==
    /\ pc' = IF job = "vacuum" THEN "v_enter" ELSE "idle"
    /\ acceptable' = {View}

\* manifest_dirty.swap(false); a clean manifest ends the flush.
FlushManifest ==
    /\ pc = "f_manifest"
    /\ manifest_dirty' = FALSE
    /\ IF manifest_dirty THEN pc' = "f_append" /\ UNCHANGED acceptable ELSE Flushed
    /\ UNCHANGED <<entries, next_slot, reusable, pending_free, pending_log, files, logs,
                   job, work, rd, writes, crashes, faults>>

\* persist_pending_deltas: write_all to the log.
AppendDeltas ==
    /\ pc = "f_append"
    /\ log' = log \o pending_log
    /\ pc' = "f_appended"
    /\ UNCHANGED <<manifest, files, bin, dbin, dlog, job, work, rd, writes, crashes,
                   faults, acceptable>>

\* Bug: a failed publication leaves the manifest marked clean.
PersistFailsClean ==
    /\ manifest_dirty' = FALSE /\ pc' = "idle" /\ job' = "flush"

\* flush_locked on an error of persist_pending_deltas: the manifest is dirty
\* again and pending_log is kept for the next attempt.
PersistFails ==
    /\ manifest_dirty' = TRUE /\ pc' = "idle" /\ job' = "flush"

\* write_all writes part of the buffer and then fails: some whole records, and
\* for a torn write also a part of the next one.
AppendFails ==
    /\ pc = "f_append" /\ PersistFails
    /\ \E k \in 0..(Len(pending_log) - 1) :
         \/ Fail("append") /\ log' = log \o SubSeq(pending_log, 1, k)
         \/ Fail("torn_append")
            /\ log' = log \o SubSeq(pending_log, 1, k)
                          \o <<[op |-> "torn", guid |-> NoGuid, slot |-> NoSlot]>>
    /\ UNCHANGED <<entries, next_slot, reusable, pending_free, pending_log, files, bin,
                   dbin, dlog, work, rd, writes, crashes, acceptable>>

\* sync_data of the log.  Whether should_compact_log holds depends on byte
\* counts and is left open.
SyncLog ==
    /\ pc = "f_appended"
    /\ dlog' = log
    /\ pc' \in {"f_persisted", "snapshot"}
    /\ UNCHANGED <<manifest, files, bin, dbin, log, job, work, rd, writes, crashes,
                   faults, acceptable>>

SyncLogFails ==
    /\ pc = "f_appended" /\ Fail("sync") /\ PersistFails
    /\ UNCHANGED <<entries, next_slot, reusable, pending_free, pending_log, files, logs,
                   work, rd, writes, crashes, acceptable>>

\* pending_log.clear(); with parked slots the fence follows.
ClearPending ==
    /\ pc = "f_persisted"
    /\ pending_log' = <<>>
    /\ IF pending_free # {} THEN pc' = "f_fence" /\ UNCHANGED acceptable ELSE Flushed
    /\ UNCHANGED <<entries, next_slot, reusable, pending_free, manifest_dirty, files,
                   logs, job, work, rd, writes, crashes, faults>>

\* Bug: the parked slots are reused while readers still hold the old mapping.
FenceWithoutDrain ==
    /\ pc = "f_fence"
    /\ reusable' = reusable \cup pending_free
    /\ pending_free' = {}
    /\ Flushed
    /\ UNCHANGED <<entries, next_slot, pending_log, manifest_dirty, files, logs, job,
                   work, rd, writes, crashes, faults>>
\* Bug: the parked slots are handed out and stay parked.
FenceKeepsPending ==
    /\ pc = "f_fence" /\ NoReaders
    /\ reusable' = reusable \cup pending_free
    /\ Flushed
    /\ UNCHANGED <<entries, next_slot, pending_free, pending_log, manifest_dirty, files,
                   logs, job, work, rd, writes, crashes, faults>>

\* enter_slot_write drains the readers, then publish_pending_free_slots.
Fence ==
    /\ pc = "f_fence" /\ NoReaders
    /\ reusable' = reusable \cup pending_free
    /\ pending_free' = {}
    /\ Flushed
    /\ UNCHANGED <<entries, next_slot, pending_log, manifest_dirty, files, logs, job,
                   work, rd, writes, crashes, faults>>

(* ---- persist_snapshot and truncate_log ---- *)

\* vacuum returns, with Ok or with an error.
VacuumReturns ==
    pc' = "idle" /\ job' = "flush" /\ plan' = Nothing /\ backup' = NoBackup

RenameSnapshot ==
    /\ pc = "snapshot"
    /\ bin' = [entries |-> entries, next |-> next_slot]
    /\ pc' = "renamed"
    /\ UNCHANGED <<manifest, files, dbin, log, dlog, job, work, rd, writes, crashes,
                   faults, acceptable>>

SyncDir ==
    /\ pc = "renamed"
    /\ dbin' = bin
    /\ pc' = "truncate"
    /\ UNCHANGED <<manifest, files, bin, log, dlog, job, work, rd, writes, crashes,
                   faults, acceptable>>

\* persist_snapshot fails before the rename or when it syncs the directory.
\* A vacuum with a relocation restores relocation_backup.
SnapshotFails ==
    /\ \/ pc = "snapshot" /\ Fail("snapshot")
       \/ pc = "renamed" /\ Fail("dir_sync")
    /\ IF job = "relocate"
       THEN /\ VacuumReturns /\ UNCHANGED manifest_dirty
            /\ IF plan # Nothing
               THEN /\ entries' = backup.entries /\ next_slot' = backup.next
                    /\ reusable' = backup.reusable
               ELSE UNCHANGED <<entries, next_slot, reusable>>
       ELSE PersistFails /\ UNCHANGED <<entries, next_slot, reusable, plan, backup>>
    /\ UNCHANGED <<pending_free, pending_log, files, logs, batch, image, rd, writes,
                   crashes, acceptable>>

TruncateLog ==
    /\ pc = "truncate"
    /\ log' = <<>> /\ dlog' = <<>>
    /\ IF job = "relocate"
       THEN pc' = "v_shrink" /\ pending_log' = <<>> /\ manifest_dirty' = FALSE
       ELSE pc' = "f_persisted" /\ UNCHANGED <<pending_log, manifest_dirty>>
    /\ UNCHANGED <<entries, next_slot, reusable, pending_free, files, bin, dbin, job,
                   work, rd, writes, crashes, faults, acceptable>>

\* set_len(0) fails, or its sync does.  A vacuum keeps the relocated manifest.
TruncateFails ==
    /\ pc = "truncate" /\ Fail("truncate")
    /\ log' \in {log, <<>>}
    /\ IF job = "relocate"
       THEN VacuumReturns /\ UNCHANGED manifest_dirty
       ELSE PersistFails /\ UNCHANGED <<plan, backup>>
    /\ UNCHANGED <<entries, next_slot, reusable, pending_free, pending_log, files, bin,
                   dbin, dlog, batch, image, rd, writes, crashes, acceptable>>

(* ---- vacuum ---- *)

\* relocation_plan: the i-th highest live slot moves to the i-th lowest
\* reusable slot, as long as that is a move down.
Rank(S, s) == Cardinality({x \in S : x <= s})
RelocationPlan ==
    LET down(g) == Cardinality({s \in Held(entries) : s >= entries[g]})
        to(g) == {f \in reusable : Rank(reusable, f) = down(g) /\ f < entries[g]}
    IN [g \in Guid |-> IF entries[g] = NoSlot \/ to(g) = {} THEN NoSlot
                       ELSE CHOOSE f \in to(g) : TRUE]

\* enter_slot_write and the plan; an empty plan copies nothing.
EnterVacuum ==
    /\ pc = "v_enter" /\ NoReaders
    /\ plan' = RelocationPlan
    /\ job' = "relocate"
    /\ pc' = IF plan' = Nothing THEN "v_apply" ELSE "v_copy"
    /\ UNCHANGED <<manifest, files, logs, batch, image, backup, rd, writes, crashes,
                   faults, acceptable>>

Copied(file) ==
    [s \in Slots |-> IF \E g \in Guid : plan[g] = s
                     THEN file[entries[CHOOSE g \in Guid : plan[g] = s]] ELSE file[s]]

\* copy_relocated_slots; the record is retargeted to the new slot.
CopySlots ==
    /\ pc = "v_copy"
    /\ data' = Copied(data) /\ integ' = Copied(integ)
    /\ pc' = "v_sync"
    /\ UNCHANGED <<manifest, ddata, dinteg, data_dirty, integ_dirty, logs, job, work, rd,
                   writes, crashes, faults, acceptable>>

SyncCopies ==
    /\ pc = "v_sync"
    /\ ddata' = data /\ dinteg' = integ
    /\ pc' = "v_apply"
    /\ UNCHANGED <<manifest, data, integ, data_dirty, integ_dirty, logs, job, work, rd,
                   writes, crashes, faults, acceptable>>

CopyFails ==
    /\ pc \in {"v_copy", "v_sync"} /\ Fail("copy") /\ VacuumReturns
    /\ UNCHANGED <<manifest, files, logs, batch, image, rd, writes, crashes, acceptable>>

\* apply_relocation_plan or trim_trailing_free_slots, and the choice whether a
\* snapshot is due.
ApplyPlan ==
    /\ pc = "v_apply"
    /\ backup' = [entries |-> entries, next |-> next_slot, reusable |-> reusable]
    /\ entries' = [g \in Guid |-> IF plan[g] # NoSlot THEN plan[g] ELSE entries[g]]
    /\ LET holes == IF plan = Nothing THEN reusable
                    ELSE (0..(next_slot - 1)) \ Held(entries')
           free == holes \cup pending_free
       IN /\ next_slot' = Trimmed(free, next_slot)
          /\ reusable' = {s \in free : s < next_slot'}
    /\ pending_free' = {}
    /\ pc' = IF plan # Nothing \/ next_slot' # next_slot THEN "snapshot" ELSE "v_shrink"
    /\ UNCHANGED <<pending_log, manifest_dirty, files, logs, job, batch, image, plan, rd,
                   writes, crashes, faults, acceptable>>

\* shrink_packed_files cuts both files at the new high-water mark when it moved;
\* punch_reusable_slot_ranges empties the free slots of blobs.dat.
ShrinkFiles ==
    /\ pc = "v_shrink"
    /\ LET cut == IF backup.next # next_slot THEN {s \in Slots : s >= next_slot} ELSE {}
       IN /\ data' = [s \in Slots |-> IF s \in cut \cup reusable THEN EMPTY ELSE data[s]]
          /\ integ' = [s \in Slots |-> IF s \in cut THEN EMPTY ELSE integ[s]]
    /\ ddata' = data' /\ dinteg' = integ'
    /\ VacuumReturns
    /\ UNCHANGED <<manifest, data_dirty, integ_dirty, logs, batch, image, rd, writes,
                   crashes, faults, acceptable>>

(* ---- read_blob ---- *)

\* enter_slot_read and entry_of; wantrec and want are ghosts: the record and the
\* frame the guid is mapped to right now.
Resolve(r, g) ==
    /\ rd[r].pc = "idle" /\ pc # "broken" /\ ~SlotsExclusive /\ ~ManifestLocked
    /\ entries[g] # NoSlot
    /\ rd' = [rd EXCEPT ![r] = [Idle EXCEPT !.pc = "resolved", !.slot = entries[g],
                                !.wantrec = integ[entries[g]], !.want = data[entries[g]]]]
    /\ UNCHANGED <<manifest, files, logs, pc, job, work, writes, crashes, faults, acceptable>>

ReadRecord(r) ==
    /\ rd[r].pc = "resolved"
    /\ rd' = [rd EXCEPT ![r].pc = "record", ![r].rec = integ[rd[r].slot]]
    /\ UNCHANGED <<manifest, files, logs, pc, job, work, writes, crashes, faults, acceptable>>

ReadFrame(r) ==
    /\ rd[r].pc = "record"
    /\ rd' = [rd EXCEPT ![r].pc = "frame", ![r].got = data[rd[r].slot]]
    /\ UNCHANGED <<manifest, files, logs, pc, job, work, writes, crashes, faults, acceptable>>

\* verify_full and the end of the shared section.
ReadReturns(r) ==
    /\ rd[r].pc = "frame"
    /\ rd' = [rd EXCEPT ![r] = Idle]
    /\ UNCHANGED <<manifest, files, logs, pc, job, work, writes, crashes, faults, acceptable>>

(* ---- power loss and load_or_create ---- *)

\* Bug: a replayed remap does not release the slot it leaves.
SetOwnerKeepsOld(own, prev, s, g) == [own EXCEPT ![s] = g]

\* One record of replay_log.  owner is slot_owners: the slots claimed by the
\* records of this log, not by the snapshot.
SetOwner(own, prev, s, g) ==
    [x \in Slots |-> IF x = s THEN g ELSE IF x = prev THEN NoGuid ELSE own[x]]
ReplayRecord(st, d) ==
    CASE ~st.ok -> st
      [] d.op = "torn" -> [st EXCEPT !.ok = ~st.torn, !.torn = TRUE]
      [] st.torn -> [st EXCEPT !.ok = FALSE]
      [] d.op = "set" /\ st.owner[d.slot] \notin {NoGuid, d.guid} ->
           [st EXCEPT !.ok = FALSE]
      [] d.op = "set" /\ st.owner[d.slot] \in {NoGuid, d.guid} ->
           [st EXCEPT !.entries[d.guid] = d.slot,
                      !.next = Max({st.next, d.slot + 1}),
                      !.owner = SetOwner(st.owner, st.entries[d.guid], d.slot, d.guid)]
      [] d.op = "delete" ->
           [st EXCEPT !.entries[d.guid] = NoSlot,
                      !.owner = [x \in Slots |-> IF x = st.entries[d.guid] THEN NoGuid
                                                 ELSE st.owner[x]]]

\* replay_log over a snapshot; a torn record is tolerated only at the end.
ReplayLog(b, l) ==
    LET start == [entries |-> b.entries, next |-> b.next, torn |-> FALSE, ok |-> TRUE,
                  owner |-> [s \in Slots |-> NoGuid]]
        upto[n \in 0..Len(l)] == IF n = 0 THEN start ELSE ReplayRecord(upto[n - 1], l[n])
    IN upto[Len(l)]

\* The checks of ReusableSlots::reconstruct.
WellFormed(ents, n) ==
    /\ n \in 0..NumSlots /\ ents \in [Guid -> -1..(n - 1)]
    /\ \A g, h \in Guid : ents[g] = ents[h] /\ ents[g] # NoSlot => g = h

\* What a power loss may leave of a slot whose synced content is old.  A frame
\* and a checksum record that do not belong together only ever read as corrupt,
\* so one such pair stands for all.
After(old, new) == IF old = new THEN {new} ELSE {old, new, TORN}
Slot(d, i) == IF d = i /\ d # TORN THEN [frame |-> d, rec |-> d]
                                   ELSE [frame |-> TORN, rec |-> EMPTY]
Outcomes(s) == {Slot(d, i) : d \in After(ddata[s], data[s]),
                             i \in After(dinteg[s], integ[s])}
SlotsSurvive ==
    LET lost == {s \in Slots : ddata[s] # data[s] \/ dinteg[s] # integ[s]}
    IN \E c \in [lost -> UNION {Outcomes(s) : s \in lost}] :
         /\ \A s \in lost : c[s] \in Outcomes(s)
         /\ data' = [s \in Slots |-> IF s \in lost THEN c[s].frame ELSE data[s]]
         /\ integ' = [s \in Slots |-> IF s \in lost THEN c[s].rec ELSE integ[s]]
         /\ ddata' = data' /\ dinteg' = integ'
SurvivingLogs ==
    IF IsPrefix(dlog, log) THEN {SubSeq(log, 1, k) : k \in Len(dlog)..Len(log)}
    ELSE {dlog, log}

\* A power loss, then Manifest::load_or_create: replay, cut a torn tail, rebuild
\* the free slots from the holes.  An error leaves the store unopened.  Readers
\* change nothing, so the power loss is taken from the states without one.
CrashAndOpen ==
    /\ pc # "broken" /\ NoReaders
    /\ crashes + faults < MaxCrashes /\ crashes' = crashes + 1
    /\ \E b \in {bin, dbin}, l \in SurvivingLogs :
         LET st == ReplayLog(b, l)
             whole == SelectSeq(l, LAMBDA e : e.op # "torn")
             seen == [g \in Guid |-> Content(st.entries, data', integ', g)]
         IN /\ bin' = b /\ dbin' = b
            /\ SlotsSurvive
            /\ IF st.ok /\ WellFormed(st.entries, st.next)
               THEN /\ pc' = "idle"
                    /\ entries' = st.entries /\ next_slot' = st.next
                    /\ reusable' = (0..(st.next - 1)) \ Held(st.entries)
                    /\ log' = whole /\ dlog' = whole
                    /\ acceptable' = IF seen \in acceptable THEN {seen} ELSE acceptable
               ELSE /\ pc' = "broken" /\ log' = l /\ dlog' = l
                    /\ UNCHANGED <<entries, next_slot, reusable, acceptable>>
    /\ pending_free' = {} /\ pending_log' = <<>> /\ manifest_dirty' = FALSE
    /\ data_dirty' = FALSE /\ integ_dirty' = FALSE
    /\ job' = "flush" /\ batch' = Nothing /\ image' = NoImage
    /\ plan' = Nothing /\ backup' = NoBackup
    /\ rd' = [r \in Reader |-> Idle]
    /\ UNCHANGED <<writes, faults>>

(* ---- specification ---- *)

Batches == {W \in SUBSET Guid : Cardinality(W) <= MaxBatch}
Write ==
    \/ \E W \in Batches : WriteReserve(W)
    \/ \E synced \in BOOLEAN : WriteSlots(synced)
    \/ WriteFails \/ PublishWrites
    \/ \E g \in Guid : DeleteBlob(g)
Flush ==
    \/ \E j \in {"flush", "vacuum"} : BeginFlush(j)
    \/ SyncData \/ SyncIntegrity \/ SyncFails \/ FlushManifest
    \/ AppendDeltas \/ AppendFails \/ SyncLog \/ SyncLogFails
    \/ ClearPending \/ Fence
Snapshot ==
    RenameSnapshot \/ SyncDir \/ SnapshotFails \/ TruncateLog \/ TruncateFails
Vacuum ==
    EnterVacuum \/ CopySlots \/ SyncCopies \/ CopyFails \/ ApplyPlan \/ ShrinkFiles
Read(r) ==
    \/ \E g \in Guid : Resolve(r, g)
    \/ ReadRecord(r) \/ ReadFrame(r) \/ ReadReturns(r)
Next ==
    Write \/ Flush \/ Snapshot \/ Vacuum \/ (\E r \in Reader : Read(r)) \/ CrashAndOpen

Spec == Init /\ [][Next]_vars

(* ---- properties ---- *)

\* Types, with every slot the manifest knows of below the high-water mark.
TypeOK ==
    /\ next_slot \in 0..NumSlots
    /\ entries \in [Guid -> -1..(next_slot - 1)]
    /\ batch \in [Guid -> -1..(next_slot - 1)]
    /\ reusable \subseteq 0..(next_slot - 1) /\ pending_free \subseteq 0..(next_slot - 1)
    /\ data \in [Slots -> Int] /\ integ \in [Slots -> Int]

\* No slot has two uses: the mapped slots, the reserved ones, the reusable ones
\* and the ones waiting for a durable delta are pairwise disjoint, and no two
\* guids share one.  Every path that moves slots between these sets (allocate,
\* publish, release after an error, delete, fence, relocation, its rollback and
\* the rebuild at open) has to keep them apart.
SlotsHaveOneUse ==
    /\ \A g, h \in Guid : g # h => /\ entries[g] = entries[h] => entries[g] = NoSlot
                                   /\ batch[g] = batch[h] => batch[g] = NoSlot
    /\ Held(entries) \cap Held(batch) = {}
    /\ (Held(entries) \cup Held(batch)) \cap (reusable \cup pending_free) = {}
    /\ reusable \cap pending_free = {}

\* Shadow paging: what read_blob returns for the guids together, at any time and
\* after any power loss, is a state the store published no earlier than the last
\* flush that returned Ok: never a torn, recycled or half-synced frame, and never
\* a later mapping without an earlier one.  It is promised while no I/O call has
\* failed.
RecoveredIsPrefix == pc # "broken" /\ faults = 0 => View \in acceptable

\* The same for each guid alone.  This is what is left once an append to
\* manifest.log has failed and is retried: the log then holds a batch twice, and
\* a power loss in the retry can put one guid back to an older mapping of it.
RecoveredIsPublished ==
    pc # "broken" =>
        \A g \in Guid : Content(entries, data, integ, g) \in {v[g] : v \in acceptable}

\* The store opens again although every kind of I/O call may fail: replay refuses only
\* a log in which complete deltas follow a part of one, and a single power loss,
\* a whole append that failed or a log cut short never leave such a log.
OpensUnlessTorn ==
    pc = "broken" => \E i \in DOMAIN log : i # Len(log) /\ log[i].op = "torn"

\* A read returns what its guid was mapped to when the read resolved the slot: the
\* record and the frame it goes on to fetch without the manifest lock are never
\* those of a later user of the slot.
ReadIsOfResolvedFrame ==
    \A r \in Reader :
        /\ rd[r].pc \in {"record", "frame"} => rd[r].rec = rd[r].wantrec
        /\ rd[r].pc = "frame" => rd[r].got = rd[r].want

=============================================================================
