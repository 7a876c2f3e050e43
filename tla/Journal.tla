------------------------------- MODULE Journal ------------------------------
(* The WAL append coordinator: src/journal/group_commit.rs over the ring of   *)
(* src/journal/ring.rs and the file writer of src/journal/writer.rs.          *)
(*                                                                            *)
(* Processes: the Writers (Journal::submit and JournalAck::wait), one         *)
(* checkpointer (flush_up_to and truncate) and the flusher thread.  A record  *)
(* is its number in reservation order; its bytes are labelled <<record, i>>.  *)
(* Record 0 stands for whatever a reopened log already held.                  *)
(*                                                                            *)
(* The commit gate (Gate.tla) is used through its mutual exclusion: a writer  *)
(* is inside from its reservation to its count of `queued`, the checkpointer  *)
(* captures and truncates with nobody inside.                                 *)
EXTENDS WalRing

CONSTANTS Writers,      \* foreground threads
          Lens,         \* record lengths, in bytes
          AutoFlush,    \* AUTO_FLUSH_THRESHOLD: buffered bytes that force a write
          SyncModes,    \* Durability::Wal { sync } settings to explore
          Faults,       \* which I/O calls may fail
          MaxRecords, MaxBarriers, MaxTruncates   \* bounds on the run

ASSUME JournalAssumption ==
    /\ Lens \subseteq 1..Capacity
    /\ AutoFlush \in Nat
    /\ SyncModes \subseteq BOOLEAN
    /\ Faults \subseteq {"append", "sync", "truncate", "torn_truncate"}

VARIABLES
    ring, buf,          \* the ring, and the label in each physical byte
    advance,            \* writer holding the advance lock, or NoOne
    pc, rec, target,    \* per thread: place, record and awaited watermark
    queued, flushed, sync_target, checkpointed, err,     \* Shared
    fpc, rc, upto, after,            \* flusher: place, locals, what follows a drain
    truncating,                      \* Control::Truncate is in the channel
    wbuf, file, synced,              \* WalWriter.pending, page cache, fsynced bytes
    record_base, wal_sync,           \* 1 when the file had records; sync acks
    recs, acked, redundant,          \* history: tickets, acked, truncated away
    torn,                            \* history: a truncate left a cut record
    captured, barriers, truncates    \* history: last barrier; bounds

ringVars  == <<ring, buf, advance>>
waterVars == <<queued, flushed, sync_target, checkpointed, err>>
flushVars == <<fpc, rc, upto, after, truncating>>
fileVars  == <<wbuf, file, synced, record_base, wal_sync>>
histVars  == <<recs, acked, redundant, torn, captured, barriers, truncates>>
vars == <<ringVars, pc, rec, target, waterVars, flushVars, fileVars, histVars>>

NoOne == "none"
Ck == "checkpointer"
Threads == Writers \cup {Ck}

Max(a, b) == IF a > b THEN a ELSE b
Min(a, b) == IF a < b THEN a ELSE b

Length(r) == IF r = 0 THEN 1 ELSE recs[r].end - recs[r].start
Bytes(r)  == [i \in 1..Length(r) |-> <<r, i>>]

InGate == {"fill", "publish", "records", "count"}
GateShut == pc[Ck] = "truncating"           \* the checkpoint side is held
GateEmpty == \A w \in Writers : pc[w] \notin InGate

(* open_or_create: a reopened log may still be only in the page cache.        *)
Init == \E base \in {0, 1} :
    /\ record_base = base
    /\ wal_sync \in SyncModes
    /\ ring = EmptyRing
    /\ buf = [p \in 0 .. Capacity - 1 |-> <<>>]
    /\ advance = NoOne
    /\ pc = [t \in Threads |-> "idle"]
    /\ rec = [t \in Threads |-> 0]
    /\ target = [t \in Threads |-> 0]
    /\ queued = base /\ flushed = 0 /\ sync_target = 0 /\ checkpointed = 0
    /\ err = FALSE
    /\ fpc = "drain" /\ rc = 0 /\ upto = 0 /\ after = "recv" /\ truncating = FALSE
    /\ wbuf = <<>> /\ synced = 0
    /\ file = IF base = 1 THEN <<<<0, 1>>>> ELSE <<>>
    /\ recs = <<>> /\ acked = {}
    /\ redundant = IF base = 1 THEN {} ELSE {0}
    /\ torn = FALSE /\ captured = {} /\ barriers = 0 /\ truncates = 0

-----------------------------------------------------------------------------
(* Writers: Journal::submit.                                                  *)

(* preflight_submit and ring.reserve; a sticky error turns the caller away.   *)
SubmitReserve(w) ==
    /\ pc[w] = "idle"
    /\ ~GateShut
    /\ ~err
    /\ Len(recs) < MaxRecords
    /\ \E len \in Lens :
          /\ ring' = Reserve(ring, len)
          /\ recs' = Append(recs, Ticket(ring.tail, len))
    /\ rec' = [rec EXCEPT ![w] = Len(recs) + 1]
    /\ pc' = [pc EXCEPT ![w] = "fill"]
    /\ UNCHANGED <<buf, advance, target, waterVars, flushVars, fileVars,
                   acked, redundant, torn, captured, barriers, truncates>>

(* A fill that does not wait for the flusher to free the range.               *)
FillWithoutSpace(w) ==
    /\ pc[w] = "fill"
    /\ buf' = Fill(buf, recs[rec[w]], rec[w])
    /\ pc' = [pc EXCEPT ![w] = "publish"]
    /\ UNCHANGED <<ring, advance, rec, target, waterVars, flushVars, fileVars, histVars>>

(* reserve_space_ready (or wait_for_ring_space) and ring.fill.                *)
SubmitFill(w) ==
    /\ pc[w] = "fill"
    /\ ReserveSpaceReady(ring, recs[rec[w]])
    /\ buf' = Fill(buf, recs[rec[w]], rec[w])
    /\ pc' = [pc EXCEPT ![w] = "publish"]
    /\ UNCHANGED <<ring, advance, rec, target, waterVars, flushVars, fileVars, histVars>>

(* wait_for_ring_space meets the sticky error: submit fails and its           *)
(* reservation stays a hole.                                                  *)
SubmitNoSpace(w) ==
    /\ pc[w] = "fill"
    /\ ~ReserveSpaceReady(ring, recs[rec[w]])
    /\ err
    /\ pc' = [pc EXCEPT ![w] = "failed"]
    /\ UNCHANGED <<ringVars, rec, target, waterVars, flushVars, fileVars, histVars>>

(* ring.publish: fold under the advance lock and store committed_addr.        *)
SubmitPublishAddr(w) ==
    /\ pc[w] = "publish"
    /\ advance = NoOne
    /\ LET folded == PublishAddr(ring, recs[rec[w]])
           moved  == folded.committed_addr # ring.committed_addr
       IN /\ ring' = folded
          /\ advance' = IF moved THEN w ELSE NoOne
          /\ pc' = [pc EXCEPT ![w] = IF moved THEN "records" ELSE "count"]
    /\ UNCHANGED <<buf, rec, target, waterVars, flushVars, fileVars, histVars>>

(* ring.publish: store committed_records and unlock.                          *)
SubmitPublishRecords(w) ==
    /\ pc[w] = "records"
    /\ ring' = PublishRecords(ring)
    /\ advance' = NoOne
    /\ pc' = [pc EXCEPT ![w] = "count"]
    /\ UNCHANGED <<buf, rec, target, waterVars, flushVars, fileVars, histVars>>

(* queued.fetch_add: the ack's target is the new count.  A sync append goes   *)
(* on to wait for it, an async one returns.                                   *)
SubmitCount(w) ==
    /\ pc[w] = "count"
    /\ queued' = queued + 1
    /\ IF wal_sync
       THEN /\ pc' = [pc EXCEPT ![w] = "ack"]
            /\ target' = [target EXCEPT ![w] = queued + 1]
            /\ UNCHANGED rec
       ELSE /\ pc' = [pc EXCEPT ![w] = "idle"]
            /\ rec' = [rec EXCEPT ![w] = 0]
            /\ UNCHANGED target
    /\ UNCHANGED <<ringVars, flushed, sync_target, checkpointed, err,
                   flushVars, fileVars, histVars>>

-----------------------------------------------------------------------------
(* Shared::flush_to, for a writer's ack and for the checkpoint barrier.       *)

FlushToReturns(t, ok) ==
    /\ pc' = [pc EXCEPT ![t] = IF ~ok THEN "failed"
                               ELSE IF t = Ck THEN "synced" ELSE "idle"]
    /\ target' = [target EXCEPT ![t] = 0]
    /\ rec' = [rec EXCEPT ![t] = 0]
    /\ acked' = IF ok /\ t # Ck THEN acked \cup {rec[t]} ELSE acked

(* The target is already flushed.                                             *)
FlushToDone(t) ==
    /\ pc[t] = "ack"
    /\ target[t] <= flushed
    /\ FlushToReturns(t, ~err)
    /\ UNCHANGED <<ringVars, waterVars, flushVars, fileVars, recs,
                   redundant, torn, captured, barriers, truncates>>

(* Raise sync_target and go to the condition variable.                        *)
FlushToRaise(t) ==
    /\ pc[t] = "ack"
    /\ target[t] > flushed
    /\ sync_target' = Max(sync_target, target[t])
    /\ pc' = [pc EXCEPT ![t] = "check"]
    /\ UNCHANGED <<ringVars, rec, target, queued, flushed, checkpointed, err,
                   flushVars, fileVars, histVars>>

(* One turn of the waiting loop, under flushed_mx.                            *)
FlushToCheck(t) ==
    /\ pc[t] = "check"
    /\ IF err \/ flushed >= target[t]
       THEN FlushToReturns(t, ~err)
       ELSE /\ pc' = [pc EXCEPT ![t] = "parked"]
            /\ UNCHANGED <<rec, target, acked>>
    /\ UNCHANGED <<ringVars, waterVars, flushVars, fileVars, recs,
                   redundant, torn, captured, barriers, truncates>>

(* flushed_cv.notify_all.                                                     *)
Notified == [t \in Threads |-> IF pc[t] = "parked" THEN "check" ELSE pc[t]]

-----------------------------------------------------------------------------
(* The checkpointer.                                                          *)

(* Capture the WAL boundary with the commit gate held exclusively, release    *)
(* the gate, then flush_up_to it.                                             *)
BarrierCapture ==
    /\ pc[Ck] = "idle"
    /\ barriers < MaxBarriers
    /\ GateEmpty
    /\ barriers' = barriers + 1
    /\ captured' = (1..Len(recs)) \cup (IF record_base = 1 THEN {0} ELSE {})
    /\ target' = [target EXCEPT ![Ck] = queued]
    /\ pc' = [pc EXCEPT ![Ck] = "ack"]
    /\ UNCHANGED <<ringVars, rec, waterVars, flushVars, fileVars,
                   recs, acked, redundant, torn, truncates>>

(* The round goes on to write blobs; a failed one is retried later.           *)
BarrierEnd ==
    /\ pc[Ck] \in {"synced", "failed"}
    /\ pc' = [pc EXCEPT ![Ck] = "idle"]
    /\ UNCHANGED <<ringVars, rec, target, waterVars, flushVars, fileVars, histVars>>

(* Journal::truncate at a clean frontier, the commit gate held exclusively    *)
(* until the flusher answers.                                                 *)
TruncateSend ==
    /\ pc[Ck] = "idle"
    /\ truncates < MaxTruncates
    /\ GateEmpty
    /\ queued # checkpointed
    /\ truncates' = truncates + 1
    /\ redundant' = 0..Len(recs)
    /\ target' = [target EXCEPT ![Ck] = queued]
    /\ truncating' = TRUE
    /\ pc' = [pc EXCEPT ![Ck] = "truncating"]
    /\ UNCHANGED <<ringVars, rec, waterVars, fpc, rc, upto, after, fileVars,
                   recs, acked, torn, captured, barriers>>

-----------------------------------------------------------------------------
(* The flusher thread: run_flusher, drain_and_maybe_sync, do_truncate.        *)

(* drain_and_maybe_sync: the record count is read before anything is copied.  *)
FlushRead ==
    /\ fpc = "drain"
    /\ IF err THEN fpc' = after /\ UNCHANGED rc
              ELSE fpc' = "copy" /\ rc' = ring.committed_records
    /\ UNCHANGED <<ringVars, pc, rec, target, waterVars, upto, after, truncating,
                   fileVars, histVars>>

(* WalWriter::append_encoded: buffer, and write out a buffer that is full.    *)
Appended(log, bytes) ==
    LET all == log.wbuf \o bytes
    IN IF Len(all) >= AutoFlush
       THEN [wbuf |-> <<>>, file |-> log.file \o all]
       ELSE [wbuf |-> all, file |-> log.file]

(* copy_committed_prefix into the writer: one append per physical run.  A     *)
(* failing append may leave part of the buffer in the file.                   *)
FlushCopy ==
    /\ fpc = "copy"
    /\ upto' = ring.committed_addr
    /\ LET bytes == CommittedBytes(ring, buf, ring.committed_addr)
           first == Min(Len(bytes), Capacity - (ring.flush_cursor % Capacity))
           log   == Appended(Appended([wbuf |-> wbuf, file |-> file],
                                      SubSeq(bytes, 1, first)),
                             SubSeq(bytes, first + 1, Len(bytes)))
       IN \/ /\ wbuf' = log.wbuf /\ file' = log.file
             /\ fpc' = "advance"
          \/ /\ "append" \in Faults
             /\ log.file # file
             /\ \E n \in 0 .. Len(wbuf \o bytes) - 1 :
                   file' = file \o SubSeq(wbuf \o bytes, 1, n)
             /\ wbuf' = <<>>
             /\ fpc' = "advance_failed"
    /\ UNCHANGED <<ringVars, pc, rec, target, waterVars, rc, after, truncating,
                   synced, record_base, wal_sync, histVars>>

(* The end of copy_committed_prefix, also after a failed append.              *)
FlushAdvance ==
    /\ fpc \in {"advance", "advance_failed"}
    /\ ring' = [ring EXCEPT !.flush_cursor = upto]
    /\ upto' = 0
    /\ fpc' = IF fpc = "advance" THEN "sync" ELSE "set_err"
    /\ UNCHANGED <<buf, advance, pc, rec, target, waterVars, rc, after,
                   truncating, fileVars, histVars>>

(* set_err: sticky, and every waiter is woken to see it.                      *)
FlushSetErr ==
    /\ fpc = "set_err"
    /\ err' = TRUE
    /\ pc' = Notified
    /\ fpc' = after
    /\ rc' = 0
    /\ UNCHANGED <<ringVars, rec, target, queued, flushed, sync_target, checkpointed,
                   upto, after, truncating, fileVars, histVars>>

WrittenTo == record_base + rc

(* A record count read only when it is used, after the copy.                  *)
FlushSyncLateCount ==
    /\ fpc = "sync"
    /\ LET to == record_base + ring.committed_records
       IN IF sync_target > flushed /\ to >= sync_target
          THEN /\ file' = file \o wbuf /\ wbuf' = <<>>
               /\ synced' = Len(file) + Len(wbuf)
               /\ flushed' = Max(flushed, to)
          ELSE UNCHANGED <<file, wbuf, synced, flushed>>
    /\ fpc' = "notify"
    /\ UNCHANGED <<ringVars, pc, rec, target, queued, sync_target, checkpointed, err,
                   rc, upto, after, truncating, record_base, wal_sync, histVars>>

(* A sync that reports the target it was asked for instead of what it wrote.  *)
FlushSyncOverstated ==
    /\ fpc = "sync"
    /\ IF sync_target > flushed
       THEN /\ file' = file \o wbuf /\ wbuf' = <<>>
            /\ synced' = Len(file) + Len(wbuf)
            /\ flushed' = Max(flushed, sync_target)
       ELSE UNCHANGED <<file, wbuf, synced, flushed>>
    /\ fpc' = "notify"
    /\ UNCHANGED <<ringVars, pc, rec, target, queued, sync_target, checkpointed, err,
                   rc, upto, after, truncating, record_base, wal_sync, histVars>>

(* fsync when some waiter's target has been copied out.  WalWriter::flush     *)
(* writes the buffer and syncs the file; either may fail.                     *)
FlushSync ==
    /\ fpc = "sync"
    /\ IF sync_target > flushed /\ WrittenTo >= sync_target
       THEN \/ /\ file' = file \o wbuf /\ wbuf' = <<>>
               /\ synced' = Len(file) + Len(wbuf)
               /\ flushed' = Max(flushed, WrittenTo)
               /\ fpc' = "notify"
            \/ /\ "sync" \in Faults
               /\ \E n \in 0 .. Len(wbuf) : file' = file \o SubSeq(wbuf, 1, n)
               /\ wbuf' = <<>>
               /\ fpc' = "set_err"
               /\ UNCHANGED <<synced, flushed>>
       ELSE /\ fpc' = "notify"
            /\ UNCHANGED <<file, wbuf, synced, flushed>>
    /\ UNCHANGED <<ringVars, pc, rec, target, queued, sync_target, checkpointed, err,
                   rc, upto, after, truncating, record_base, wal_sync, histVars>>

(* A wake-up test that is off by one.                                         *)
FlushNotifyStrict ==
    /\ fpc = "notify"
    /\ pc' = IF flushed > sync_target THEN Notified ELSE pc
    /\ fpc' = after
    /\ rc' = 0
    /\ UNCHANGED <<ringVars, rec, target, waterVars, upto, after, truncating,
                   fileVars, histVars>>

(* Waiters are woken once every outstanding target is covered.                *)
FlushNotify ==
    /\ fpc = "notify"
    /\ pc' = IF flushed >= sync_target THEN Notified ELSE pc
    /\ fpc' = after
    /\ rc' = 0
    /\ UNCHANGED <<ringVars, rec, target, waterVars, upto, after, truncating,
                   fileVars, histVars>>

(* A truncate request answered without draining again.                        *)
FlushRecvNoDrain ==
    /\ fpc = "recv"
    /\ fpc' = IF truncating THEN "truncate" ELSE "drain"
    /\ truncating' = FALSE
    /\ UNCHANGED <<ringVars, pc, rec, target, waterVars, rc, upto, after, fileVars, histVars>>

(* recv_timeout: a truncate request is answered after one more drain; a flush *)
(* wake and the poll's timeout both just go round.                            *)
FlushRecv ==
    /\ fpc = "recv"
    /\ fpc' = "drain"
    /\ after' = IF truncating THEN "truncate" ELSE "recv"
    /\ truncating' = FALSE
    /\ UNCHANGED <<ringVars, pc, rec, target, waterVars, rc, upto, fileVars, histVars>>

-----------------------------------------------------------------------------
(* do_truncate and WalWriter::checkpoint_and_truncate.                        *)

TruncateAnswer(ok) ==
    /\ fpc' = "drain" /\ after' = "recv"
    /\ pc' = [pc EXCEPT ![Ck] = IF ok THEN "idle" ELSE "failed"]
    /\ target' = [target EXCEPT ![Ck] = 0]
    /\ checkpointed' = IF ok THEN Max(checkpointed, target[Ck]) ELSE checkpointed
    /\ UNCHANGED <<buf, advance, rec, queued, flushed, sync_target, err, rc, upto,
                   truncating, record_base, wal_sync, recs, acked, redundant,
                   captured, barriers, truncates>>

(* The file is cut back to its header, the ring starts over.                  *)
TruncateDone ==
    /\ fpc = "truncate" /\ ~err
    /\ file' = <<>> /\ wbuf' = <<>> /\ synced' = 0
    /\ ring' = ResetAfterDrain(ring)
    /\ UNCHANGED torn
    /\ TruncateAnswer(TRUE)

(* The sticky error, or a failure that leaves whole records behind: the flush *)
(* fails, or set_len does, or only the final sync does.                       *)
TruncateFails ==
    /\ fpc = "truncate"
    /\ \/ err /\ UNCHANGED <<file, wbuf, synced>>
       \/ /\ ~err /\ "truncate" \in Faults
          /\ \/ UNCHANGED <<file, wbuf, synced>>
             \/ file' = file \o wbuf /\ wbuf' = <<>> /\ synced' \in {synced, Len(file')}
             \/ file' = <<>> /\ wbuf' = <<>> /\ synced' = 0
    /\ UNCHANGED <<ring, torn>>
    /\ TruncateAnswer(FALSE)

(* write_all fails part-way: the buffer is kept and will be written again.    *)
TruncateTorn ==
    /\ fpc = "truncate" /\ ~err /\ "torn_truncate" \in Faults
    /\ \E n \in 1 .. Len(wbuf) - 1 : file' = file \o SubSeq(wbuf, 1, n)
    /\ torn' = TRUE
    /\ UNCHANGED <<ring, wbuf, synced>>
    /\ TruncateAnswer(FALSE)

-----------------------------------------------------------------------------
Submit(w) == \/ SubmitReserve(w) \/ SubmitFill(w) \/ SubmitNoSpace(w)
             \/ SubmitPublishAddr(w) \/ SubmitPublishRecords(w) \/ SubmitCount(w)

FlushTo(t) == FlushToDone(t) \/ FlushToRaise(t) \/ FlushToCheck(t)

Flusher == \/ FlushRead \/ FlushCopy \/ FlushAdvance \/ FlushSetErr \/ FlushSync
           \/ FlushNotify \/ FlushRecv
           \/ TruncateDone \/ TruncateFails \/ TruncateTorn

Next == \/ \E w \in Writers : Submit(w)
        \/ \E t \in Threads : FlushTo(t)
        \/ BarrierCapture \/ BarrierEnd \/ TruncateSend
        \/ Flusher

Spec == Init /\ [][Next]_vars

(* A writer that has reserved goes on to publish, a waiting thread runs when  *)
(* it is woken, and the flusher polls for ever (FLUSH_POLL).                  *)
Fairness == /\ \A w \in Writers : /\ WF_vars(SubmitFill(w) \/ SubmitNoSpace(w))
                                  /\ WF_vars(SubmitPublishAddr(w))
                                  /\ WF_vars(SubmitPublishRecords(w) \/ SubmitCount(w))
            /\ \A t \in Threads : WF_vars(FlushTo(t))
            /\ WF_vars(Flusher)

FairSpec == Spec /\ Fairness

-----------------------------------------------------------------------------
(* The bytes the flusher has taken from the ring are whole records in         *)
(* reservation order, never a gap, a torn range or an overwritten one: what   *)
(* copy_committed_prefix and the byte-keyed fold promise ("No torn / gap      *)
(* copy is possible", ring.rs).  A failed write may cut the last record, and  *)
(* after a truncate that failed inside write_all the log is not to be read.   *)
LogIsReservationOrder ==
    LET log == file \o wbuf
    IN ~torn => \A i \in 1 .. Len(log) - 1 :
          LET b == log[i] IN LET c == log[i + 1] IN
          IF b[2] < Length(b[1]) THEN c = <<b[1], b[2] + 1>>
                                 ELSE c = <<b[1] + 1, 1>>

InSyncedFile(r) == \E i \in 1..synced : file[i] = <<r, Length(r)>>

Durable(r) == r \in redundant \/ InSyncedFile(r)

(* `flushed` never overstates: the first flushed - record_base records of     *)
(* this process, and the reopened log when it is counted, are fsynced or      *)
(* already superseded by a checkpoint (drain_and_maybe_sync's "safe lower     *)
(* bound").                                                                   *)
FlushedIsLowerBound ==
    \A r \in 1 - record_base .. flushed - record_base : Durable(r)

(* W2D: when the checkpoint's flush_up_to returns, every record that had been *)
(* submitted when the boundary was captured is on disk (round.rs step 2).     *)
BarrierDurable == pc[Ck] = "synced" => \A r \in captured : Durable(r)

(* What reset_after_drain asserts holds whenever do_truncate reaches it.      *)
ResetFindsDrainedRing == fpc = "truncate" /\ ~err => FullyDrained(ring) /\ advance = NoOne

(* JournalAck::wait "blocks until the record is fsync-durable".               *)
AckedIsDurable == \A r \in acked : Durable(r)

(* A thread waiting for a flush or a truncate is answered: no wake-up is      *)
(* lost, and nobody waits for a record that cannot commit.                    *)
WaitersReturn == \A t \in Threads :
    pc[t] \in {"ack", "check", "parked", "truncating"} ~>
    pc[t] \in {"idle", "synced", "failed"}

=============================================================================
