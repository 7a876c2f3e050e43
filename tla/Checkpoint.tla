----------------------------- MODULE Checkpoint -----------------------------
(* Write-ahead ordering of a persistent tree: foreground writers over cached  *)
(* blob frames, the journal, the background checkpointer (planner thread and  *)
(* I/O thread), a manual checkpoint, eviction, and the blob store, with       *)
(* failing store and journal calls, crashes and reopening.                    *)
(*                                                                            *)
(*   api/tree.rs            put, the manual checkpoint, replay_wal            *)
(*   checkpoint/round.rs    the planner (Pipeline, run_round)                 *)
(*   checkpoint/io.rs       the I/O worker (child-first durability waves)     *)
(*   store/buffer_manager   dirty / flushing bookkeeping, orphan reclaim      *)
(*                                                                            *)
(* A frame is a record of the values its keys hold and of the child frame     *)
(* each spilled key moved to; a value is the number of the operation that     *)
(* wrote it.  Removing a key is writing a tombstone, so one operation stands  *)
(* for put and delete.  Content versions are those of the frame's latch: they *)
(* grow with every exclusive hold and restart when a frame is reloaded.       *)
EXTENDS Naturals, Sequences, FiniteSets

CONSTANTS Writers, Keys,
          Root,          \* the tree's root blob, pinned while the tree is open
          Kids,          \* GUIDs that spillover can allocate
          None,
          MaxInFlight,   \* epochs the planner may have outstanding
          MaxManual,     \* manual checkpoints per behaviour
          MaxOps, MaxFaults, MaxCrashes,
          MaxFaultyOps,  \* operations of a behaviour with a fault or a crash
          Faults         \* which calls may fail: "write", "flush", "wal", "submit"

ASSUME CheckpointAssumption ==
    /\ Root \notin Kids /\ None \notin Kids \cup {Root}
    /\ IsFiniteSet(Kids)
    /\ {MaxOps, MaxManual, MaxFaults, MaxCrashes, MaxFaultyOps} \subseteq Nat
    /\ MaxInFlight \in Nat \ {0}

Guids == Kids \cup {Root}
STRUCTURAL_SEQ == MaxOps + 1      \* u64::MAX: dirt no journal record covers
CLEAN == MaxOps + 2               \* not in the dirty map
Frames == [vals : [Keys -> 0..MaxOps], kid : [Keys -> Kids \cup {None}]]
Blank == [vals |-> [k \in Keys |-> 0], kid |-> [k \in Keys |-> None]]

VARIABLES
    wr,          \* per writer: where it is, its key, operation and sequence number
    ops,         \* operations begun
    next_seq,
    hist,        \* every record ever submitted and not lost by a crash, in log order
    wbase, wdur, \* records truncated away; records certainly on disk
    cache, ver,  \* cached frames and their content versions
    dirty,       \* lowest unflushed sequence number per frame
    flushing,    \* checkpoint epochs that own an image of the frame
    retired,     \* detached frames awaiting reclaim
    merge_cand,  \* the root is queued for the merge pass
    fresh,       \* GUIDs spillover has not handed out
    failed,      \* failed_closed
    man, pend,   \* manifest in memory; its deltas not yet persisted
    unsynced,    \* data writes since the last store flush
    disk,        \* what reopening the store finds
    ck,          \* the two checkpoint planners, "bg" and "man"
    queue,       \* epochs sent to the I/O thread
    reports,     \* results of epochs the planner has not reaped
    batch,       \* the holder of checkpoint_io and its progress
    faults, crashes, manuals

walVars == <<hist, wbase, wdur>>
frameVars == <<cache, ver>>
markVars == <<dirty, flushing>>
treeVars == <<retired, merge_cand, fresh, failed>>
storeVars == <<man, pend, unsynced, disk>>
ioVars == <<queue, reports, batch>>
opVars == <<wr, ops, next_seq>>
bounds == <<faults, crashes, manuals>>
vars == <<opVars, walVars, frameVars, markVars, treeVars, storeVars, ck, ioVars, bounds>>

-----------------------------------------------------------------------------
(* Bookkeeping shared by the actions.                                         *)
Lower(a, b) == IF a < b THEN a ELSE b
Higher(a, b) == IF a < b THEN b ELSE a
NoDelta == [g \in {} |-> None]
NoSnap == [g \in {} |-> None]

(* One checkpoint_io transaction: who holds the lock, the step it is at, the  *)
(* epoch's entries, and (manual checkpoints) how the writes came out.         *)
NoBatch == [owner |-> None, st |-> "none", ents |-> NoSnap, res |-> "ok"]

(* mark_dirty: the map keeps the lowest unflushed sequence number.            *)
MarkDirty(d, g, s) == [d EXCEPT ![g] = Lower(@, s)]

(* restore_dirty over the entries S of ents.                                  *)
RestoreDirty(d, ents, S) ==
    [g \in Guids |-> IF g \in S THEN Lower(d[g], ents[g].seq) ELSE d[g]]

ReleaseFlushing(f, S) ==
    [g \in Guids |-> IF g \in S /\ f[g] > 0 THEN f[g] - 1 ELSE f[g]]

RestoreKeepsClaim(ents, S) == dirty' = RestoreDirty(dirty, ents, S) /\ UNCHANGED flushing

Restore(ents, S) ==
    /\ dirty' = RestoreDirty(dirty, ents, S)
    /\ flushing' = ReleaseFlushing(flushing, S)

Children(img) == {img.kid[k] : k \in Keys} \ {None}

(* Where a key lives below the given root image.                              *)
Home(root, k) == IF root.kid[k] = None THEN Root ELSE root.kid[k]

(* The image pinning a frame yields: the cached one, else the store's.        *)
Current(g) == IF cache[g] # None THEN cache[g] ELSE man[g]
CurrentVer(g) == IF cache[g] # None THEN ver[g] ELSE 0

Unflushed(g) == dirty[g] # CLEAN \/ flushing[g] > 0
NeedsFlush == unsynced \/ pend # NoDelta

CleanIgnoringDebt == \A g \in Guids : ~Unflushed(g)

Clean == /\ \A g \in Guids : ~Unflushed(g)
         /\ ~NeedsFlush

NeedsCheckpoint == Len(hist) > wbase

(* The gates.  A writer is inside the maintenance gate for its whole          *)
(* operation and inside the commit gate from its first change to its record.  *)
InMaintenance(w) == wr[w].st # "idle"
InCommit(w) == wr[w].st \in {"applied", "marked"}
NoWriterInCommit == \A w \in Writers : ~InCommit(w)
MaintenanceFree == /\ \A w \in Writers : ~InMaintenance(w)
                   /\ ck["man"].pc = "idle"
MaintenanceTaken == ck["bg"].pc = "reclaim" \/ ck["bg"].pc = "reclaimed"

InFlight == Len(queue) + Len(reports) + (IF batch.owner = "bg" THEN 1 ELSE 0)
HasRoomForTwo == InFlight + 1 < MaxInFlight
HasRoom == InFlight < MaxInFlight

Fault(kind) == /\ kind \in Faults /\ ops <= MaxFaultyOps
               /\ faults < MaxFaults /\ faults' = faults + 1

IdleWriter == [st |-> "idle", key |-> None, op |-> 0, seq |-> 0]
IdlePlanner == [pc |-> "idle", ret |-> "idle", upto |-> 0, snap |-> NoSnap, merged |-> FALSE]

Init ==
    /\ wr = [w \in Writers |-> IdleWriter]
    /\ ops = 0 /\ next_seq = 1
    /\ hist = <<>> /\ wbase = 0 /\ wdur = 0
    /\ cache = [g \in Guids |-> IF g = Root THEN Blank ELSE None]
    /\ ver = [g \in Guids |-> 0]
    /\ dirty = [g \in Guids |-> CLEAN]
    /\ flushing = [g \in Guids |-> 0]
    /\ retired = {} /\ merge_cand = FALSE /\ fresh = Kids /\ failed = FALSE
    /\ man = [g \in Guids |-> IF g = Root THEN Blank ELSE None]
    /\ pend = NoDelta /\ unsynced = FALSE
    /\ disk = man
    /\ ck = [p \in {"bg", "man"} |-> IdlePlanner]
    /\ queue = <<>> /\ reports = <<>> /\ batch = NoBatch
    /\ faults = 0 /\ crashes = 0 /\ manuals = 0

-----------------------------------------------------------------------------
(* Writers: Tree::put (put_inner_conditional).                                *)

(* Maintenance gate, mutation gate, endpoint lock, the failed-closed check,   *)
(* then the sequence number; the commit gate comes later.                     *)
Begin(w, k) ==
    /\ wr[w].st = "idle" /\ ops < IF faults + crashes = 0 THEN MaxOps ELSE MaxFaultyOps
    /\ ~MaintenanceTaken /\ ~failed
    /\ \A v \in Writers : wr[v].key # k
    /\ ops' = ops + 1 /\ next_seq' = next_seq + 1
    /\ wr' = [wr EXCEPT ![w] = [st |-> "begun", key |-> k, op |-> ops + 1, seq |-> next_seq]]
    /\ UNCHANGED <<walVars, frameVars, markVars, treeVars, storeVars, ck, ioVars, bounds>>

(* The walker writes the key where it lives.  A child is marked dirty under   *)
(* its latch; the root is marked by put, after its latch is released.         *)
ApplyRoot(w) ==
    LET k == wr[w].key IN
    /\ wr[w].st = "begun"
    /\ Home(cache[Root], k) = Root
    /\ cache' = [cache EXCEPT ![Root].vals[k] = wr[w].op]
    /\ ver' = [ver EXCEPT ![Root] = @ + 1]
    /\ wr' = [wr EXCEPT ![w].st = "applied"]
    /\ UNCHANGED <<ops, next_seq, walVars, markVars, treeVars, storeVars, ck, ioVars, bounds>>

MarkRoot(w) ==
    /\ wr[w].st = "applied"
    /\ dirty' = MarkDirty(dirty, Root, wr[w].seq)
    /\ wr' = [wr EXCEPT ![w].st = "marked"]
    /\ UNCHANGED <<ops, next_seq, walVars, frameVars, flushing, treeVars, storeVars, ck, ioVars, bounds>>

ApplyChild(w) ==
    LET k == wr[w].key
        c == Home(cache[Root], k) IN
    /\ wr[w].st = "begun" /\ c # Root
    /\ cache' = [cache EXCEPT ![c] = [Current(c) EXCEPT !.vals[k] = wr[w].op]]
    /\ ver' = [ver EXCEPT ![c] = CurrentVer(c) + 1]
    /\ dirty' = MarkDirty(dirty, c, wr[w].seq)
    /\ wr' = [wr EXCEPT ![w].st = "marked"]
    /\ UNCHANGED <<ops, next_seq, walVars, flushing, treeVars, storeVars, ck, ioVars, bounds>>

(* The root is full: the subtree of some key v moves to a fresh child, both   *)
(* frames become structural dirt, and the insert is retried in the same       *)
(* descent, in the root or across the new edge.                               *)
ApplySpilling(w, v, c) ==
    LET k == wr[w].key
        root == [cache[Root] EXCEPT !.kid[v] = c, !.vals[v] = 0]
        child == [Blank EXCEPT !.vals[v] = cache[Root].vals[v]]
        structural == MarkDirty(MarkDirty(dirty, c, STRUCTURAL_SEQ), Root, STRUCTURAL_SEQ) IN
    /\ wr[w].st = "begun" /\ c \in fresh
    /\ Home(cache[Root], k) = Root /\ Home(cache[Root], v) = Root
    /\ IF v = k
       THEN /\ cache' = [cache EXCEPT ![Root] = root, ![c] = [child EXCEPT !.vals[v] = wr[w].op]]
            /\ ver' = [ver EXCEPT ![Root] = @ + 1, ![c] = 1]
            /\ dirty' = MarkDirty(structural, c, wr[w].seq)
            /\ wr' = [wr EXCEPT ![w].st = "marked"]
       ELSE /\ cache' = [cache EXCEPT ![Root] = [root EXCEPT !.vals[k] = wr[w].op], ![c] = child]
            /\ ver' = [ver EXCEPT ![Root] = @ + 1, ![c] = 0]
            /\ dirty' = structural
            /\ wr' = [wr EXCEPT ![w].st = "applied"]
    /\ fresh' = fresh \ {c}
    /\ merge_cand' = TRUE
    /\ UNCHANGED <<ops, next_seq, walVars, flushing, retired, failed, storeVars, ck, ioVars, bounds>>

(* submit_applied, then the gates are left; waiting for the acknowledgement   *)
(* happens outside them.  A failed submit latches the store closed first.     *)
Submit(w) ==
    /\ wr[w].st = "marked"
    /\ hist' = Append(hist, [key |-> wr[w].key, op |-> wr[w].op, seq |-> wr[w].seq])
    /\ wr' = [wr EXCEPT ![w] = IdleWriter]
    /\ UNCHANGED <<ops, next_seq, wbase, wdur, frameVars, markVars, treeVars, storeVars, ck,
                   ioVars, bounds>>

SubmitFails(w) ==
    /\ wr[w].st = "marked"
    /\ Fault("submit")
    /\ failed' = TRUE
    /\ wr' = [wr EXCEPT ![w] = IdleWriter]
    /\ UNCHANGED <<ops, next_seq, walVars, frameVars, markVars, retired, merge_cand, fresh,
                   storeVars, ck, ioVars, crashes, manuals>>

(* The journal's own flusher syncs some of what was submitted.                *)
JournalSync(n) ==
    /\ n \in (wdur + 1)..Len(hist)
    /\ wdur' = n
    /\ UNCHANGED <<opVars, hist, wbase, frameVars, markVars, treeVars, storeVars, ck, ioVars, bounds>>

(* Eviction (try_evict_cold, try_evict_until): an unprotected frame leaves    *)
(* the cache.                                                                 *)
EvictableInFlight(g) == dirty[g] = CLEAN
Evictable(g) == ~Unflushed(g)

Evict(g) ==
    /\ g # Root /\ cache[g] # None
    /\ Evictable(g)
    /\ cache' = [cache EXCEPT ![g] = None]
    /\ ver' = [ver EXCEPT ![g] = 0]
    /\ UNCHANGED <<opVars, walVars, markVars, treeVars, storeVars, ck, ioVars, bounds>>

(* A reader pins a child of the live tree that is not cached.                 *)
Load(g) ==
    /\ g \in Children(cache[Root]) /\ cache[g] = None /\ man[g] # None
    /\ cache' = [cache EXCEPT ![g] = man[g]]
    /\ UNCHANGED <<opVars, walVars, ver, markVars, treeVars, storeVars, ck, ioVars, bounds>>

-----------------------------------------------------------------------------
(* Capture, journal barrier and clone: run_round steps 1-3 for "bg",          *)
(* checkpoint_shared_store_with_maintenance_held for "man".                   *)

(* A planner gives a round up; a manual checkpoint returns its error.         *)
Abandon(p) == ck' = [ck EXCEPT ![p] = IdlePlanner]

(* What snapshot_dirty claims: frames retired while no epoch owns an image of *)
(* anything are dropped from the dirty map instead.                           *)
Claimed == LET gone == IF \A g \in Guids : flushing[g] = 0 THEN retired ELSE {}
           IN {g \in Guids : dirty[g] # CLEAN} \ gone

(* snapshot_dirty_versions, still under the commit gate.                      *)
DirtyVersions == [g \in Claimed |-> [seq |-> dirty[g], ver |-> ver[g], img |-> None, st |-> "todo"]]

Capture(p) ==
    /\ ck[p].pc = "capture" /\ NoWriterInCommit
    /\ IF failed
       THEN /\ Abandon(p)
            /\ UNCHANGED markVars
       ELSE IF \E g \in Claimed : cache[g] = None
       THEN (* snapshot_dirty_versions fails and both drains are undone.      *)
            /\ Abandon(p)
            /\ dirty' = [g \in Guids |-> IF g \in Claimed THEN dirty[g] ELSE CLEAN]
            /\ UNCHANGED flushing
       ELSE /\ ck' = [ck EXCEPT ![p] =
                        [@ EXCEPT !.pc = "wal", !.upto = Len(hist), !.snap = DirtyVersions]]
            /\ dirty' = [g \in Guids |-> CLEAN]
            /\ flushing' = [g \in Guids |-> IF g \in Claimed THEN flushing[g] + 1 ELSE flushing[g]]
    /\ UNCHANGED <<opVars, walVars, frameVars, treeVars, storeVars, ioVars, bounds>>

(* flush_up_to, outside the commit gate.                                      *)
WalBarrier(p) ==
    /\ ck[p].pc = "wal"
    /\ wdur' = Higher(wdur, ck[p].upto)
    /\ ck' = [ck EXCEPT ![p].pc = "clone", ![p].upto = 0]
    /\ UNCHANGED <<opVars, hist, wbase, frameVars, markVars, treeVars, storeVars, ioVars, bounds>>

WalBarrierFails(p) ==
    /\ ck[p].pc = "wal" /\ Fault("wal")
    /\ Restore(ck[p].snap, DOMAIN ck[p].snap)
    /\ Abandon(p)
    /\ UNCHANGED <<opVars, walVars, frameVars, treeVars, storeVars, ioVars, crashes, manuals>>

(* snapshot_bytes_if_version of one captured frame.  A manual checkpoint that *)
(* meets a newer version restores everything and captures again.              *)
Clone(p, g) ==
    LET snap == ck[p].snap IN
    /\ ck[p].pc = "clone" /\ g \in DOMAIN snap
    /\ snap[g].st = "todo" /\ snap[g].img = None
    /\ IF cache[g] = None
       THEN /\ Restore(snap, DOMAIN snap)
            /\ Abandon(p)
       ELSE IF ver[g] = snap[g].ver
       THEN /\ ck' = [ck EXCEPT ![p].snap[g].img = cache[g]]
            /\ UNCHANGED markVars
       ELSE IF p = "bg"
       THEN /\ ck' = [ck EXCEPT ![p].snap[g].st = "stale"]
            /\ UNCHANGED markVars
       ELSE /\ Restore(snap, DOMAIN snap)
            /\ ck' = [ck EXCEPT ![p] = [IdlePlanner EXCEPT !.pc = "capture"]]
    /\ UNCHANGED <<opVars, walVars, frameVars, treeVars, storeVars, ioVars, bounds>>

AllCloned(p) == /\ ck[p].pc = "clone"
                /\ \A g \in DOMAIN ck[p].snap : ck[p].snap[g].st = "stale" \/ ck[p].snap[g].img # None

(* The rest of run_round: stale frames go back to the dirty map, an empty     *)
(* round goes on to truncation, any other becomes an epoch of the I/O thread. *)
SubmitEpoch ==
    LET snap == ck["bg"].snap
        stale == {g \in DOMAIN snap : snap[g].st = "stale"}
        good == DOMAIN snap \ stale IN
    /\ AllCloned("bg")
    /\ Restore(snap, stale)
    /\ IF good = {} /\ ~ck["bg"].merged /\ ~(InFlight = 0 /\ NeedsFlush)
       THEN /\ ck' = [ck EXCEPT !["bg"] = [IdlePlanner EXCEPT !.pc = "truncate"]]
            /\ UNCHANGED queue
       ELSE /\ Abandon("bg")
            /\ queue' = Append(queue, [g \in good |-> snap[g]])
    /\ UNCHANGED <<opVars, walVars, frameVars, treeVars, storeVars, reports, batch, bounds>>

-----------------------------------------------------------------------------
(* The planner's pipeline: reaping reports, truncating, merging.              *)

(* An epoch's error ends the round, but only after a drain has emptied the    *)
(* pipeline.                                                                  *)
FinishEpoch(pl, report) ==
    IF report # "err" THEN pl
    ELSE IF pl.pc = "drain" THEN [pl EXCEPT !.ret = "failed"] ELSE IdlePlanner

(* reap_ready, wait_for_room and drain consume reports in order.              *)
Reap ==
    LET pl == ck["bg"] IN
    /\ reports # <<>>
    /\ pl.pc \in {"idle", "room", "drain"}
    /\ pl.pc = "room" => ~HasRoom
    /\ reports' = Tail(reports)
    /\ ck' = [ck EXCEPT !["bg"] = FinishEpoch(pl, Head(reports))]
    /\ UNCHANGED <<opVars, walVars, frameVars, markVars, treeVars, storeVars, queue, batch, bounds>>

(* A round starts once nothing is left to reap.                               *)
StartRound ==
    /\ ck["bg"].pc = "idle" /\ reports = <<>> /\ ~failed
    /\ ck' = [ck EXCEPT !["bg"] = [@ EXCEPT !.pc = IF InFlight = 0 THEN "truncate" ELSE "room",
                                            !.ret = "room"]]
    /\ UNCHANGED <<opVars, walVars, frameVars, markVars, treeVars, storeVars, ioVars, bounds>>

(* maybe_truncate: under the exclusive maintenance gate and the exclusive     *)
(* commit gate, a clean frontier drops the journal's records and hands the    *)
(* retired frames to reclaim_retired_orphan_batch.                            *)
Truncate ==
    LET pl == ck["bg"] IN
    /\ pl.pc = "truncate" /\ MaintenanceFree
    /\ IF Clean
       THEN /\ wbase' = Len(hist) /\ wdur' = Len(hist)
            /\ ck' = [ck EXCEPT !["bg"].pc = IF retired = {} THEN pl.ret ELSE "reclaim"]
       ELSE /\ ck' = [ck EXCEPT !["bg"].pc = pl.ret]
            /\ UNCHANGED <<wbase, wdur>>
    /\ UNCHANGED <<opVars, hist, frameVars, markVars, treeVars, storeVars, ioVars, bounds>>

(* reclaim_unreachable_blob for every retired frame the store knows, with     *)
(* the maintenance gate still held; then one store flush.                     *)
Reclaim ==
    LET stored == {g \in retired : man[g] # None}
        doomed == {g \in stored : ~Unflushed(g)} IN
    /\ ck["bg"].pc = "reclaim"
    /\ man' = [g \in Guids |-> IF g \in doomed THEN None ELSE man[g]]
    /\ pend' = [g \in doomed \cup DOMAIN pend |-> IF g \in doomed THEN None ELSE pend[g]]
    /\ cache' = [g \in Guids |-> IF g \in doomed THEN None ELSE cache[g]]
    /\ ver' = [g \in Guids |-> IF g \in doomed THEN 0 ELSE ver[g]]
    /\ retired' = IF doomed = {} THEN stored ELSE retired
    /\ ck' = [ck EXCEPT !["bg"].pc = IF doomed = {} THEN ck["bg"].ret ELSE "reclaimed"]
    /\ UNCHANGED <<opVars, walVars, markVars, merge_cand, fresh, failed, unsynced, disk, ioVars,
                   bounds>>

(* wait_for_room has room; the merge pass first drains the pipeline.          *)
MakeRoom ==
    /\ ck["bg"].pc = "room" /\ HasRoom
    /\ IF failed
       THEN Abandon("bg")
       ELSE ck' = [ck EXCEPT !["bg"].pc = IF merge_cand THEN "drain" ELSE "capture"]
    /\ UNCHANGED <<opVars, walVars, frameVars, markVars, treeVars, storeVars, ioVars, bounds>>

Drained ==
    /\ ck["bg"].pc = "drain" /\ InFlight = 0
    /\ IF ck["bg"].ret = "failed"
       THEN Abandon("bg")
       ELSE ck' = [ck EXCEPT !["bg"].pc = "truncate", !["bg"].ret = "merge"]
    /\ UNCHANGED <<opVars, walVars, frameVars, markVars, treeVars, storeVars, ioVars, bounds>>

(* try_merge_children: the root with the children in S folded into it.        *)
Folded(root, S) ==
    [vals |-> [k \in Keys |-> IF root.kid[k] \in S THEN Current(root.kid[k]).vals[k] ELSE root.vals[k]],
     kid |-> [k \in Keys |-> IF root.kid[k] \in S THEN None ELSE root.kid[k]]]

(* run_merge_pass on the root: each child of S is staged under its parent and *)
(* retired when the parent is marked dirty, which also inherits the child's   *)
(* unflushed sequence number.                                                 *)
MergeChildren(S) ==
    LET root == cache[Root]
        folded == Folded(root, S)
        debt == {dirty[g] : g \in S} \ {CLEAN} IN
    /\ ck["bg"].pc = "merge" /\ MaintenanceFree
    /\ S \subseteq Children(root)
    /\ IF S = {}
       THEN UNCHANGED <<frameVars, dirty, retired>>
       ELSE /\ cache' = [cache EXCEPT ![Root] = folded]
            /\ ver' = [ver EXCEPT ![Root] = @ + 1]
            /\ dirty' = [dirty EXCEPT ![Root] =
                           CHOOSE s \in debt \cup {@, STRUCTURAL_SEQ} :
                              \A t \in debt \cup {@, STRUCTURAL_SEQ} : s <= t]
            /\ retired' = retired \cup S
    /\ merge_cand' = (S # {} /\ Children(folded) # {})
    /\ ck' = [ck EXCEPT !["bg"] = [IdlePlanner EXCEPT !.pc = "capture", !.merged = S # {}]]
    /\ UNCHANGED <<opVars, walVars, flushing, fresh, failed, storeVars, ioVars, bounds>>

-----------------------------------------------------------------------------
(* The write/sync transaction under checkpoint_io: commit_epoch_batch on the  *)
(* I/O thread, finish_checkpoint_snapshot_shared in a manual checkpoint.      *)

Enter(p, ents) ==
    /\ batch.owner = None
    /\ batch' = [owner |-> p, ents |-> ents, res |-> "ok",
                 st |-> IF ents = NoSnap
                        THEN IF p = "bg" \/ NeedsFlush THEN "flush" ELSE "truncate"
                        ELSE IF NeedsFlush THEN "preflush" ELSE "wave"]

TakeEpoch ==
    /\ queue # <<>>
    /\ Enter("bg", Head(queue))
    /\ queue' = Tail(queue)
    /\ UNCHANGED <<opVars, walVars, frameVars, markVars, treeVars, storeVars, ck, reports, bounds>>

EnterManual ==
    /\ AllCloned("man")
    /\ Enter("man", ck["man"].snap)
    /\ ck' = [ck EXCEPT !["man"] = [IdlePlanner EXCEPT !.pc = "io"]]
    /\ UNCHANGED <<opVars, walVars, frameVars, markVars, treeVars, storeVars, queue, reports, bounds>>

(* The transaction stops with a result: the entries in S are restored.  The   *)
(* I/O thread reports; a manual checkpoint still flushes the store.           *)
Stop(S, res) ==
    /\ Restore(batch.ents, S)
    /\ IF batch.owner = "bg"
       THEN /\ batch' = NoBatch
            /\ reports' = Append(reports, res)
       ELSE /\ batch' = [batch EXCEPT !.st = "flush", !.ents = NoSnap, !.res = res]
            /\ UNCHANGED reports

(* restore_batch_entries: an error restores every entry of the batch.         *)
Fail == Stop(DOMAIN batch.ents, "err")

Todo == {g \in DOMAIN batch.ents : batch.ents[g].st # "done"}

(* children_ready and the classification of a stalled wave.                   *)
Settled(c) == c \in DOMAIN batch.ents \ Todo
ChildReadyIfKnown(c) == Settled(c) \/ c \notin Todo
ChildReady(c) == \/ Settled(c)
                 \/ /\ c \notin Todo /\ ~Unflushed(c)
                    /\ man[c] # None /\ ~NeedsFlush
Wave == {g \in Todo : \A c \in Children(batch.ents[g].img) : ChildReady(c)}
Outside == UNION {Children(batch.ents[g].img) : g \in Todo} \ DOMAIN batch.ents
MissingChild == \E c \in Outside : ~Unflushed(c) /\ man[c] = None
Transient == \E c \in Outside : Unflushed(c) \/ (man[c] # None /\ NeedsFlush)

(* validate_content_version: no writer has changed the frame since capture.   *)
AssumedCurrent(g) == TRUE
StillCurrent(g) == ver[g] = batch.ents[g].ver

(* write_entries_in_dependency_order, one wave: the entries still current are *)
(* written to shadow slots and published in the in-memory manifest.           *)
WriteWave ==
    LET current == {g \in Wave : StillCurrent(g)} IN
    /\ batch.st = "wave" /\ Wave # {}
    /\ IF \E g \in Wave : cache[g] = None
       THEN /\ Fail
            /\ UNCHANGED storeVars
       ELSE /\ man' = [g \in Guids |-> IF g \in current THEN batch.ents[g].img ELSE man[g]]
            /\ pend' = [g \in current \cup DOMAIN pend |->
                          IF g \in current THEN batch.ents[g].img ELSE pend[g]]
            /\ unsynced' = (unsynced \/ current # {})
            /\ batch' = [batch EXCEPT !.st = "retire",
                           !.ents = [g \in DOMAIN @ |->
                             IF g \notin Wave THEN @[g]
                             ELSE [@[g] EXCEPT !.st = IF g \in current THEN "written" ELSE "stale"]]]
            /\ UNCHANGED <<markVars, reports, disk>>
    /\ UNCHANGED <<opVars, walVars, frameVars, treeVars, ck, queue, bounds>>

(* The data writes fail before anything is published.                         *)
WriteWaveFails ==
    /\ batch.st = "wave"
    /\ \E g \in Wave : cache[g] # None /\ StillCurrent(g)
    /\ Fault("write")
    /\ unsynced' = TRUE
    /\ Fail
    /\ UNCHANGED <<opVars, walVars, frameVars, treeVars, man, pend, disk, ck, queue, crashes, manuals>>

(* No entry can be written: finished, deferred to a later round, or corrupt.  *)
WavesEnd ==
    /\ batch.st = "wave" /\ Wave = {}
    /\ IF Todo = {} THEN Stop({}, "ok")
       ELSE IF ~MissingChild /\ Transient THEN Stop(Todo, "deferred")
       ELSE Fail
    /\ UNCHANGED <<opVars, walVars, frameVars, treeVars, storeVars, ck, queue, bounds>>

(* retire_write_through of one written entry, under its mutation shard.       *)
Retire(g) ==
    LET e == batch.ents[g] IN
    /\ batch.st = "retire" /\ g \in DOMAIN batch.ents /\ e.st = "written"
    /\ IF cache[g] = None THEN Fail
       ELSE /\ IF ~StillCurrent(g)
               THEN /\ batch' = [batch EXCEPT !.ents[g].st = "stale"]
                    /\ UNCHANGED markVars
               ELSE /\ batch' = [batch EXCEPT !.ents[g].st = "retired"]
                    /\ dirty' = [dirty EXCEPT ![g] =
                                   IF e.seq # STRUCTURAL_SEQ /\ @ <= e.seq THEN CLEAN ELSE @]
                    /\ flushing' = ReleaseFlushing(flushing, {g})
            /\ UNCHANGED reports
    /\ UNCHANGED <<opVars, walVars, frameVars, treeVars, storeVars, ck, queue, bounds>>

(* flush_inner: the pending manifest deltas reach the disk.                   *)
StoreFlushed ==
    /\ disk' = [g \in Guids |-> IF g \in DOMAIN pend THEN pend[g] ELSE disk[g]]
    /\ pend' = NoDelta /\ unsynced' = FALSE
    /\ UNCHANGED man

(* A flush that fails leaves any part of the deltas on disk, and owes them.   *)
StoreFlushFails ==
    /\ Fault("flush")
    /\ \E S \in SUBSET DOMAIN pend : disk' = [g \in Guids |-> IF g \in S THEN pend[g] ELSE disk[g]]
    /\ UNCHANGED <<man, pend, unsynced>>

RetiresDone == batch.st = "retire" /\ \A g \in DOMAIN batch.ents : batch.ents[g].st # "written"

(* The flush between waves: retired entries are now durable, and a stale one  *)
(* defers the rest of the epoch.                                              *)
FlushWave ==
    LET ents == [g \in DOMAIN batch.ents |->
                   IF batch.ents[g].st = "retired" THEN [batch.ents[g] EXCEPT !.st = "done"]
                   ELSE batch.ents[g]] IN
    /\ RetiresDone /\ StoreFlushed
    /\ IF \E g \in DOMAIN ents : ents[g].st = "stale"
       THEN Stop({g \in DOMAIN ents : ents[g].st # "done"}, "deferred")
       ELSE /\ batch' = [batch EXCEPT !.st = "wave", !.ents = ents]
            /\ UNCHANGED <<markVars, reports>>
    /\ UNCHANGED <<opVars, walVars, frameVars, treeVars, ck, queue, bounds>>

Preflush ==
    /\ batch.st = "preflush" /\ StoreFlushed
    /\ batch' = [batch EXCEPT !.st = "wave"]
    /\ UNCHANGED <<opVars, walVars, frameVars, markVars, treeVars, ck, queue, reports, bounds>>

WriteFlushFails ==
    /\ RetiresDone \/ batch.st = "preflush"
    /\ StoreFlushFails
    /\ Fail
    /\ UNCHANGED <<opVars, walVars, frameVars, treeVars, ck, queue, crashes, manuals>>

(* The flush that ends a transaction without entries, or a manual one.        *)
FlushEnd ==
    /\ batch.st = "flush" /\ StoreFlushed
    /\ IF batch.owner = "bg"
       THEN /\ batch' = NoBatch /\ reports' = Append(reports, "ok")
            /\ UNCHANGED ck
       ELSE /\ UNCHANGED reports
            /\ IF batch.res = "ok"
               THEN /\ batch' = [batch EXCEPT !.st = "truncate"]
                    /\ UNCHANGED ck
               ELSE /\ batch' = NoBatch
                    /\ ck' = [ck EXCEPT !["man"].pc = IF batch.res = "err" THEN "idle" ELSE "check"]
    /\ UNCHANGED <<opVars, walVars, frameVars, markVars, treeVars, queue, bounds>>

FlushEndFails ==
    /\ batch.st = "flush" /\ StoreFlushFails
    /\ batch' = NoBatch
    /\ IF batch.owner = "bg"
       THEN /\ reports' = Append(reports, "err")
            /\ UNCHANGED ck
       ELSE /\ Abandon("man")
            /\ UNCHANGED reports
    /\ UNCHANGED <<opVars, walVars, frameVars, markVars, treeVars, queue, crashes, manuals>>

(* The flush that ends reclaim_retired_orphan_batch; when it fails every      *)
(* candidate is queued again.                                                 *)
ReclaimFlushed ==
    /\ ck["bg"].pc = "reclaimed" /\ StoreFlushed
    /\ retired' = {g \in retired : man[g] # None}
    /\ ck' = [ck EXCEPT !["bg"].pc = ck["bg"].ret]
    /\ UNCHANGED <<opVars, walVars, frameVars, markVars, merge_cand, fresh, failed, ioVars, bounds>>

ReclaimFlushFails ==
    /\ ck["bg"].pc = "reclaimed" /\ StoreFlushFails
    /\ Abandon("bg")
    /\ UNCHANGED <<opVars, walVars, frameVars, markVars, treeVars, ioVars, crashes, manuals>>

-----------------------------------------------------------------------------
(* The manual checkpoint's own steps.                                         *)
StartManual ==
    /\ ck["man"].pc = "idle" /\ manuals < MaxManual
    /\ ~MaintenanceTaken /\ ~failed
    /\ manuals' = manuals + 1
    /\ ck' = [ck EXCEPT !["man"].pc = "capture"]
    /\ UNCHANGED <<opVars, walVars, frameVars, markVars, treeVars, storeVars, ioVars, faults, crashes>>

(* maybe_truncate_journal_shared, still under checkpoint_io.                  *)
ManualTruncate ==
    /\ batch.st = "truncate"
    /\ NeedsCheckpoint => NoWriterInCommit
    /\ IF NeedsCheckpoint /\ Clean
       THEN wbase' = Len(hist) /\ wdur' = Len(hist)
       ELSE UNCHANGED <<wbase, wdur>>
    /\ batch' = NoBatch
    /\ ck' = [ck EXCEPT !["man"].pc = "check"]
    /\ UNCHANGED <<opVars, hist, frameVars, markVars, treeVars, storeVars, queue, reports, bounds>>

(* checkpoint_is_clean_shared: return, or capture again.                      *)
ManualCheck ==
    /\ ck["man"].pc = "check" /\ NoWriterInCommit
    /\ ck' = [ck EXCEPT !["man"].pc = IF Clean /\ ~NeedsCheckpoint THEN "idle" ELSE "capture"]
    /\ UNCHANGED <<opVars, walVars, frameVars, markVars, treeVars, storeVars, ioVars, bounds>>

-----------------------------------------------------------------------------
(* A crash keeps the disk and at least the synced records; reopening replays  *)
(* the surviving records over the stored tree (replay_wal) and marks every    *)
(* frame it changes dirty.                                                    *)
LastOp(k, from, to) ==
    LET writes == {i \in from..to : hist[i].key = k}
    IN IF writes = {} THEN 0 ELSE hist[CHOOSE i \in writes : \A j \in writes : j <= i].op

LeastSeq(S) == CHOOSE s \in S : \A t \in S : s <= t

Replayed(g, d) == {i \in (wbase + 1)..d : Home(disk[Root], hist[i].key) = g}
ReplayUnmarked(g, d) == CLEAN
ReplayDirt(g, d) == LeastSeq({hist[i].seq : i \in Replayed(g, d)} \cup {CLEAN})

Reopen(d) ==
    LET root == disk[Root]
        redo(g) == [disk[g] EXCEPT !.vals = [k \in Keys |->
                      IF Home(root, k) = g /\ LastOp(k, wbase + 1, d) # 0
                      THEN LastOp(k, wbase + 1, d) ELSE @[k]]] IN
    /\ hist' = SubSeq(hist, 1, d) /\ wdur' = d
    /\ next_seq' = IF d = wbase THEN 1
                   ELSE (CHOOSE s \in {hist[i].seq : i \in (wbase + 1)..d} :
                           \A i \in (wbase + 1)..d : hist[i].seq <= s) + 1
    /\ cache' = [g \in Guids |-> IF Replayed(g, d) # {} THEN redo(g)
                                 ELSE IF g = Root THEN root ELSE None]
    /\ ver' = [g \in Guids |-> Cardinality(Replayed(g, d))]
    /\ dirty' = [g \in Guids |-> ReplayDirt(g, d)]

Crash ==
    /\ ops <= MaxFaultyOps /\ crashes < MaxCrashes /\ crashes' = crashes + 1
    /\ \E d \in wdur..Len(hist) : Reopen(d)
    /\ wr' = [w \in Writers |-> IdleWriter]
    /\ flushing' = [g \in Guids |-> 0]
    /\ retired' = {} /\ merge_cand' = FALSE /\ failed' = FALSE
    /\ man' = disk /\ pend' = NoDelta /\ unsynced' = FALSE
    /\ ck' = [p \in {"bg", "man"} |-> IdlePlanner]
    /\ queue' = <<>> /\ reports' = <<>> /\ batch' = NoBatch
    /\ UNCHANGED <<ops, wbase, fresh, disk, faults, manuals>>

-----------------------------------------------------------------------------
Write(w) == \/ \E k \in Keys : Begin(w, k)
            \/ ApplyRoot(w)
            \/ \E v \in Keys, c \in Kids : ApplySpilling(w, v, c)
            \/ ApplyChild(w) \/ MarkRoot(w)
            \/ Submit(w)

Checkpointing(p) == \/ Capture(p) \/ WalBarrier(p)
                    \/ \E g \in Guids : Clone(p, g)

Planner == \/ Reap \/ StartRound \/ Truncate \/ Reclaim \/ ReclaimFlushed
           \/ MakeRoom \/ Drained
           \/ \E S \in SUBSET Kids : MergeChildren(S)
           \/ Checkpointing("bg") \/ SubmitEpoch

IoSteps == \/ WriteWave \/ WavesEnd \/ \E g \in Guids : Retire(g)
           \/ FlushWave \/ Preflush \/ FlushEnd

IoThread == TakeEpoch \/ (batch.owner = "bg" /\ IoSteps)

Manual == \/ Checkpointing("man") \/ EnterManual
          \/ (batch.owner = "man" /\ IoSteps)
          \/ ManualTruncate \/ ManualCheck

Failure == \/ \E w \in Writers : SubmitFails(w)
           \/ \E p \in {"bg", "man"} : WalBarrierFails(p)
           \/ WriteWaveFails \/ WriteFlushFails \/ FlushEndFails \/ ReclaimFlushFails

Next == \/ \E w \in Writers : Write(w)
        \/ \E n \in 1..MaxOps : JournalSync(n)
        \/ \E g \in Guids : Evict(g) \/ Load(g)
        \/ Planner \/ IoThread \/ Manual \/ StartManual
        \/ Failure \/ Crash

Spec == Init /\ [][Next]_vars

(* Every thread keeps running: a writer finishes the operation it began, the  *)
(* planner's loop wakes at least once per idle_interval, the I/O thread       *)
(* serves its channel and a manual checkpoint runs to its end.  A manual      *)
(* checkpoint that captures again yields first (thread::yield_now), and the   *)
(* planner parks between rounds that make no progress, so neither starves the *)
(* other of checkpoint_io.                                                    *)
Fairness == /\ \A w \in Writers : WF_vars(wr[w].st # "idle" /\ Write(w))
            /\ WF_vars(Planner) /\ WF_vars(IoThread) /\ WF_vars(Manual)
            /\ SF_vars(TakeEpoch) /\ SF_vars(EnterManual)

FairSpec == Spec /\ Fairness

-----------------------------------------------------------------------------
(* The tree on disk is closed under its edges: a crash at any moment leaves   *)
(* no parent whose child the reopened store does not know (the child-first    *)
(* waves of io.rs, and reclaim only at a clean frontier).                     *)
DurableTreeClosed == /\ disk[Root] # None
                     /\ \A c \in Children(disk[Root]) : disk[c] # None

(* W2D and safe truncation.  However many unsynced records survive a crash,   *)
(* replaying the journal over the tree on disk gives exactly the operations   *)
(* whose records survive: no record was truncated before its effect was       *)
(* durable, and no effect is on disk before its record.                       *)
RecoveredValue(k, d) ==
    IF LastOp(k, wbase + 1, d) # 0 THEN LastOp(k, wbase + 1, d)
    ELSE disk[Home(disk[Root], k)].vals[k]

RecoveryExact ==
    \A d \in wdur..Len(hist) : \A k \in Keys : RecoveredValue(k, d) = LastOp(k, 1, d)

(* What a reader finds: no update is lost to eviction, reloading, spillover,  *)
(* merging or a checkpoint that writes an older image.                        *)
LiveTreeCurrent ==
    failed \/ \A k \in Keys :
        LET c == Home(cache[Root], k) IN
        \/ \E w \in Writers : InCommit(w) /\ wr[w].key = k
        \/ Current(c) # None /\ Current(c).vals[k] = LastOp(k, 1, Len(hist))

(* I1 of buffer_manager/mod.rs, the direction eviction relies on: a frame     *)
(* with dirty or in-flight checkpoint state keeps its cached image.  A write  *)
(* that failed after its image reached the store marks the frame dirty again  *)
(* although eviction may have taken it, so this is promised until then.       *)
UnflushedIsCached == faults = 0 => \A g \in Guids : Unflushed(g) => cache[g] # None

(* I1, the other direction: a cached frame of the live tree that differs from *)
(* the store's image is known to a later checkpoint.                          *)
NewerIsTracked ==
    \A g \in {Root} \cup Children(cache[Root]) :
        cache[g] # None /\ cache[g] # man[g] =>
            \/ Unflushed(g)
            \/ g = Root /\ \E w \in Writers : wr[w].st = "applied"

(* mutation.rs: flushing is the number of checkpoint epochs that still own an *)
(* image of the frame.  An epoch whose flush fails gives up entries that were *)
(* retired before as well (restore_dirty), and so a later epoch's claim.      *)
Owners(g) ==
    LET held(ents) == IF g \in DOMAIN ents /\ ents[g].st \in {"todo", "stale", "written"}
                      THEN 1 ELSE 0 IN
    held(ck["bg"].snap) + held(ck["man"].snap) + held(batch.ents)
    + Cardinality({i \in DOMAIN queue : g \in DOMAIN queue[i]})

FlushingCountsOwners == faults = 0 => \A g \in Guids : flushing[g] = Owners(g)

(* Progress: once the writers are done, the checkpointer reaches a clean      *)
(* frontier, truncates the journal and reclaims what was detached, and a      *)
(* manual checkpoint returns although it captures again whenever a writer or  *)
(* an epoch of the background checkpointer gets in its way.                   *)
CheckpointConverges ==
    <>[](failed \/ /\ wbase = Len(hist) /\ Clean /\ retired = {}
                   /\ ck["man"].pc = "idle")

=============================================================================
