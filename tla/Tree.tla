-------------------------------- MODULE Tree --------------------------------
(***************************************************************************)
(* One tree over many blob frames: writers and readers that walk it        *)
(* concurrently, copy-on-write snapshots, the route cache, online          *)
(* maintenance and the reclaim of detached frames.                         *)
(*                                                                         *)
(* Art says what one visit does to one frame.  Here a visit is one step,   *)
(* because the code makes it under the frame's exclusive latch: a writer   *)
(* is at a frame from the moment it latches it, and moves to a child by    *)
(* latching the child before it lets the parent go.  Readers take no gate; *)
(* a validated optimistic read is a read of the frame at one moment at     *)
(* which no writer holds the latch.  Snapshots, compaction, merging and    *)
(* checkpoint reclaim hold the mutation gate exclusively, so they find no  *)
(* writer inside the tree; dropping a snapshot takes no gate at all.       *)
(***************************************************************************)
EXTENDS Integers, Sequences, FiniteSets, SequencesExt

CONSTANTS
    Root,           \* ROOT_BLOB_GUID; frames are numbered from it
    Keys,           \* user keys: sequences of positive bytes
    Writers, Readers,
    Cases,          \* what to explore: a load the tree was filled with, a
                    \* script of writes the callers then make, each once,
                    \* and a budget that bounds the other activity; backlog in
                    \* it stands for the 32 retired frames that start a prune
    NoRecord, Idle

\* What a frame f does, whatever it is made of (Art and Visit say what).
CONSTANTS
    LookupIn(_, _, _),          \* f, key, depth: found, not found or a crossing
    LongestIn(_, _, _),         \* f, key, depth: what is there of the keys beginning it
    VisitFrame(_, _, _, _, _),  \* f, write, depth, next guid, epoch: one visit
    RepointAt(_, _, _),         \* f, the node of an edge, guid: the edge moved
    Compacted(_),               \* f: rebuilt
    NeedsCompaction(_), WantsCompaction(_),
    MergePass(_, _, _),         \* frames, f, fork barrier: children folded in
    EdgesOf(_), ReachFrom(_, _),
    ContentsOf(_, _),           \* frames, root frame: [key -> record]
    TreeOf(_),                  \* the frames a load leaves
    HeaderIsExact(_)

VARIABLES
    frames,         \* [guid -> frame] every frame in the cache or the store
    fresh,          \* the next guid
    epoch,          \* current_epoch
    live,           \* [epoch of a live snapshot -> its root frame]
    orphans,        \* pending, waiting and retired detached frames
    cands,          \* compaction and merge candidates
    routes,         \* the route cache: [key prefix -> [guid, depth]]
    gcs,            \* gc_epoch: physical reclaim passes so far
    writer,         \* [writer -> where its operation stands]
    reader,         \* [reader -> where its lookup stands]
    todo,           \* writes not called yet
    left,           \* what is left of the budget
    view, captured, \* what the tree and its live snapshots show (see Shows)
    cursor          \* the range scan in progress (see Scan)

treeVars == <<frames, fresh, epoch, live, orphans, cands, routes, gcs, writer, reader, todo,
              left, view, captured>>

shown == <<view, captured>>

MaxOf(S) == Max(S \cup {0})

----------------------------------------------------------------------------
(* The contents of a tree, read off its frames.                            *)

\* view and captured only observe: the records found through the live root
\* and through the root of every live snapshot.
Shows ==
    /\ view' = ContentsOf(frames', frames'[Root])
    /\ captured' = [e \in DOMAIN live' |-> ContentsOf(frames', live'[e])]

----------------------------------------------------------------------------
(* Snapshots and detached frames.                                          *)

\* Bug: the barrier of the oldest snapshot.
BarrierOldest == IF live = <<>> THEN 0 ELSE Min(DOMAIN live)

\* fork_barrier: the newest epoch a live snapshot holds, 0 without one.
Barrier == MaxOf(DOMAIN live)

\* Bug: off by one; a frame created in the snapshot's own epoch counts as new.
SharedFrameStrict(f) == Barrier # 0 /\ f.epoch < Barrier

\* child_is_snapshot_shared: a live snapshot may see the frame.
SharedFrame(f) == Barrier # 0 /\ f.epoch <= Barrier

\* Bug: a frame forked under the newest snapshot does not wait for it.
QueueOrphanEarly(o, orphan, snaps) ==
    LET sees == {e \in snaps : orphan.first <= e /\ e < orphan.last}
    IN  IF sees = {} THEN [o EXCEPT !.retired = @ \cup {orphan.guid}]
        ELSE [o EXCEPT !.waiting = @ \cup {[orphan EXCEPT !.on = Max(sees)]}]

\* queue_orphan: a frame waits on the newest snapshot that may see it.
QueueOrphan(o, orphan, snaps) ==
    LET sees == {e \in snaps : orphan.first <= e /\ e <= orphan.last}
    IN  IF sees = {} THEN [o EXCEPT !.retired = @ \cup {orphan.guid}]
        ELSE [o EXCEPT !.waiting = @ \cup {[orphan EXCEPT !.on = Max(sees)]}]

QueueAll(o, batch, snaps) ==
    FoldSet(LAMBDA orphan, acc : QueueOrphan(acc, orphan, snaps), o, batch)

\* stage_snapshot_orphan: the newest live epoch bounds what may still see it.
Staged(parent, guid, first) ==
    [parent |-> parent, guid |-> guid, first |-> first, last |-> Barrier, on |-> 0]

Stage(o, orphan) ==
    IF \E p \in o.pending : p.parent = orphan.parent /\ p.guid = orphan.guid THEN o
    ELSE [o EXCEPT !.pending = @ \cup {orphan}]

\* publish_parent_orphans: what the parent's dirty mark lets go.
PublishParentOrphans(o, parent, snaps) ==
    LET batch == {p \in o.pending : p.parent = parent}
    IN  QueueAll([o EXCEPT !.pending = @ \ batch], batch, snaps)

\* install_new_blob stamps the current epoch on the fork.
ForkFrame(f) == [f EXCEPT !.epoch = epoch]

----------------------------------------------------------------------------
(* The route cache.                                                        *)

\* lookup: the longest prefix known for the key.
\* (Learn keeps only edges of the root, so every parent depth is 0.)
RouteHits(key) == {p \in DOMAIN routes : IsPrefix(p, key)}
RouteOf(key) == CHOOSE p \in RouteHits(key) : \A q \in RouteHits(key) : Len(q) <= Len(p)

Invalidate(p) == [q \in DOMAIN routes \ {p} |-> routes[q]]

\* learn: only edges of the root, under a prefix without the terminator; a
\* shorter prefix of the same child makes a longer one superfluous.
Learn(key, parentDepth, x) ==
    LET p == SubSeq(key, 1, x.depth)
        same(q) == routes[q].guid = x.guid
        dominated == {q \in DOMAIN routes : Len(q) > Len(p) /\ IsPrefix(p, q) /\ same(q)}
    IN  IF \/ parentDepth # 0
           \/ x.depth > Len(key)
           \/ /\ p \notin DOMAIN routes
              /\ \E q \in DOMAIN routes : Len(q) < Len(p) /\ IsPrefix(q, p) /\ same(q)
        THEN routes
        ELSE (p :> [guid |-> x.guid, depth |-> x.depth])
               @@ [q \in DOMAIN routes \ (IF p \in DOMAIN routes THEN {} ELSE dominated)
                     |-> routes[q]]

\* validate_route_edge
ValidateRouteEdge(key, route) ==
    LET x == LookupIn(frames[Root], key, 0)
    IN  x.st = "Crossing" /\ x.guid = route.guid /\ x.depth = route.depth

----------------------------------------------------------------------------
(* Latches, pins and gates.                                                *)

Latched(g) ==
    \E w \in Writers : \/ writer[w].pc = "at" /\ writer[w].at = g
                       \/ writer[w].pc = "forked" /\ g \in {writer[w].parent, writer[w].old}

Pinned(g) ==
    \/ \E w \in Writers : writer[w].pc \in {"at", "forked"}
                            /\ g \in {writer[w].at, writer[w].parent, writer[w].old}
    \/ \E r \in Readers : reader[r].pc # "idle"
                            /\ (reader[r].at = g \/ \E v \in Range(reader[r].visited) : v.guid = g)
    \/ \E i \in DOMAIN cursor.stack : cursor.stack[i].guid = g

\* Operations hold the mutation gate shared from call to return, a scan
\* while next runs.
Quiet == cursor.pc # "in" /\ \A w \in Writers : writer[w].pc = "idle"

Shared(g) == SharedFrame(frames[g])

NoWriter == [pc |-> "idle", op |-> Idle, at |-> 0, depth |-> 0, parent |-> 0, old |-> 0,
             res |-> "none"]

At(w, g, depth) ==
    [writer EXCEPT ![w].pc = "at", ![w].at = g, ![w].depth = depth,
                   ![w].parent = 0, ![w].old = 0]

Goes(w, pc) == [writer EXCEPT ![w].pc = pc]

Ends(w, res) == [writer EXCEPT ![w] = [NoWriter EXCEPT !.res = res]]

\* The map a tree stands for, and what a read returns of it.
KV == INSTANCE KVMap WITH
    Ops     <- UNION {case.script : case \in Cases},
    Queries <- UNION {case.budget.reads : case \in Cases},
    map     <- view,
    call    <- [w \in Writers |-> IF writer[w].pc = "idle" THEN Idle ELSE writer[w].op],
    res     <- [w \in Writers |-> writer[w].res],
    seen    <- [r \in Readers |-> IF reader[r].pc = "idle" THEN Idle
                                  ELSE [query |-> reader[r].query, recs |-> reader[r].recs]],
    ret     <- [r \in Readers |-> reader[r].res],
    snaps   <- captured

\* A reader in flight has met every answer there was since its call.
Met(shows) ==
    [r \in Readers |-> IF reader[r].pc = "idle" THEN reader[r]
                       ELSE [reader[r] EXCEPT !.recs = @ \cup {KV!Answer(shows, reader[r].query)}]]

----------------------------------------------------------------------------
(* A write: the route cache, then the root router, then the root itself.   *)

CallWrite(w) ==
    /\ writer[w].pc = "idle"
    /\ \E op \in todo :
         /\ todo' = todo \ {op}
         /\ writer' = [writer EXCEPT ![w].pc = "route", ![w].op = op]
    /\ UNCHANGED <<frames, fresh, epoch, live, orphans, cands, routes, gcs, reader, left, shown>>

\* The child is latched while the root's shared latch is held.
Couple(w, x) ==
    /\ ~Latched(x.guid)
    /\ writer' = At(w, x.guid, x.depth)

TryRoute(w) ==
    LET key == writer[w].op.key
        p   == RouteOf(key)
    IN
    /\ writer[w].pc = "route"
    /\ IF RouteHits(key) = {} THEN writer' = Goes(w, "router") /\ routes' = routes
       ELSE /\ ~Latched(Root)
            /\ IF ~ValidateRouteEdge(key, routes[p]) \/ routes[p].guid \notin DOMAIN frames
               THEN writer' = Goes(w, "router") /\ routes' = Invalidate(p)
               ELSE /\ routes' = routes
                    /\ IF Shared(routes[p].guid) THEN writer' = Goes(w, "router")
                       ELSE Couple(w, routes[p])
    /\ UNCHANGED <<frames, fresh, epoch, live, orphans, cands, gcs, reader, todo, left, shown>>

TryRootRouter(w) ==
    LET op == writer[w].op IN
    /\ writer[w].pc = "router"
    /\ ~Latched(Root)
    /\ \E x \in {LookupIn(frames[Root], op.key, 0)} :
         IF x.st = "Crossing" /\ x.guid \in DOMAIN frames /\ ~Shared(x.guid)
         THEN Couple(w, x) /\ routes' = Learn(op.key, 0, x)
         ELSE /\ routes' = routes
              /\ writer' = IF op.kind = "Del" /\ x.st = "NotFound" THEN Ends(w, "refused")
                           ELSE Goes(w, "root")
    /\ UNCHANGED <<frames, fresh, epoch, live, orphans, cands, gcs, reader, todo, left, shown>>

FromRoot(w) ==
    /\ writer[w].pc = "root"
    /\ ~Latched(Root)
    /\ writer' = At(w, Root, 0)
    /\ UNCHANGED <<frames, fresh, epoch, live, orphans, cands, routes, gcs, reader, todo,
                   left, shown>>

\* The candidates a visit to g leaves behind.
Noted(v, op, g) ==
    [compact |-> cands.compact \cup
         IF v.st = "done" /\ v.mutated /\ (op.kind = "Del" \/ NeedsCompaction(v.f))
         THEN {g} ELSE {},
     merge |-> cands.merge \cup IF v.kids = <<>> THEN {} ELSE {g}]

\* The frame the writer is at, with every retry the visit takes.
Visited(w) ==
    VisitFrame(frames[writer[w].at], writer[w].op, writer[w].depth, fresh, epoch)

Stored(w, v) == [frames EXCEPT ![writer[w].at] = v.f] @@ v.kids

VisitEnds(w, v) ==
    /\ v.st \in {"done", "error"}
    /\ frames' = Stored(w, v)
    /\ fresh' = v.n
    /\ cands' = Noted(v, writer[w].op, writer[w].at)
    /\ writer' = Ends(w, IF v.st = "error" THEN "failed"
                         ELSE IF v.mutated THEN "applied" ELSE "refused")
    /\ UNCHANGED <<epoch, live, orphans, routes, gcs, todo, left>>
    /\ Shows
    /\ reader' = Met(view')

\* The child named by the crossing is latched before the parent is let go.
VisitCrosses(w, v) ==
    /\ v.st = "cross"
    /\ fresh' = v.n
    /\ cands' = Noted(v, writer[w].op, writer[w].at)
    /\ frames' = Stored(w, v)
    /\ IF v.x.guid \notin DOMAIN frames' THEN writer' = Ends(w, "failed")
       ELSE ~SharedFrame(frames'[v.x.guid]) /\ Couple(w, v.x)
    /\ UNCHANGED <<epoch, live, orphans, routes, gcs, reader, todo, left>>
    /\ Shows

\* fork_child_if_shared: copy the child, repoint the edge, stage the original.
VisitForks(w, v) ==
    LET g == writer[w].at IN
    /\ \E fs \in {Stored(w, v)} :
         /\ v.st = "cross"
         /\ v.x.guid \in DOMAIN fs
         /\ SharedFrame(fs[v.x.guid])
         /\ ~Latched(v.x.guid)
         /\ frames' = (v.n :> ForkFrame(fs[v.x.guid])) @@
                      [fs EXCEPT ![g] = RepointAt(@, v.x.parent, v.n)]
         /\ fresh' = v.n + 1
         /\ cands' = Noted(v, writer[w].op, g)
         /\ orphans' = Stage(orphans, Staged(g, v.x.guid, fs[v.x.guid].epoch))
         /\ writer' = [writer EXCEPT ![w].pc = "forked", ![w].at = v.n, ![w].depth = v.x.depth,
                                     ![w].parent = g, ![w].old = v.x.guid]
    /\ UNCHANGED <<epoch, live, routes, gcs, reader, todo, left>>
    /\ Shows

VisitStep(w) ==
    /\ writer[w].pc = "at"
    /\ \E v \in {Visited(w)} : VisitEnds(w, v) \/ VisitCrosses(w, v) \/ VisitForks(w, v)

\* The parent's dirty mark, after which the writer is at the fork.
PublishFork(w) ==
    /\ writer[w].pc = "forked"
    /\ orphans' = PublishParentOrphans(orphans, writer[w].parent, DOMAIN live)
    /\ writer' = At(w, writer[w].at, writer[w].depth)
    /\ UNCHANGED <<frames, fresh, epoch, live, cands, routes, gcs, reader, todo, left, shown>>

----------------------------------------------------------------------------
(* A lookup: the cached route, or the root; then blob by blob.  Every      *)
(* restart is a new attempt with a new gc epoch.                           *)

NoReader == [pc |-> "idle", query |-> Idle, at |-> Root, depth |-> 0, x |-> <<>>, gc |-> 0,
             hits |-> {}, exact |-> <<>>, visited |-> <<>>, recs |-> {}, res |-> NoRecord]

Start(query) == IF query.kind = "Get" THEN "route" ELSE "longest"

ReadAt(r, g, depth) == [reader EXCEPT ![r].pc = "at", ![r].at = g, ![r].depth = depth,
                                      ![r].x = <<>>]

Restart(r) == [reader EXCEPT ![r] = [NoReader EXCEPT !.pc = Start(reader[r].query), !.gc = gcs,
                  !.query = reader[r].query, !.recs = reader[r].recs, !.res = reader[r].res]]

Returns(r, rec) == [reader EXCEPT ![r] = [NoReader EXCEPT !.res = rec]]

\* pin of a child the reader was sent to: a missing one is retried only when
\* a reclaim pass may have taken it.
PinChild(r, x, p) ==
    IF x.guid \in DOMAIN frames
    THEN reader' = ReadAt(r, x.guid, x.depth) /\ routes' = p
    ELSE IF gcs # reader[r].gc THEN reader' = Restart(r) /\ routes' = <<>>
    ELSE reader' = Returns(r, [val |-> "lost", seq |-> x.guid]) /\ routes' = p

CallRead(r) ==
    /\ reader[r].pc = "idle"
    /\ \E q \in left.reads :
         /\ reader' = [reader EXCEPT ![r] = [@ EXCEPT !.pc = Start(q), !.query = q, !.gc = gcs,
                                                      !.recs = {KV!Answer(view, q)}]]
         /\ left' = [left EXCEPT !.reads = @ \ {q}]
    /\ UNCHANGED <<frames, fresh, epoch, live, orphans, cands, routes, gcs, writer, todo, shown>>

ReadRoute(r) ==
    LET key == reader[r].query.key
        p   == RouteOf(key)
    IN
    /\ reader[r].pc = "route"
    /\ IF RouteHits(key) = {} THEN reader' = ReadAt(r, Root, 0) /\ routes' = routes
       ELSE /\ ~Latched(Root)
            /\ IF ValidateRouteEdge(key, routes[p]) THEN PinChild(r, routes[p], routes)
               ELSE reader' = ReadAt(r, Root, 0) /\ routes' = Invalidate(p)
    /\ UNCHANGED <<frames, fresh, epoch, live, orphans, cands, gcs, writer, todo, left, shown>>

ReadBlob(r) ==
    LET me == reader[r] IN
    /\ me.pc = "at"
    /\ ~Latched(me.at)
    /\ \E x \in {LookupIn(frames[me.at], me.query.key, me.depth)} :
         reader' = CASE x.st = "Found" -> Returns(r, [val |-> x.val, seq |-> x.seq])
                     [] x.st = "NotFound" -> Returns(r, NoRecord)
                     [] x.st = "Crossing" -> [reader EXCEPT ![r].pc = "cross", ![r].x = x]
    /\ UNCHANGED <<frames, fresh, epoch, live, orphans, cands, routes, gcs, writer, todo,
                   left, shown>>

\* validate_child_crossing, then the pin of the child.
ReadCross(r) ==
    LET me == reader[r] IN
    /\ me.pc = "cross"
    /\ ~Latched(me.at)
    /\ \E x \in {LookupIn(frames[me.at], me.query.key, me.depth)} :
         IF x.st = "Crossing" /\ x.guid = me.x.guid /\ x.depth = me.x.depth
         THEN PinChild(r, x, Learn(me.query.key, me.depth, x))
         ELSE reader' = Restart(r) /\ routes' = routes
    /\ UNCHANGED <<frames, fresh, epoch, live, orphans, cands, gcs, writer, todo, left, shown>>

----------------------------------------------------------------------------
(* The longest key that begins a query: a walk from the root that pins     *)
(* every frame it reads and, before it answers, checks that none of them   *)
(* was written since.  A frame is taken for unwritten when its image is    *)
(* the one read, which every write changes.                                *)

Longest(hits) == {h \in hits : \A g \in hits : Len(g.key) <= Len(h.key)}

Current(v) == ~Latched(v.guid) /\ (v.guid \in DOMAIN frames => frames[v.guid] = v.f)

\* pin_longest_prefix_child of a frame that is gone.
Missing(r, g) == IF gcs # reader[r].gc THEN Restart(r)
                 ELSE Returns(r, [val |-> "lost", seq |-> g])

\* longest_prefix_at: the frame is read at one moment; x is kept with the
\* image until the frame is left.
LongestBlob(r) ==
    LET me == reader[r] IN
    /\ me.pc = "longest"
    /\ ~Latched(me.at)
    /\ \E w \in {LongestIn(frames[me.at], me.query.key, me.depth)} :
         reader' = [reader EXCEPT ![r].pc = "exact", ![r].hits = Longest(@ \cup w.hits),
                                  ![r].exact = w.exact, ![r].x = w.x @@ [f |-> frames[me.at]]]
    /\ UNCHANGED <<frames, fresh, epoch, live, orphans, cands, routes, gcs, writer, todo,
                   left, shown>>

\* exact_lookup_from_crossing: one frame of the lookup of a shorter key.
LongestExact(r) ==
    LET me == reader[r]
        e  == Head(me.exact)
    IN
    /\ me.pc = "exact" /\ me.exact # <<>>
    /\ ~Latched(e.guid)
    /\ IF e.guid \notin DOMAIN frames THEN reader' = Missing(r, e.guid)
       ELSE \E x \in {LookupIn(frames[e.guid], e.key, e.depth)} :
              reader' = [reader EXCEPT
                  ![r].visited = Append(@, [guid |-> e.guid, f |-> frames[e.guid]]),
                  ![r].hits = IF x.st # "Found" THEN @
                              ELSE Longest(@ \cup {[key |-> e.key, val |-> x.val,
                                                    seq |-> x.seq]}),
                  ![r].exact = IF x.st # "Crossing" THEN Tail(@)
                               ELSE [@ EXCEPT ![1].guid = x.guid, ![1].depth = x.depth]]
    /\ UNCHANGED <<frames, fresh, epoch, live, orphans, cands, routes, gcs, writer, todo,
                   left, shown>>

\* The frame is validated and noted, the root first; then the child is
\* pinned, or the walk is over.
LongestLeave(r) ==
    LET me   == reader[r]
        here == [guid |-> me.at, f |-> me.x.f]
        seen == [me EXCEPT !.x = <<>>, !.visited =
                    IF me.at = Root THEN <<here>> \o @ ELSE Append(@, here)]
    IN
    /\ me.pc = "exact" /\ me.exact = <<>>
    /\ reader' =
         IF ~Current(here) THEN Restart(r)
         ELSE IF me.x.st = "NotFound" THEN [reader EXCEPT ![r] = [seen EXCEPT !.pc = "check"]]
         ELSE IF me.x.guid \notin DOMAIN frames THEN Missing(r, me.x.guid)
         ELSE [reader EXCEPT ![r] = [seen EXCEPT !.pc = "longest", !.at = me.x.guid,
                                                 !.depth = me.x.depth]]
    /\ UNCHANGED <<frames, fresh, epoch, live, orphans, cands, routes, gcs, writer, todo,
                   left, shown>>

\* The visited versions are validated one after the other.
LongestCheck(r) ==
    LET me == reader[r] IN
    /\ me.pc = "check"
    /\ reader' =
         IF me.visited = <<>>
         THEN Returns(r, IF me.hits = {} THEN NoRecord ELSE CHOOSE h \in me.hits : TRUE)
         ELSE IF Current(Head(me.visited)) THEN [reader EXCEPT ![r].visited = Tail(@)]
         ELSE Restart(r)
    /\ UNCHANGED <<frames, fresh, epoch, live, orphans, cands, routes, gcs, writer, todo,
                   left, shown>>

----------------------------------------------------------------------------
(* Snapshots.                                                              *)

\* Physical deletion of the given frames, except pinned ones.
Freed(gs) == {g \in gs \cap DOMAIN frames : ~Pinned(g)}

Reclaim(gs) ==
    LET freed == Freed(gs) IN
    /\ frames' = [g \in DOMAIN frames \ freed |-> frames[g]]
    /\ cands' = [compact |-> cands.compact \ freed, merge |-> cands.merge \ freed]
    /\ gcs' = gcs + 1

\* install_snapshot_root: a copy of the root's image, with the same edges.
InstallSnapshotRoot == frames[Root]

\* register_snapshots: the snapshot takes the current epoch; frames made
\* from now on are newer.
RegisterSnapshot(root) ==
    /\ live' = live @@ (epoch :> root)
    /\ epoch' = epoch + 1

\* Tree::snapshot, under the exclusive mutation gate.
TakeSnapshot ==
    /\ Quiet
    /\ left.snaps > 0
    /\ RegisterSnapshot(InstallSnapshotRoot)
    /\ left' = [left EXCEPT !.snaps = @ - 1]
    /\ UNCHANGED <<frames, fresh, orphans, cands, routes, gcs, writer, reader, todo>>
    /\ Shows

\* prune_unpersisted_orphans: retired frames the store has never held are
\* dropped from the cache, outside every gate.  Which ones it holds is up to
\* the background checkpointer; while that flushes, nothing is pruned.
PruneUnpersistedOrphans(o) ==
    \/ \E gone \in SUBSET Freed(o.retired) :
         /\ Reclaim(gone)
         /\ orphans' = [o EXCEPT !.retired = @ \ gone]
    \/ /\ orphans' = o
       /\ UNCHANGED <<frames, cands, gcs>>

\* retire_snapshot: the last handle of the snapshot is dropped; a cursor
\* over it is one.
RetireSnapshot(e) ==
    LET rest   == DOMAIN live \ {e}
        batch  == {o \in orphans.waiting : o.on = e}
        queued == QueueAll([orphans EXCEPT !.waiting = @ \ batch], batch, rest)
    IN
    /\ e \in DOMAIN live
    /\ cursor.snap # e
    /\ live' = [d \in rest |-> live[d]]
    /\ IF Cardinality(queued.retired) >= left.backlog
       THEN PruneUnpersistedOrphans(queued)
       ELSE orphans' = queued /\ UNCHANGED <<frames, cands, gcs>>
    /\ UNCHANGED <<fresh, epoch, routes, writer, reader, todo, left>>
    /\ Shows

----------------------------------------------------------------------------
(* Online maintenance, one candidate at a time.                            *)

Spend == left.maint > 0 /\ left' = [left EXCEPT !.maint = @ - 1]

SeedMaintenanceCandidates ==
    LET gs == ReachFrom(frames, {Root}) \cap DOMAIN frames IN
    /\ left.maint > 0
    /\ cands = [compact |-> {}, merge |-> {}]
    /\ cands' = [compact |-> {g \in gs : WantsCompaction(frames[g])},
                 merge   |-> {g \in gs : frames[g].ext # 0}]
    /\ UNCHANGED <<frames, fresh, epoch, live, orphans, routes, gcs, writer, reader, todo,
                   left, shown>>

\* A rebuild that does not fit is an error and leaves the frame alone.
CompactCandidate(g) ==
    LET Installed(c) == IF c.err = "none" THEN [frames EXCEPT ![g] = c.f] ELSE frames IN
    /\ Quiet
    /\ Spend
    /\ g \in cands.compact
    /\ cands' = [cands EXCEPT !.compact = @ \ {g}]
    /\ frames' = IF g \in DOMAIN frames /\ WantsCompaction(frames[g])
                 THEN Installed(Compacted(frames[g])) ELSE frames
    /\ UNCHANGED <<fresh, epoch, live, orphans, routes, gcs, writer, reader, todo>>
    /\ Shows

\* A pass over one parent; what it let go is staged and published at once.
MergeCandidateParent(g) ==
    /\ Quiet
    /\ left.merges > 0
    /\ left' = [left EXCEPT !.merges = @ - 1]
    /\ g \in cands.merge
    /\ IF g \notin DOMAIN frames
       THEN cands' = [cands EXCEPT !.merge = @ \ {g}] /\ UNCHANGED <<frames, orphans>>
       ELSE \E m \in {MergePass(frames, frames[g], Barrier)} :
            /\ frames' = [frames EXCEPT ![g] = m.f]
            /\ orphans' = PublishParentOrphans(
                   [orphans EXCEPT !.pending = @ \cup {Staged(g, c, 0) : c \in m.gone}],
                   g, DOMAIN live)
            /\ cands' = [cands EXCEPT !.merge =
                   IF m.err = "none" /\ m.gone # {} /\ m.f.ext # 0 THEN @ ELSE @ \ {g}]
    /\ UNCHANGED <<fresh, epoch, live, routes, gcs, writer, reader, todo>>
    /\ Shows

----------------------------------------------------------------------------
(* Reclaim behind a checkpoint that left nothing dirty.                    *)

\* Tree::checkpoint: the exact retired frames.
Checkpoint ==
    /\ Quiet
    /\ Spend
    /\ orphans.retired # {}
    /\ Reclaim(orphans.retired)
    /\ orphans' = [orphans EXCEPT !.retired = @ \cap DOMAIN frames']
    /\ UNCHANGED <<fresh, epoch, live, routes, writer, reader, todo>>
    /\ Shows

\* snapshot_roots_pinned: what the live snapshots reach, their roots held
\* for the whole pass.
SnapshotReachable == UNION {ReachFrom(frames, EdgesOf(live[e])) : e \in DOMAIN live}

\* Tree::gc: every frame neither the live tree nor a snapshot reaches.
Gc ==
    LET canonical == ReachFrom(frames, {Root})
        reachable == canonical \cup SnapshotReachable
    IN
    /\ Quiet
    /\ Spend
    /\ Reclaim(DOMAIN frames \ reachable)
    /\ orphans' = [orphans EXCEPT !.retired = (@ \cap DOMAIN frames') \ canonical]
    /\ UNCHANGED <<fresh, epoch, live, routes, writer, reader, todo>>
    /\ Shows

----------------------------------------------------------------------------
TreeInit ==
    \E case \in Cases : \E t \in {TreeOf(case.load)} :
        /\ frames = t.fs
        /\ fresh = t.n
        /\ epoch = 1
        /\ live = <<>>
        /\ orphans = [pending |-> {}, waiting |-> {}, retired |-> {}]
        /\ cands = [compact |-> {}, merge |-> t.split]
        /\ routes = <<>>
        /\ gcs = 0
        /\ writer = [w \in Writers |-> NoWriter]
        /\ reader = [r \in Readers |-> NoReader]
        /\ todo = case.script
        /\ left = case.budget
        /\ view = ContentsOf(frames, frames[Root])
        /\ captured = <<>>

TreeNext ==
    \/ \E w \in Writers :
         \/ CallWrite(w) \/ TryRoute(w) \/ TryRootRouter(w) \/ FromRoot(w)
         \/ VisitStep(w) \/ PublishFork(w)
    \/ \E r \in Readers : CallRead(r) \/ ReadRoute(r) \/ ReadBlob(r) \/ ReadCross(r)
                           \/ LongestBlob(r) \/ LongestExact(r) \/ LongestLeave(r)
                           \/ LongestCheck(r)
    \/ TakeSnapshot
    \/ \E e \in DOMAIN live : RetireSnapshot(e)
    \/ SeedMaintenanceCandidates
    \/ \E g \in cands.compact : CompactCandidate(g)
    \/ \E g \in cands.merge : MergeCandidateParent(g)
    \/ Checkpoint
    \/ Gc

----------------------------------------------------------------------------
(* Properties.                                                             *)

\* The tree implements the map of KVMap: whatever spillover, compaction,
\* merging, copy-on-write forks, the route cache and reclaim do meanwhile, a
\* write takes effect once and at one moment, an error leaves nothing behind,
\* a lookup returns a record its key had during the call, a longest-prefix
\* read that visited several frames answers from one state of the tree, and a
\* snapshot never changes.
RefinesKVMap == KV!Spec

\* Frames reached from the live root and from the snapshots' roots.
Canonical == ReachFrom(frames, {Root})
Captured  == UNION {ReachFrom(frames, EdgesOf(live[e])) : e \in DOMAIN live}

\* Reclaim of detached frames takes none that the live tree still reaches:
\* the retired queue is drained without looking at any parent, so a frame is
\* on it only when no edge of the live tree leads there any more.
LiveFramesStored == Canonical \subseteq DOMAIN frames

\* The same for the snapshots, and for the queue itself: every frame reached
\* from the live root or from a live snapshot is there, and none that the live
\* tree reaches is queued for exact reclaim.
NoDanglingEdge ==
    /\ Canonical \cup Captured \subseteq DOMAIN frames
    /\ Canonical \cap orphans.retired = {}

\* The header counters that maintenance decides by are exact: tombstoned
\* leaves and crossings of every frame of the tree, and every child frame
\* hangs off one edge only.
CountersExact == \A g \in Canonical \cap DOMAIN frames : HeaderIsExact(frames[g])

\* A snapshot may read every frame it reaches for as long as it lives: the
\* frames are older than it, and none of them is taken for a private frame.
SnapshotFramesShared ==
    \A e \in DOMAIN live : \A g \in ReachFrom(frames, EdgesOf(live[e])) \cap DOMAIN frames :
        Shared(g)
=============================================================================
