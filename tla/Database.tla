------------------------------ MODULE Database ------------------------------
(***************************************************************************)
(* A file-backed DB: named trees behind a catalog, one log, one checkpoint *)
(* pipeline and an optional attached journal stream, shared by client      *)
(* threads.  A client runs a script of API calls; a call is a sequence of  *)
(* steps between which other clients run, and takes the gates the code     *)
(* takes in the code's order.  The process may crash between any two steps *)
(* and is opened again.                                                    *)
(*                                                                         *)
(* Below this module: a tree is its contents (module Tree shows that the   *)
(* frames implement them), a frame written by a checkpoint is the part of  *)
(* a tree FrameOf assigns to it, a store write is atomic and durable once  *)
(* flushed (FileStore, Checkpoint), the log is its bytes and how many of   *)
(* them are synced (Journal), and a gate is fair in neither direction but  *)
(* lets no sharer in while an exclusive entry waits (Gate).  Record,       *)
(* header and chain formats are those of WalCodec and WalFile.             *)
(*                                                                         *)
(* Sequence numbers are drawn where the call commits.  Checks the code     *)
(* makes before it waits for a gate are made after it where nothing they   *)
(* read can change in between: dropped flags and the ordinary fence change *)
(* under the exclusive maintenance gate only.                              *)
(***************************************************************************)
EXTENDS Batch, WriteDelta, Catalog

CONSTANTS
    Clients,
    Cases,          \* what a run starts from: see Init
    MaxRecord,      \* MAX_JOURNAL_RECORD_BYTES
    FlushThreshold, \* WRITE_DELTA_FLUSH_THRESHOLD
    Frames, FrameOf(_), Shard(_),
    \* operators of WalFile and Batch
    ReplayOf(_), ChainOf(_), PageFor(_, _, _, _, _), Upgraded(_), HeaderOf(_), Persisted(_, _, _),
    Torn(_, _), GenerationsOf(_, _), SlotsFor(_),
    AdmitBatch(_, _, _, _), RunBatch(_, _, _, _), Encoded(_, _, _), ImageOf(_), FamiliesOf(_)

VARIABLES
    db,     \* the process: trees, delta, failed latch, next_seq
    disk,   \* the frames of the blob store
    log,    \* the log file, what of it is synced, and the Journal's own state
    cat,    \* catalog cache, open runtimes, dropped runtimes, handles
    held,   \* gates held or waited for: [by, gate, mode], mode s, x or w
    cl,     \* the clients
    ghost,  \* the committed states since the last truncation, the stream as promised
    left,   \* faults and crashes still to come
    up      \* is the process running

vars == <<db, disk, log, cat, held, cl, ghost, left, up>>

Volatile == INSTANCE VolatileJournal
NoAnchor == Volatile!NoAnchor
NoResume == [checkpoint |-> NoAnchor, cursor |-> NoAnchor, off |-> 0]

---------------------------------------------------------------------------
(* Gates                                                                   *)

Grant(gate, mode) == [gate |-> gate, mode |-> mode]
MaintS == Grant(<<"M">>, "s")           \* maintenance_gate
MaintX == Grant(<<"M">>, "x")
CommitS == Grant(<<"C">>, "s")          \* commit_gate: enter_writer
CommitX == Grant(<<"C">>, "x")          \* enter_checkpoint
FlushX == Grant(<<"F">>, "x")           \* the delta's flush mutex
TreeS(t) == Grant(<<"T", t>>, "s")      \* a tree's mutation gate
TreeX(t) == Grant(<<"T", t>>, "x")
TailX == Grant(<<"J">>, "x")            \* the attached tail's mutex

\* lock_key and lock_pair: one shard, or two in shard order.
LockKey(t, key) == <<Grant(<<"E", t, Shard(key)>>, "x")>>
LockPair(t, a, b) ==
    IF Shard(a) = Shard(b) THEN LockKey(t, a)
    ELSE IF Shard(a) < Shard(b) THEN LockKey(t, a) \o LockKey(t, b)
    ELSE LockKey(t, b) \o LockKey(t, a)

Sharers(gate) == { h \in held : h.gate = gate /\ h.mode = "s" }
Writers(gate) == { h \in held : h.gate = gate /\ h.mode # "s" }
Without_(c, gates) == { h \in held : ~(h.by = c /\ h.gate[1] \in gates) }
AllGates == {"M", "C", "F", "T", "E", "J"}

\* A client takes the gates it needs one by one.  An exclusive entry over
\* sharers keeps later sharers out until it has drained the present ones.
Acquire(c) ==
    /\ up /\ cl[c].need # <<>>
    /\ LET g == Head(cl[c].need)
           mode == IF g.mode = "x" /\ Sharers(g.gate) # {} THEN "w" ELSE g.mode
       IN  /\ Writers(g.gate) = {}
           /\ held' = held \cup {[by |-> c, gate |-> g.gate, mode |-> mode]}
           /\ cl' = [cl EXCEPT ![c].need = IF mode = "w" THEN @ ELSE Tail(@)]
    /\ UNCHANGED <<db, disk, log, cat, ghost, left, up>>

Drained(c) ==
    /\ up /\ cl[c].need # <<>>
    /\ LET g == Head(cl[c].need).gate
           w == [by |-> c, gate |-> g, mode |-> "w"]
       IN  /\ w \in held /\ Sharers(g) = {}
           /\ held' = (held \ {w}) \cup {[w EXCEPT !.mode = "x"]}
           /\ cl' = [cl EXCEPT ![c].need = Tail(@)]
    /\ UNCHANGED <<db, disk, log, cat, ghost, left, up>>

---------------------------------------------------------------------------
(* Clients                                                                 *)

NoResult == <<"none">>

\* got: what the last call returned; want: what it may return, by the
\* committed states alone.
Idle(todo, got, want, cursor) ==
    [pc |-> "idle", need |-> <<>>, todo |-> todo, op |-> [op |-> "None"], tree |-> 0,
     groups |-> <<>>, base |-> 0, done |-> 0, enc |-> NoOps, flush |-> <<>>, moving |-> <<>>,
     then |-> "", keep |-> {}, next |-> <<>>, plan |-> <<>>, names |-> {}, entry |-> NoEntry,
     frames |-> {}, snap |-> <<>>, mark |-> 0, gens |-> 0, got |-> got, want |-> want,
     cursor |-> cursor]

At(c, pc) == up /\ cl[c].pc = pc /\ cl[c].need = <<>>

Now == ghost.hist[Len(ghost.hist)].db
Show(t) == Shown(db.mem[t], db.delta, t)
Visible(mem) == [t \in DOMAIN mem |-> Shown(mem[t], db.delta, t)]

\* What a read may answer in a committed state.
RecordOf(t, key) == IF key \in DOMAIN t THEN {t[key]} ELSE {}
ReadIn(l, state) ==
    LET t == IF l.tree \in DOMAIN state THEN state[l.tree] ELSE <<>>
    IN  IF l.op.op = "Get" THEN <<"ok", RecordOf(t, l.op.key)>>
        ELSE <<"ok", ~\E k \in DOMAIN t : StartsWith(k, l.op.prefix)>>
Reading(l) == l.pc # "idle" /\ l.op.op \in {"Get", "PrefixEmpty"}

\* Point reads take no gate, so they see a batch that is not in the log yet;
\* and a store that is latched closed still answers by what it holds.
Unsettled == { c \in Clients : cl[c].done > 0 \/ db.failed }
Seen(got) == { got : c \in { x \in Clients : db.failed } }

\* Client c moves to l; every read in progress may answer by the new state.
Moves(c, l, state) ==
    cl' = [x \in Clients |->
              IF x = c THEN l
              ELSE IF Reading(cl[x]) THEN [cl[x] EXCEPT !.want = @ \cup {ReadIn(cl[x], state)}]
              ELSE cl[x]]

Finished(c, got, want) == Idle(cl[c].todo, got, want, cl[c].cursor)

\* The call ends: its guards are dropped.
Return(c, got, want) ==
    /\ held' = Without_(c, AllGates)
    /\ cl' = [cl EXCEPT ![c] = Finished(c, got, want)]

\* An error that leaves everything as it was.
Refuse(c, why) ==
    /\ Return(c, <<why>>, {<<why>>})
    /\ UNCHANGED <<db, disk, log, cat, ghost, left, up>>

Continue(c, l) ==
    /\ cl' = [cl EXCEPT ![c] = l]
    /\ UNCHANGED <<db, disk, log, cat, held, ghost, left, up>>

CanFail == left.faults > 0
OneFaultLess == [left EXCEPT !.faults = @ - 1]

\* A committed state more.
Committed(lg, state, vol, renames) ==
    [ghost EXCEPT !.hist = Append(@, [end |-> Len(lg.wal.recs), db |-> state, vol |-> vol,
                                      renames |-> renames]),
                  !.vol = vol]
Flagged(g, flag, is) == IF is THEN [g EXCEPT !.out = @ \cup {flag}] ELSE g
Submitted(rec) == [log EXCEPT !.wal.recs = @ \o rec]

\* Mutant: a handle outlives its tree.
RefusalLive(trees, len) ==
    IF db.failed THEN "FailedClosed" ELSE IF log.fenced THEN "Fenced"
    ELSE IF len > MaxRecord THEN "TooLarge" ELSE ""

\* ensure_writable and preflight_submit.
Refusal(trees, len) ==
    IF trees \cap cat.dropped # {} THEN "TreeDropped"
    ELSE IF db.failed THEN "FailedClosed"
    ELSE IF log.fenced THEN "Fenced"
    ELSE IF len > MaxRecord THEN "TooLarge"
    ELSE ""

\* DB::ensure_writable, and the fence an attached stream puts up.
DbRefusal == IF db.failed THEN "FailedClosed" ELSE IF log.fenced THEN "Fenced" ELSE ""

---------------------------------------------------------------------------
(* Starting a call                                                         *)

NeedsHandle(op) == op.op \in {"Write", "PutMany", "Atomic", "Get", "PrefixEmpty"}

\* Hold gates, flush the pending writes of the trees one after the other,
\* keep only some gates, and go on.
ToFlush(l, gates, trees, then, keep, next) ==
    [l EXCEPT !.pc = "flush", !.need = gates, !.flush = trees, !.then = then, !.keep = keep,
              !.next = next]

\* Mutant: pending writes are left where they are.
FlushNever(l, count, pc, need) == [l EXCEPT !.pc = pc, !.need = need]

\* flush_write_delta_for_tree, then the call itself with gates of its own.
FlushFirst(l, count, pc, need) ==
    IF count = 0 THEN [l EXCEPT !.pc = pc, !.need = need]
    ELSE ToFlush(l, <<MaintS, TreeX(l.tree), CommitS, FlushX>>, <<{l.tree}>>, pc, {}, need)

OneGroup(t, ops) == <<[tree |-> t, ops |-> ops]>>

\* A tree of a file-backed database can_stage_deferred_write.
KeyGates(t, key) == <<MaintS, TreeS(t)>> \o LockKey(t, key) \o <<CommitS>>
EnterPut(l, w) == [l EXCEPT !.pc = "put", !.need = KeyGates(l.tree, w.key)]
EnterDelete(l, w) == [l EXCEPT !.pc = "delete", !.need = KeyGates(l.tree, w.key)]

\* put_if_absent and compare_and_put.
EnterConditional(l, w) ==
    FlushFirst(l, TreeLen(db.delta, l.tree), "put_inner", KeyGates(l.tree, w.key))
EnterDeleteIfVersion(l, w) ==
    FlushFirst(l, TreeLen(db.delta, l.tree), "delete_inner", KeyGates(l.tree, w.key))
EnterRename(l, w) ==
    FlushFirst(l, TreeLen(db.delta, l.tree), "probe",
               <<MaintS, TreeS(l.tree)>> \o LockPair(l.tree, w.src, w.dst))

EnterWrite(l, w) ==
    CASE w.kind = "Put" -> EnterPut(l, w)
      [] w.kind = "Delete" -> EnterDelete(l, w)
      [] w.kind = "DeleteIfVersion" -> EnterDeleteIfVersion(l, w)
      [] w.kind = "Rename" -> EnterRename(l, w)
      [] OTHER -> EnterConditional(l, w)

EnterTreeCall(l) ==
    LET t == l.tree
        count == TreeLen(db.delta, t)
        gates == <<MaintS, TreeX(t)>>
        read == [l EXCEPT !.want = {ReadIn(l, Now)} \cup {ReadIn(l, Visible(db.mem)) : c \in Unsettled}]
    IN  CASE l.op.op = "Write" -> EnterWrite(l, l.op.w)
          [] l.op.op = "PutMany" -> FlushFirst(l, count, "many", gates)
          [] l.op.op = "Atomic" ->
                 FlushFirst([l EXCEPT !.groups = OneGroup(t, l.op.ops)], count, "batch", gates)
          [] l.op.op = "Get" -> [read EXCEPT !.pc = "get"]
          [] l.op.op = "PrefixEmpty" ->
                 FlushFirst(read, TreeKeySetLen(db.delta, t), "scan", <<MaintS, TreeS(t)>>)

\* The phases of a maintenance call.
PlanOf(op) == CASE op = "List" -> <<"list">>
                [] op = "TreeCheckpoint" -> <<"ck">>
                [] op = "Gc" -> <<"list", "pass", "finalize", "ck">>
                [] op = "Checkpoint" -> <<"list", "ck", "pass", "finalize", "ck">>

CatalogNames(t) == DOMAIN t \ {NextIdKey}

EnterPhase(l, plan) ==
    LET p == [l EXCEPT !.plan = Tail(plan)]
        gates == <<MaintX, CommitS, FlushX>>
    IN  CASE Head(plan) = "list" -> [p EXCEPT !.pc = "list", !.names = CatalogNames(Show(CatalogTree))]
          [] Head(plan) = "ck" -> [p EXCEPT !.pc = "ck", !.need = <<MaintS, CommitX, FlushX>>]
          [] Head(plan) = "pass" -> ToFlush(p, gates, <<{CatalogTree}>>, "pass", {"M"}, <<>>)
          [] Head(plan) = "finalize" -> ToFlush(p, gates, <<{CatalogTree}>>, "finalize", {"M"}, <<>>)

EnterAtomic(l) == [l EXCEPT !.pc = "names", !.need = <<MaintS>>]

\* atomic_with_journal_envelope: a store that is latched closed, or a batch of
\* nothing, does not get that far.
EnterAttached(l) ==
    IF ~db.failed /\ l.op.ops # <<>> THEN EnterAtomic(l)
    ELSE LET why == <<IF db.failed THEN "FailedClosed" ELSE "Internal">>
         IN  Idle(l.todo, why, {why}, l.cursor)

\* journal_state and journal_envelopes_after hold the commit gate's exclusive
\* side: no record in progress, no truncation.
EnterState(l) == [l EXCEPT !.pc = "state", !.need = <<CommitX>>]
EnterPage(l) == [l EXCEPT !.pc = "page", !.need = <<CommitX>>]

EnterDbCall(l) ==
    LET Enter(pc, need) == [l EXCEPT !.pc = pc, !.need = need]
    IN  CASE l.op.op \in {"DbAtomic", "View"} -> EnterAtomic(l)
          [] l.op.op = "Attached" -> EnterAttached(l)
          [] l.op.op = "Create" -> Enter("create", <<MaintX>>)
          [] l.op.op = "Drop" -> Enter("drop", <<MaintX>>)
          [] l.op.op = "Export" ->
                 ToFlush(l, <<MaintX, CommitS, FlushX>>, <<{CatalogTree}>>, "families", {"M"}, <<>>)
          [] l.op.op = "InitStream" -> Enter("init", <<MaintX, CommitX>>)
          [] l.op.op = "State" -> EnterState(l)
          [] l.op.op = "Page" -> EnterPage(l)
          [] OTHER -> EnterPhase(l, PlanOf(l.op.op))

\* A pending write changes the keys of a tree and is not counted so.
Uncounted(t) == TreeKeySetLen(db.delta, t) = 0 /\ DOMAIN Show(t) # DOMAIN db.mem[t]

Start(c) ==
    /\ up /\ cl[c].pc = "idle" /\ cl[c].todo # <<>>
    /\ LET op == Head(cl[c].todo)
           l == [Idle(Tail(cl[c].todo), NoResult, {NoResult}, cl[c].cursor) EXCEPT !.op = op]
       IN  IF op.op = "Close"
           THEN /\ cat' = [cat EXCEPT !.handle[c] = [n \in DOMAIN @ \ {op.tree} |-> @[n]]]
                /\ cl' = [cl EXCEPT ![c] = Idle(l.todo, NoResult, {NoResult}, l.cursor)]
                /\ UNCHANGED <<db, disk, log, held, ghost, left, up>>
           ELSE IF ~NeedsHandle(op) THEN Continue(c, EnterDbCall(l))
           ELSE IF op.tree \in DOMAIN cat.handle[c]
           THEN /\ cl' = [cl EXCEPT ![c] = EnterTreeCall([l EXCEPT !.tree = cat.handle[c][op.tree]])]
                /\ ghost' = Flagged(ghost, "coalesced", op.op = "PrefixEmpty"
                                                        /\ Uncounted(cat.handle[c][op.tree]))
                /\ UNCHANGED <<db, disk, log, cat, held, left, up>>
           ELSE Continue(c, [l EXCEPT !.pc = "open", !.need = <<MaintS>>])

---------------------------------------------------------------------------
(* Pending writes                                                          *)

Begun(d, trees) == LET tks == { tk \in DOMAIN d.pend : tk[1] \in trees }
                   IN  [tk \in tks |-> d.pend[tk]]

\* flush_write_deltas_for_tree, tree after tree: pending writes become
\* flushing ones; when no tree has any the flush is over.
FlushBegin(c) ==
    /\ At(c, "flush")
    /\ LET l == cl[c]
           rest == SelectSeq(l.flush, LAMBDA trees : Begun(db.delta, trees) # <<>>)
       IN  IF l.tree \in cat.dropped THEN Refuse(c, "TreeDropped")
           ELSE IF rest = <<>>
           THEN /\ cl' = [cl EXCEPT ![c] = [l EXCEPT !.pc = l.then, !.need = l.next, !.next = <<>>,
                                                    !.flush = <<>>, !.then = "", !.keep = {}]]
                /\ held' = Without_(c, AllGates \ l.keep)
                /\ UNCHANGED <<db, disk, log, cat, ghost, left, up>>
           ELSE /\ cl' = [cl EXCEPT ![c].pc = "merge", ![c].flush = Tail(rest),
                                    ![c].moving = Begun(db.delta, Head(rest))]
                /\ db' = [db EXCEPT !.delta = BeginFlush(@, Head(rest))]
                /\ UNCHANGED <<disk, log, cat, held, ghost, left, up>>

\* apply_write_delta_ops: all of them and the flush is finished, or some and
\* it is aborted.
MergeInto(ops, done) == [t \in DOMAIN db.mem |-> Merged(db.mem[t], t, ops, done)]

FlushMerge(c) ==
    /\ At(c, "merge")
    /\ LET ops == cl[c].moving
       IN  \/ /\ db' = [db EXCEPT !.mem = MergeInto(ops, DOMAIN ops),
                                  !.delta = FinishFlush(@, ops)]
              /\ cl' = [cl EXCEPT ![c].pc = "flush", ![c].moving = <<>>]
              /\ UNCHANGED <<disk, log, cat, held, ghost, left, up>>
           \/ /\ CanFail
              /\ \E done \in SUBSET DOMAIN ops :
                     db' = [db EXCEPT !.mem = MergeInto(ops, done), !.delta = AbortFlush(@, ops)]
              /\ left' = OneFaultLess
              /\ Return(c, <<"Io">>, {<<"Io">>})
              /\ UNCHANGED <<disk, log, cat, ghost, up>>

---------------------------------------------------------------------------
(* What a write means, on the committed contents of a tree                 *)

RefVerdict(t, w) ==
    CASE w.kind \in {"PutIfAbsent", "AssertAbsent"} -> IF w.key \in DOMAIN t THEN "false" ELSE ""
      [] w.kind \in {"CompareAndPut", "DeleteIfVersion", "AssertVersion"} ->
             IF HasVersion(t, w.key, w.expected) THEN "" ELSE "false"
      [] w.kind = "AssertPrefixEmpty" ->
             IF \E k \in DOMAIN t : StartsWith(k, w.prefix) THEN "false" ELSE ""
      [] w.kind = "Rename" ->
             IF w.src \notin DOMAIN t THEN "NotFound"
             ELSE IF w.src # w.dst /\ ~w.force /\ w.dst \in DOMAIN t THEN "DstExists" ELSE ""
      [] OTHER -> ""

RefEffect(t, w, seq) ==
    CASE IsInsert(w) -> With(t, w.key, w.value, seq)
      [] w.kind \in {"Delete", "DeleteIfVersion"} -> Without(t, w.key)
      [] w.kind = "Rename" /\ w.src # w.dst -> With(Without(t, w.src), w.dst, t[w.src].value, seq)
      [] OTHER -> t

\* A batch: the operations one after the other, all or none.
RefBatch(state, groups, base) ==
    LET flat == Concat(Len(groups), LAMBDA g :
                    [i \in DOMAIN groups[g].ops |-> [tree |-> groups[g].tree, w |-> groups[g].ops[i]]])
        st[i \in 0..Len(flat)] ==
            IF i = 0 THEN [v |-> "", db |-> state, seq |-> base]
            ELSE LET Step(p) ==
                         LET t == flat[i].tree
                             w == flat[i].w
                             v == RefVerdict(p.db[t], w)
                         IN  IF p.v # "" THEN p
                             ELSE IF v # "" THEN [p EXCEPT !.v = v]
                             ELSE [v |-> "", db |-> [p.db EXCEPT ![t] = RefEffect(@, w, p.seq)],
                                   seq |-> IF EmitsWal(w) THEN p.seq + 1 ELSE p.seq]
                 IN  Step(st[i - 1])
    IN  st[Len(flat)]

RefResult(v) == IF v = "" THEN <<"ok">> ELSE <<v>>

---------------------------------------------------------------------------
(* Single writes                                                           *)

WriteRecord(seq, t, w) ==
    CASE IsInsert(w) -> InsertRecord(seq, t, w.key, w.value)
      [] w.kind \in {"Delete", "DeleteIfVersion"} -> EraseRecord(seq, t, w.key)
      [] w.kind = "Rename" -> RenameRecord(seq, t, w.src, w.dst, w.force)
WriteLen(w) == CASE IsInsert(w) -> InsertRecordLen(w.key, w.value)
                 [] w.kind \in {"Delete", "DeleteIfVersion"} -> EraseRecordLen(w.key)
                 [] w.kind = "Rename" -> RenameRecordLen(w.src, w.dst)

KeysOf(w) == IF w.kind = "Rename" THEN {w.src, w.dst} ELSE {w.key}

\* A call that looks at the tree without its pending writes, over a pending
\* write of the same key: what follows is outside the promises checked here
\* (see the README on the deferred-write window).
RacedBy(t, keys) == \E k \in keys : Entries(db.delta, t, k) # {}

\* flush_write_delta_debt_if_needed: a writer that leaves too many pending
\* writes behind flushes its tree before it returns.
FlushDebt(c, t, w, d, want) ==
    IF w.kind \in {"Put", "Delete"} /\ TreeLen(d, t) >= FlushThreshold
    THEN FlushFirst([cl[c] EXCEPT !.want = want], TreeLen(d, t), "debt", <<>>)
    ELSE Finished(c, <<"ok">>, want)

\* The record is in the log: the write is committed.
CommitWrite(c, t, w, seq, new) ==
    LET lg == Submitted(WriteRecord(seq, t, w))
        v == RefVerdict(Now[t], w)
        now == IF v = "" THEN [Now EXCEPT ![t] = RefEffect(@, w, seq)] ELSE Now
    IN  /\ db' = new
        /\ log' = lg
        /\ ghost' = Flagged(Committed(lg, now, ghost.vol, w.kind = "Rename"), "raced",
                            w.kind \notin {"Put", "Delete"} /\ RacedBy(t, KeysOf(w)))
        /\ held' = Without_(c, AllGates)
        /\ Moves(c, FlushDebt(c, t, w, new.delta, {RefResult(v)}), now)
        /\ UNCHANGED <<disk, cat, left, up>>

DebtFlushed(c) ==
    /\ At(c, "debt")
    /\ Return(c, <<"ok">>, cl[c].want)
    /\ UNCHANGED <<db, disk, log, cat, ghost, left, up>>

\* A call fails and leaves db as given.
FailsWith(c, new) ==
    /\ CanFail
    /\ db' = new
    /\ left' = OneFaultLess
    /\ held' = Without_(c, AllGates)
    /\ Moves(c, Finished(c, <<"Io">>, {<<"Io">>}), IF new.failed THEN Visible(new.mem) ELSE Now)
    /\ UNCHANGED <<disk, cat, ghost, up>>

\* journal.submit fails: no record, and the journal's error is sticky.
SubmitFails(c, new) == FailsWith(c, new) /\ log' = [log EXCEPT !.sticky = TRUE]

StageWriteDeltaPut(d, t, w, seq) ==
    StagePut(d, t, w.key, w.value, seq, w.key \notin DOMAIN Show(t))

\* put_deferred: log first, then stage.
PutDeferred(c) ==
    /\ At(c, "put")
    /\ LET t == cl[c].tree
           w == cl[c].op.w
           why == Refusal({t}, WriteLen(w))
           burnt == [db EXCEPT !.next = @ + 1]
           staged == [burnt EXCEPT !.delta = StageWriteDeltaPut(@, t, w, db.next)]
       IN  IF ~ShapeOK(w.key, w.value) THEN Refuse(c, "TooLong")
           ELSE IF why # "" THEN Refuse(c, why)
           ELSE CommitWrite(c, t, w, db.next, staged) \/ SubmitFails(c, burnt)

\* delete_deferred: an absent key is neither logged nor given a number.
DeleteDeferred(c) ==
    /\ At(c, "delete")
    /\ LET t == cl[c].tree
           w == cl[c].op.w
           why == Refusal({t}, WriteLen(w))
           burnt == [db EXCEPT !.next = @ + 1]
           staged == [burnt EXCEPT !.delta = StageDelete(@, t, w.key, db.next)]
       IN  IF why # "" THEN Refuse(c, why)
           ELSE IF w.key \notin DOMAIN Show(t)
           THEN /\ Return(c, <<"false">>, {IF w.key \in DOMAIN Now[t] THEN <<"ok">> ELSE <<"false">>})
                /\ UNCHANGED <<db, disk, log, cat, ghost, left, up>>
           ELSE CommitWrite(c, t, w, db.next, staged) \/ SubmitFails(c, burnt)

\* The condition is decided on the tree, then the record is submitted
\* (submit_applied): the walker of a conditional write.
Conditional(c, t, w) ==
    LET r == ApplyOp(db.mem[t], w, db.next)
        burnt == [db EXCEPT !.next = @ + 1]
        applied == [burnt EXCEPT !.mem[t] = r.t]
    IN  IF r.err # ""
        THEN /\ db' = burnt
             /\ Return(c, <<"false">>, {RefResult(RefVerdict(Now[t], w))})
             /\ ghost' = Flagged(ghost, "raced", RacedBy(t, {w.key}))
             /\ UNCHANGED <<disk, log, cat, left, up>>
        ELSE CommitWrite(c, t, w, db.next, applied) \/ SubmitFails(c, [applied EXCEPT !.failed = TRUE])

\* put_inner_conditional
PutInner(c) ==
    /\ At(c, "put_inner")
    /\ LET why == Refusal({cl[c].tree}, WriteLen(cl[c].op.w))
       IN  IF why # "" THEN Refuse(c, why) ELSE Conditional(c, cl[c].tree, cl[c].op.w)

\* delete_inner_conditional
DeleteInner(c) ==
    /\ At(c, "delete_inner")
    /\ LET why == Refusal({cl[c].tree}, WriteLen(cl[c].op.w))
       IN  IF why # "" THEN Refuse(c, why) ELSE Conditional(c, cl[c].tree, cl[c].op.w)

\* Tree::rename: both keys are looked up before the commit gate is entered.
RenameProbe(c) ==
    /\ At(c, "probe")
    /\ LET t == cl[c].tree
           w == cl[c].op.w
           why == Refusal({t}, WriteLen(w))
           v == RefVerdict(db.mem[t], w)
           ends == v # "" \/ w.src = w.dst
       IN  IF why # "" THEN Refuse(c, why)
           ELSE /\ db' = [db EXCEPT !.next = @ + 1]
                /\ ghost' = Flagged(ghost, "raced", RacedBy(t, KeysOf(w)))
                /\ IF ends THEN Return(c, RefResult(v), {RefResult(RefVerdict(Now[t], w))})
                   ELSE /\ cl' = [cl EXCEPT ![c].pc = "rename", ![c].need = <<CommitS>>,
                                            ![c].base = db.next, ![c].snap = db.mem[t][w.src]]
                        /\ UNCHANGED held
                /\ UNCHANGED <<disk, log, cat, left, up>>

\* The erase and the insert; an insert that fails latches the store closed.
RenameApply(c) ==
    /\ At(c, "rename")
    /\ LET t == cl[c].tree
           w == cl[c].op.w
           erased == [db EXCEPT !.mem[t] = Without(@, w.src)]
           moved == [db EXCEPT !.mem[t] =
                         With(Without(@, w.src), w.dst, cl[c].snap.value, cl[c].base)]
       IN  \/ CommitWrite(c, t, w, cl[c].base, moved)
           \/ SubmitFails(c, [moved EXCEPT !.failed = TRUE])
           \/ FailsWith(c, [erased EXCEPT !.failed = TRUE]) /\ UNCHANGED log

---------------------------------------------------------------------------
(* Batches                                                                 *)

Ops(groups) == Concat(Len(groups), LAMBDA g : groups[g].ops)
TreesOf(groups) == { groups[g].tree : g \in DOMAIN groups }
GroupBase(groups, base, g) == base + Sum(g - 1, LAMBDA i : CountWal(groups[i].ops))

\* encoded_db_batch_record_len: inserts one by one, without runs.
DbBatchRecordLen(ops) ==
    LET OpLen(w) == CASE IsInsert(w) -> InsertLen(w)
                      [] w.kind \in {"Delete", "DeleteIfVersion"} -> 3 + Len(w.key)
                      [] w.kind = "Rename" -> 5 + Len(w.src) + Len(w.dst)
                      [] OTHER -> 0
    IN  HeaderSize + 2 + FooterSize + Sum(Len(ops), LAMBDA i : OpLen(ops[i]))

RecordLen(l) ==
    CASE l.op.op = "Atomic" -> BatchRecordLen(Ops(l.groups))
      [] l.op.op = "Attached" -> DbBatchRecordLen(Ops(l.groups)) + EnvelopeLen(l.op.envelope)
      [] OTHER -> DbBatchRecordLen(Ops(l.groups))

\* Tree::apply_batch: a batch of assertions alone is not held to the fence.
TreeBatchRefusal(trees, ops) ==
    IF CountWal(ops) # 0 THEN Refusal(trees, BatchRecordLen(ops))
    ELSE IF trees \cap cat.dropped # {} THEN "TreeDropped"
    ELSE IF db.failed THEN "FailedClosed" ELSE ""

\* apply_atomic_with_journal_envelope: the fence is for the others.
AttachedRefusal(ops) ==
    IF db.failed THEN "FailedClosed" ELSE IF CountWal(ops) = 0 THEN "Internal" ELSE ""

\* apply_system_batch_unlocked, for the catalog's own batches.
SystemBatchRefusal(l) ==
    IF log.fenced THEN "Fenced" ELSE IF RecordLen(l) > MaxRecord THEN "TooLarge" ELSE ""

\* apply_atomic for the others.
BatchRefusal(l) ==
    CASE l.op.op = "Attached" -> AttachedRefusal(Ops(l.groups))
      [] l.op.op = "Atomic" -> TreeBatchRefusal(TreesOf(l.groups), Ops(l.groups))
      [] l.op.op = "DbAtomic" -> Refusal(TreesOf(l.groups), RecordLen(l))
      [] OTHER -> SystemBatchRefusal(l)

\* What the preflight of the groups says, in their order.
Admitted(groups, base) ==
    LET v[g \in 0..Len(groups)] ==
            IF g = 0 \/ v[g - 1] # "" THEN IF g = 0 THEN "" ELSE v[g - 1]
            ELSE AdmitBatch(Show(groups[g].tree), db.mem[groups[g].tree], groups[g].ops,
                            GroupBase(groups, base, g)).verdict
    IN  v[Len(groups)]

BatchRaced(groups) ==
    \E g \in DOMAIN groups : \E i \in DOMAIN groups[g].ops :
        LET t == groups[g].tree
            w == groups[g].ops[i]
        IN  IF w.kind = "AssertPrefixEmpty" THEN TreeLen(db.delta, t) # 0
            ELSE RacedBy(t, KeysOf(w))

\* Under the trees' gates: sequence numbers, then every guard of every group.
BatchPreflight(c) ==
    /\ At(c, "batch")
    /\ LET l == cl[c]
           count == CountWal(Ops(l.groups))
           why == BatchRefusal(l)
           Decide(v) ==
               /\ db' = [db EXCEPT !.next = @ + count]
               /\ ghost' = Flagged(ghost, "raced", BatchRaced(l.groups))
               /\ IF v # "" \/ count = 0
                  THEN Return(c, RefResult(v), {RefResult(RefBatch(Now, l.groups, db.next).v)})
                  ELSE /\ cl' = [cl EXCEPT ![c].pc = "apply", ![c].base = db.next,
                                           ![c].need = IF l.op.op = "Attached" THEN <<CommitS, TailX>>
                                                       ELSE <<CommitS>>]
                       /\ UNCHANGED held
               /\ UNCHANGED <<disk, log, cat, left, up>>
       IN  IF why # "" THEN Refuse(c, why) ELSE Decide(Admitted(l.groups, db.next))

\* put_many_if_absent: the keys that are absent become a batch of their own.
PutMany(c) ==
    /\ At(c, "many")
    /\ LET l == cl[c]
           t == l.tree
           es == l.op.entries
           New(i) == es[i].key \notin DOMAIN Show(t) /\ \A j \in 1..(i - 1) : es[j].key # es[i].key
           fresh == SelectSeq([i \in DOMAIN es |-> [kind |-> "PutIfAbsent", key |-> es[i].key,
                                                    value |-> es[i].value, at |-> i]],
                              LAMBDA w : New(w.at))
           why == Refusal({t}, BatchRecordLen(fresh))
           ends == fresh = <<>>
       IN  IF why # "" THEN Refuse(c, why)
           ELSE /\ db' = [db EXCEPT !.next = @ + Len(fresh)]
                /\ ghost' = Flagged(ghost, "raced", RacedBy(t, { es[i].key : i \in DOMAIN es }))
                /\ IF ends THEN Return(c, <<"ok">>, {<<"ok">>})
                   ELSE /\ cl' = [cl EXCEPT ![c].pc = "apply", ![c].need = <<CommitS>>,
                                            ![c].base = db.next, ![c].groups = OneGroup(t, fresh)]
                        /\ UNCHANGED held
                /\ UNCHANGED <<disk, log, cat, left, up>>

\* begin_attached
AppendRefusal(l) ==
    IF l.op.op # "Attached" \/ l.done > 0 THEN ""
    ELSE IF RecordLen(l) > MaxRecord THEN "TooLarge"
    ELSE IF log.tail = NoAnchor THEN "JournalStreamUnavailable"
    ELSE IF l.op.envelope.previous # log.tail THEN "JournalAnchorMismatch" ELSE ""

\* apply_batch_walker_inline of the next group.  A failure after the first
\* operation has touched a frame latches the store closed.
BatchApply(c) ==
    /\ At(c, "apply")
    /\ LET l == cl[c]
           g == l.done + 1
           t == l.groups[g].tree
           ops == l.groups[g].ops
           why == AppendRefusal(l)
           Fails_(r) ==
               /\ db' = [db EXCEPT !.mem[t] = r.t, !.failed = TRUE]
               /\ held' = Without_(c, AllGates)
               /\ Moves(c, Finished(c, <<"OutcomeUnknown">>,
                                    IF r.err = "" THEN {<<"OutcomeUnknown">>} ELSE {<<"ok">>}),
                        Visible(db'.mem))
               /\ UNCHANGED <<disk, log, cat, ghost, up>>
           Applies(r) ==
               IF r.err # "" THEN Fails_(r) /\ UNCHANGED left
               ELSE /\ db' = [db EXCEPT !.mem[t] = r.t]
                    /\ Moves(c, [l EXCEPT !.done = g, !.enc = Encoded(@, t, ops),
                                          !.pc = IF g = Len(l.groups) THEN "submit" ELSE "apply"],
                             Visible(db'.mem))
                    /\ UNCHANGED <<disk, log, cat, held, ghost, left, up>>
       IN  IF why # "" THEN Refuse(c, why)
           ELSE \/ Applies(RunBatch(db.mem[t], ops, GroupBase(l.groups, l.base, g), Len(ops)))
                \/ /\ CanFail /\ left' = OneFaultLess
                   /\ \E n \in 0..(Len(ops) - 1) :
                          Fails_(RunBatch(db.mem[t], ops, GroupBase(l.groups, l.base, g), n))

\* open_tree_state: the runtimes of trees, those that are open already kept.
Opening(k, trees) == [k EXCEPT !.open = @ \cup trees]

\* tree_from_state: a handle on an open tree.
Handing(k, c, name, id) == [k EXCEPT !.handle[c] = (name :> id) @@ @]

\* mark_runtime_dropped, where there is a runtime.
Fencing(k, trees) == [k EXCEPT !.dropped = @ \cup (trees \cap k.open)]

\* What a call leaves in the catalog's caches once its batch is submitted.
CreatedIn(c, name, e) ==
    Handing(Opening([cat EXCEPT !.cache = (name :> e) @@ @], {e.tree}), c, name, e.tree)
DroppedIn(name, e) ==
    Fencing([cat EXCEPT !.cache = (name :> [e EXCEPT !.state = DroppingState]) @@ @], {e.tree})
FinalizedIn(names, trees) ==
    [cat EXCEPT !.cache = [n \in DOMAIN @ \ names |-> @[n]],
                !.open = @ \ trees, !.dropped = @ \ trees]
CatAfter(c) ==
    LET l == cl[c]
    IN  CASE l.op.op = "Create" -> CreatedIn(c, l.op.name, l.entry)
          [] l.op.op = "Drop" -> DroppedIn(l.op.name, l.entry)
          [] l.op.op \in {"Gc", "Checkpoint"} -> FinalizedIn(l.names, l.frames)
          [] OTHER -> cat

\* The whole batch is one record; an attached one also moves the tail.
LoggedBatch(l) == Submitted(BatchRecord(l.base, l.tree, l.enc))
LoggedAttached(l) == [Submitted(AttachedRecord(l.base, 0, l.op.envelope, l.enc)) EXCEPT
                          !.tail = l.op.envelope.current]

BatchSubmit(c) ==
    /\ At(c, "submit")
    /\ LET l == cl[c]
           attached == l.op.op = "Attached"
           lg == IF attached THEN LoggedAttached(l) ELSE LoggedBatch(l)
           vol == IF attached THEN Volatile!AppendEnvelope(ghost.vol, l.op.envelope) ELSE ghost.vol
           renames == \E i \in DOMAIN Ops(l.groups) : Ops(l.groups)[i].kind = "Rename"
           Lands(ref) ==
               LET now == IF l.op.op = "Create" THEN (l.entry.tree :> <<>>) @@ ref.db ELSE ref.db
                   end == IF l.plan = <<>> THEN Finished(c, <<"ok">>, {RefResult(ref.v)})
                          ELSE EnterPhase([Finished(c, NoResult, {NoResult}) EXCEPT !.op = l.op], l.plan)
               IN  /\ ghost' = Committed(lg, now, vol, renames)
                   /\ Moves(c, end, now)
       IN  \/ /\ attached => Len(lg.wal.recs) - Len(log.wal.recs) <= RecordLen(l)
              /\ log' = lg
              /\ cat' = CatAfter(c)
              /\ Lands(RefBatch(Now, l.groups, l.base))
              /\ held' = Without_(c, AllGates)
              /\ UNCHANGED <<db, disk, left, up>>
           \/ SubmitFails(c, [db EXCEPT !.failed = TRUE])

---------------------------------------------------------------------------
(* The catalog                                                             *)

\* catalog_entry: the cache, or the catalog itself.
EntryIn(t, name) == IF name \in DOMAIN t THEN DecodeEntry(t[name].value).v ELSE NoEntry
EntryOf(name) ==
    IF name \in DOMAIN cat.cache THEN cat.cache[name] ELSE EntryIn(Show(CatalogTree), name)
Remember(cache, name, e) == IF e = NoEntry THEN cache ELSE (name :> e) @@ cache

\* catalog_entries_unlocked, under the exclusive maintenance gate.
EntriesNow == [n \in CatalogNames(db.mem[CatalogTree]) |-> EntryIn(db.mem[CatalogTree], n)]
Dropping(entries) == { n \in DOMAIN entries : entries[n].state = DroppingState }
Live(entries) == DOMAIN entries \ Dropping(entries)

\* ensure_root_blob_for_open: an absent root is created empty.
Rooted(map, trees) == map @@ [t \in trees |-> <<>>]

\* Mutant: the new root is left to the next checkpoint.
DurableRootLater(map, id) == map

\* ensure_durable_root_blob: the root is in the store when it returns.
DurableRoot(map, id) == Rooted(map, {id})

\* open_tree, for the handle a call needs.
OpenTree(c) ==
    /\ At(c, "open")
    /\ LET l == cl[c]
           e == EntryOf(l.op.tree)
       IN  IF e.state # LiveState THEN Refuse(c, "TreeNotFound")
           ELSE IF e.tree \in cat.dropped THEN Refuse(c, "TreeDropped")
           ELSE /\ cat' = Handing(Opening([cat EXCEPT !.cache = Remember(@, l.op.tree, e)], {e.tree}),
                                  c, l.op.tree, e.tree)
                /\ db' = [db EXCEPT !.mem = Rooted(@, {e.tree})]
                /\ disk' = Rooted(disk, {e.tree})
                /\ cl' = [cl EXCEPT ![c] = Idle(<<l.op>> \o l.todo, NoResult, {NoResult}, l.cursor)]
                /\ held' = Without_(c, AllGates)
                /\ UNCHANGED <<log, ghost, left, up>>

\* The names of a batch or view, each once, in the order they come.
NamesOf(op) ==
    LET all == IF op.op = "View" THEN op.scopes ELSE [i \in DOMAIN op.ops |-> op.ops[i].tree]
        first == { i \in DOMAIN all : \A j \in 1..(i - 1) : all[j] # all[i] }
        nth[n \in 1..Cardinality(first)] ==
            all[CHOOSE i \in first : Cardinality({ j \in first : j <= i }) = n]
    IN  nth

GroupOf(op, name, e) ==
    [tree |-> e.tree,
     ops |-> IF op.op = "View" THEN <<>>
             ELSE LET mine == SelectSeq(op.ops, LAMBDA o : o.tree = name)
                  IN  [i \in DOMAIN mine |-> mine[i].w]]

\* Mutation gates are entered in the order of the tree ids.
SortedGates(trees) ==
    [n \in 1..Cardinality(trees) |->
        TreeX(CHOOSE t \in trees : Cardinality({ u \in trees : u <= t }) = n)]

\* group_batch_ops, and the same lookups of DB::view; then the trees' gates
\* and the flush of their pending writes.
GroupOps(c) ==
    /\ At(c, "names")
    /\ LET l == cl[c]
           names == NamesOf(l.op)
           es == [i \in DOMAIN names |-> EntryOf(names[i])]
           groups == [i \in DOMAIN names |-> GroupOf(l.op, names[i], es[i])]
           trees == TreesOf(groups)
           grouped == [l EXCEPT !.groups = groups]
           view == l.op.op = "View"
           why == IF \E i \in DOMAIN es : es[i].state # LiveState THEN "TreeNotFound"
                  ELSE IF trees \cap cat.dropped # {} THEN "TreeDropped"
                  ELSE IF view THEN "" ELSE BatchRefusal(grouped)
       IN  IF why # "" THEN Refuse(c, why)
           ELSE /\ cl' = [cl EXCEPT ![c] =
                      ToFlush(grouped, SortedGates(trees) \o <<CommitS, FlushX>>,
                              [i \in DOMAIN groups |-> {groups[i].tree}],
                              IF view THEN "view" ELSE "batch",
                              IF view THEN {"M", "T", "C"} ELSE {"M", "T"}, <<>>)]
                /\ cat' = Opening([cat EXCEPT !.cache =
                                      [n \in DOMAIN @ \cup { names[i] : i \in DOMAIN names } |-> EntryOf(n)]],
                                  trees)
                /\ db' = [db EXCEPT !.mem = Rooted(@, trees)]
                /\ disk' = Rooted(disk, trees)
                /\ UNCHANGED <<log, held, ghost, left, up>>

\* The roots of all scopes are captured under their gates.
ViewCapture(c) ==
    /\ At(c, "view")
    /\ LET gs == cl[c].groups
           got == <<"view", [i \in DOMAIN gs |-> db.mem[gs[i].tree]]>>
       IN  Return(c, got, {<<"view", [i \in DOMAIN gs |-> Now[gs[i].tree]]>>} \cup Seen(got))
    /\ UNCHANGED <<db, disk, log, cat, ghost, left, up>>

\* create_tree: the root is durable before the catalog names it.
CreateRoot(c) ==
    /\ At(c, "create")
    /\ LET l == cl[c]
           name == l.op.name
           t == db.mem[CatalogTree]
           id == IF NextIdKey \in DOMAIN t THEN DecodeNextId(t[NextIdKey].value).v ELSE FirstUserTree
           ops == <<[kind |-> "PutIfAbsent", key |-> name, value |-> EncodeEntry(Entry(id, LiveState))],
                    [kind |-> "Put", key |-> NextIdKey, value |-> EncodeNextId(NextAllocated(id))]>>
           why == IF ~ValidName(name) THEN "InvalidTreeName" ELSE DbRefusal
       IN  IF why # "" THEN Refuse(c, why)
           ELSE IF EntryOf(name) # NoEntry THEN Refuse(c, "TreeExists")
           ELSE IF NextAllocated(id) = 0 THEN Refuse(c, "Internal")
           ELSE /\ db' = [db EXCEPT !.mem = Rooted(@, {id})]
                /\ disk' = DurableRoot(disk, id)
                /\ cl' = [cl EXCEPT ![c].pc = "batch", ![c].entry = Entry(id, LiveState),
                                    ![c].groups = OneGroup(CatalogTree, ops)]
                /\ UNCHANGED <<log, cat, held, ghost, left, up>>

\* drop_tree: pending writes first, then the tombstone.
DropFlush(c) ==
    /\ At(c, "drop")
    /\ LET l == cl[c]
           e == EntryOf(l.op.name)
           op == [kind |-> "Put", key |-> l.op.name,
                  value |-> EncodeEntry([e EXCEPT !.state = DroppingState])]
           why == DbRefusal
       IN  IF why # "" THEN Refuse(c, why)
           ELSE IF e.state # LiveState THEN Refuse(c, "TreeNotFound")
           ELSE Continue(c, ToFlush([l EXCEPT !.entry = e, !.groups = OneGroup(CatalogTree, <<op>>)],
                                    <<CommitS, FlushX>>, <<{e.tree}>>, "batch", {"M"}, <<>>))

\* catalog_entries, without the maintenance gate: an entry is read, ...
ListRead(c) ==
    /\ At(c, "list") /\ cl[c].names # {}
    /\ LET name == CHOOSE n \in cl[c].names : TRUE
       IN  Continue(c, [cl[c] EXCEPT !.pc = "cache", !.entry = EntryIn(Show(CatalogTree), name)])

\* ... and put into the cache, which restore_dropping_runtime_fences follows
\* by fencing the runtime of a dropping tree.
ListCache(c) ==
    /\ At(c, "cache")
    /\ LET l == cl[c]
           name == CHOOSE n \in l.names : TRUE
           gone == l.op.op # "List" /\ l.entry.state = DroppingState
       IN  /\ cat' = Fencing([cat EXCEPT !.cache = Remember(@, name, l.entry)],
                             IF gone THEN {l.entry.tree} ELSE {})
           /\ ghost' = Flagged(ghost, "stale", l.entry # EntryIn(Now[CatalogTree], name))
           /\ cl' = [cl EXCEPT ![c].pc = "list", ![c].names = @ \ {name}, ![c].entry = NoEntry]
           /\ UNCHANGED <<db, disk, log, held, left, up>>

\* On to the next phase of a maintenance call, without its gates.
NextPhase(c) ==
    LET l == cl[c]
        fresh == [Finished(c, NoResult, {NoResult}) EXCEPT !.op = l.op]
    IN  IF l.plan = <<>> THEN Return(c, <<"ok">>, {<<"ok">>})
        ELSE /\ held' = Without_(c, AllGates)
             /\ cl' = [cl EXCEPT ![c] = EnterPhase(fresh, l.plan)]

ListDone(c) ==
    /\ At(c, "list") /\ cl[c].names = {}
    /\ NextPhase(c)
    /\ UNCHANGED <<db, disk, log, cat, ghost, left, up>>

\* gc_reachability_pass up to its checkpoint: fence the dropping trees and
\* flush every tree of the catalog.
GcFreeze(c) ==
    /\ At(c, "pass")
    /\ LET l == cl[c]
           es == EntriesNow
           ids == { es[n].tree : n \in DOMAIN es }
           gone == { es[n].tree : n \in Dropping(es) }
       IN  /\ cat' = Fencing([cat EXCEPT !.cache = es @@ @], gone)
           /\ cl' = [cl EXCEPT ![c] =
                  ToFlush([l EXCEPT !.plan = <<"sweep">> \o @], <<CommitS, FlushX>>,
                          [n \in 1..Cardinality(ids) |->
                              {CHOOSE t \in ids : Cardinality({ u \in ids : u <= t }) = n}],
                          "ck", {"M"}, <<CommitX, FlushX>>)]
           /\ UNCHANGED <<db, disk, log, held, ghost, left, up>>

\* A handle, or a call that uses one, pins its tree's root.
Pinned(t) == \E c \in Clients : \E n \in DOMAIN cat.handle[c] : cat.handle[c][n] = t

Retained(es) ==
    {CatalogTree} \cup { es[n].tree : n \in { m \in DOMAIN es :
                               es[m].state = LiveState \/ Pinned(es[m].tree) } }

Drop_(map, t) == [u \in DOMAIN map \ {t} |-> map[u]]

\* The bounded pass of a checkpoint sweeps only while some tree is dropping.
Unreachable(op, es) ==
    IF op = "Gc" \/ Dropping(es) # {} THEN DOMAIN db.mem \ Retained(es) ELSE {}

\* The sweep, one root after the other.  An unreachable root somebody pins is left for
\* later, and nothing is finalized then.
GcSweep(c) ==
    /\ At(c, "sweep")
    /\ LET l == cl[c]
           lost == Unreachable(l.op.op, EntriesNow)
           free == { t \in lost : ~Pinned(t) }
       IN  IF free # {}
           THEN \E t \in free :
                   /\ db' = [db EXCEPT !.mem = Drop_(@, t)]
                   /\ disk' = Drop_(disk, t)
                   /\ UNCHANGED <<log, cat, held, cl, ghost, left, up>>
           ELSE /\ IF lost = {} THEN NextPhase(c) ELSE Return(c, <<"ok">>, {<<"ok">>})
                /\ UNCHANGED <<db, disk, log, cat, ghost, left, up>>

\* finalize_dropped_trees: the tombstones of the trees whose root is gone.
Finalize(c) ==
    /\ At(c, "finalize")
    /\ LET l == cl[c]
           es == EntriesNow
           gone == { n \in Dropping(es) : es[n].tree \notin DOMAIN disk }
           order == CHOOSE s \in [1..Cardinality(gone) -> gone] : { s[i] : i \in DOMAIN s } = gone
           ops == [i \in DOMAIN order |-> [kind |-> "Delete", key |-> order[i]]]
       IN  IF db.failed THEN Refuse(c, "FailedClosed")
           ELSE IF gone = {}
           THEN /\ Return(c, <<"ok">>, {<<"ok">>})
                /\ UNCHANGED <<db, disk, log, cat, ghost, left, up>>
           ELSE Continue(c, [l EXCEPT !.pc = "batch", !.names = gone,
                                      !.frames = { es[n].tree : n \in gone },
                                      !.groups = OneGroup(CatalogTree, ops)])

---------------------------------------------------------------------------
(* Export                                                                  *)

LexBefore(a, b) ==
    \/ StartsWith(b, a) /\ a # b
    \/ \E i \in 1..Len(a) : /\ i <= Len(b) /\ a[i] < b[i]
                             /\ SubSeq(a, 1, i - 1) = SubSeq(b, 1, i - 1)
InOrder(keys) ==
    [n \in 1..Cardinality(keys) |->
        CHOOSE k \in keys : Cardinality({ j \in keys : LexBefore(j, k) }) = n - 1]

\* The families of a state of the database: its live trees.
FamiliesIn(state) ==
    LET es == [n \in CatalogNames(state[CatalogTree]) |-> EntryIn(state[CatalogTree], n)]
        names == InOrder(Live(es))
        Kvs(t) == LET ks == InOrder(DOMAIN t)
                  IN  [i \in DOMAIN ks |-> [key |-> ks[i], value |-> t[ks[i]].value]]
    IN  [i \in DOMAIN names |-> [name |-> names[i], kvs |-> Kvs(state[es[names[i]].tree])]]

ExportFamilies(c) ==
    /\ At(c, "families")
    /\ LET es == EntriesNow
           names == InOrder(Live(es))
           trees == { es[names[i]].tree : i \in DOMAIN names }
       IN  IF trees \cap cat.dropped # {} THEN Refuse(c, "TreeDropped")
           ELSE /\ cl' = [cl EXCEPT ![c] =
                      ToFlush(cl[c], <<CommitS, FlushX>>,
                              [i \in DOMAIN names |-> {es[names[i]].tree}], "snapshot", {"M"}, <<>>)]
                /\ cat' = Opening([cat EXCEPT !.cache = es @@ @], trees)
                /\ UNCHANGED <<db, disk, log, held, ghost, left, up>>

\* Every family's snapshot under the maintenance gate, ...
ExportSnapshot(c) ==
    /\ At(c, "snapshot")
    /\ held' = Without_(c, AllGates)
    /\ cl' = [cl EXCEPT ![c].pc = "serialize", ![c].snap = FamiliesIn(db.mem),
                        ![c].want = {<<"image", FamiliesIn(Now)>>} \cup Seen(<<"image", FamiliesIn(db.mem)>>)]
    /\ UNCHANGED <<db, disk, log, cat, ghost, left, up>>

\* ... the image outside it.
ExportSerialize(c) ==
    /\ At(c, "serialize")
    /\ LET image == ImageOf(cl[c].snap)
       IN  Return(c, <<"image", FamiliesOf(image).v>>, cl[c].want)
    /\ UNCHANGED <<db, disk, log, cat, ghost, left, up>>

---------------------------------------------------------------------------
(* Reads                                                                   *)

\* Tree::get: the delta, then the tree.
GetDelta(c) ==
    /\ At(c, "get")
    /\ LET l == cl[c]
           es == Entries(db.delta, l.tree, l.op.key)
           found == { [value |-> e.value, seq |-> e.seq] : e \in { x \in es : x.put } }
       IN  IF l.tree \in cat.dropped THEN Refuse(c, "TreeDropped")
           ELSE IF es = {} THEN Continue(c, [l EXCEPT !.pc = "lookup"])
           ELSE /\ Return(c, <<"ok", found>>, l.want)
                /\ UNCHANGED <<db, disk, log, cat, ghost, left, up>>

GetTree(c) ==
    /\ At(c, "lookup")
    /\ Return(c, <<"ok", RecordOf(db.mem[cl[c].tree], cl[c].op.key)>>, cl[c].want)
    /\ UNCHANGED <<db, disk, log, cat, ghost, left, up>>

\* is_prefix_empty: the frames alone, after the pending writes that change
\* the key set have been flushed.
PrefixScan(c) ==
    /\ At(c, "scan")
    /\ LET l == cl[c]
           t == db.mem[l.tree]
       IN  IF l.tree \in cat.dropped THEN Refuse(c, "TreeDropped")
           ELSE /\ Return(c, <<"ok", ~\E k \in DOMAIN t : StartsWith(k, l.op.prefix)>>, l.want)
                /\ UNCHANGED <<db, disk, log, cat, ghost, left, up>>

---------------------------------------------------------------------------
(* Checkpoints                                                             *)

Part(map, t, f) == LET keys == { k \in DOMAIN map[t] : FrameOf(k) = f }
                   IN  [k \in keys |-> map[t][k]]
Dirty(mem) == { tf \in (DOMAIN mem \cap DOMAIN disk) \X Frames :
                    Part(mem, tf[1], tf[2]) # Part(disk, tf[1], tf[2]) }
Clean == Dirty(db.mem) = {} /\ ~HasAny(db.delta)

\* capture_checkpoint_intent_shared, under the commit gate's exclusive side.
CkEnter(c) ==
    /\ At(c, "ck")
    /\ IF db.failed THEN Refuse(c, "FailedClosed")
       ELSE Continue(c, ToFlush(cl[c], <<>>, <<DOMAIN db.mem>>, "capture", {"M", "C", "F"}, <<>>))

CkCapture(c) ==
    /\ At(c, "capture")
    /\ held' = Without_(c, {"C", "F"})
    /\ cl' = [cl EXCEPT ![c].pc = "barrier", ![c].snap = db.mem, ![c].frames = Dirty(db.mem),
                        ![c].mark = Len(log.wal.recs)]
    /\ UNCHANGED <<db, disk, log, cat, ghost, left, up>>

\* Mutant: the barrier does not wait.
NotSynced(lg, mark) == lg

\* flush_up_to: no frame is written before the log that explains it.
Synced(lg, mark) == [lg EXCEPT !.synced = IF @ < mark THEN mark ELSE @]

CkBarrier(c) ==
    /\ At(c, "barrier")
    /\ IF log.sticky THEN Refuse(c, "Io")
       ELSE /\ log' = Synced(log, cl[c].mark)
            /\ cl' = [cl EXCEPT ![c].pc = "clone"]
            /\ UNCHANGED <<db, disk, cat, held, ghost, left, up>>

\* clone_checkpoint_bytes_shared: a frame that has changed sends the round
\* back to the capture.
CkClone(c) ==
    /\ At(c, "clone")
    /\ LET l == cl[c]
           same == \A tf \in l.frames : /\ tf[1] \in DOMAIN db.mem
                                        /\ Part(db.mem, tf[1], tf[2]) = Part(l.snap, tf[1], tf[2])
       IN  Continue(c, IF same THEN [l EXCEPT !.pc = "write"]
                       ELSE [l EXCEPT !.pc = "ck", !.need = <<CommitX, FlushX>>, !.frames = {},
                                      !.snap = <<>>, !.mark = 0])

\* write_checkpoint_bytes_shared and the store's flush: frame after frame.
Written(t, f, snap) ==
    LET old == { k \in DOMAIN disk[t] : FrameOf(k) # f }
    IN  [disk EXCEPT ![t] = Part(snap, t, f) @@ [k \in old |-> disk[t][k]]]

CkWrite(c) ==
    /\ At(c, "write")
    /\ LET l == cl[c]
       IN  IF l.frames = {}
           THEN Continue(c, [l EXCEPT !.pc = "truncate", !.need = <<CommitX>>, !.snap = <<>>,
                                      !.mark = 0])
           ELSE \/ \E tf \in l.frames :
                      /\ disk' = Written(tf[1], tf[2], l.snap)
                      /\ cl' = [cl EXCEPT ![c].frames = @ \ {tf}]
                      /\ UNCHANGED <<db, log, cat, held, ghost, left, up>>
                \/ /\ CanFail /\ left' = OneFaultLess
                   /\ Return(c, <<"Io">>, {<<"Io">>})
                   /\ UNCHANGED <<db, disk, log, cat, ghost, up>>

\* Mutant: the stream keeps its old floor.
TruncatedOldFloor(lg) == [lg EXCEPT !.wal.recs = <<>>, !.synced = 0, !.resume = NoResume]

\* Journal::truncate: every record is in the frames.
Truncated(lg) == [lg EXCEPT !.wal.recs = <<>>, !.synced = 0, !.cp = lg.tail, !.resume = NoResume]
TruncateLog(c) ==
    LET vol == Volatile!AdvanceCheckpoint(ghost.vol)
    IN  /\ log' = Truncated(log)
        /\ ghost' = [ghost EXCEPT !.vol = vol,
                                  !.hist = <<[end |-> 0, db |-> Now, vol |-> vol, renames |-> FALSE]>>]
        /\ held' = Without_(c, {"C"})
        /\ cl' = [cl EXCEPT ![c].pc = "clean", ![c].need = <<CommitX>>]

\* maybe_truncate_journal_shared.  An attached stream's anchor goes to the
\* header first.
CkTruncate(c) ==
    /\ At(c, "truncate")
    /\ IF log.wal.recs = <<>> \/ ~Clean
       THEN /\ held' = Without_(c, {"C"})
            /\ cl' = [cl EXCEPT ![c].pc = "clean", ![c].need = <<CommitX>>]
            /\ UNCHANGED <<db, disk, log, cat, ghost, left, up>>
       ELSE IF log.sticky THEN Refuse(c, "Io")
       ELSE IF log.tail = NoAnchor
       THEN TruncateLog(c) /\ UNCHANGED <<db, disk, cat, left, up>>
       ELSE Continue(c, [cl[c] EXCEPT !.pc = "anchor", !.gens = GenerationsOf(log.hdr, log.tail)])

\* checkpoint_is_clean_shared: done, or another round.
CkClean(c) ==
    /\ At(c, "clean")
    /\ LET l == cl[c]
           sweep == l.plan # <<>> /\ Head(l.plan) = "sweep"
       IN  IF ~Clean \/ log.wal.recs # <<>>
           THEN /\ held' = Without_(c, {"C"})
                /\ cl' = [cl EXCEPT ![c].pc = "ck", ![c].need = <<CommitX, FlushX>>]
           ELSE IF sweep
           THEN /\ held' = Without_(c, {"C"})
                /\ cl' = [cl EXCEPT ![c].pc = "sweep", ![c].plan = Tail(@)]
           ELSE NextPhase(c)
    /\ UNCHANGED <<db, disk, log, cat, ghost, left, up>>

---------------------------------------------------------------------------
(* The attached stream                                                     *)

\* initialize_journal_stream, initialize_anchor: the ordinary fence is up
\* before the first slot is written.
InitStream(c) ==
    /\ At(c, "init")
    /\ LET l == cl[c]
           genesis == l.op.anchor
           known == IF log.cp # NoAnchor THEN log.cp ELSE log.initing
           lg == IF log.cp # NoAnchor THEN log
                 ELSE [log EXCEPT !.initing = genesis, !.fenced = TRUE]
           why == IF db.failed THEN "FailedClosed"
                  ELSE IF log.cp = NoAnchor /\ (Dropping(EntriesNow) # {} \/ ~Clean
                                               \/ log.wal.recs # <<>>)
                  THEN "JournalStreamUnavailable"
                  ELSE IF known \notin {NoAnchor, genesis} THEN "JournalAnchorMismatch" ELSE ""
       IN  IF why # "" THEN Refuse(c, why)
           ELSE /\ log' = lg
                /\ cl' = [cl EXCEPT ![c].pc = "anchor", ![c].gens = GenerationsOf(log.hdr, genesis)]
                /\ UNCHANGED <<db, disk, cat, held, ghost, left, up>>

\* persist_checkpoint_anchor: one slot, synced, after the other.
AnchorOf(c) == IF cl[c].op.op = "InitStream" THEN cl[c].op.anchor ELSE log.tail

PersistSlot(c) ==
    /\ At(c, "anchor") /\ cl[c].gens > 0
    /\ LET a == AnchorOf(c)
           gen == log.hdr.gen + 1
       IN  \/ /\ log' = [log EXCEPT !.wal = Persisted(@, a, gen),
                                    !.hdr = [anchor |-> a, gen |-> gen]]
              /\ cl' = [cl EXCEPT ![c].gens = @ - 1]
              /\ UNCHANGED <<db, disk, cat, held, ghost, left, up>>
           \/ /\ CanFail /\ left' = OneFaultLess
              /\ ghost' = Flagged(ghost, "anchor", log.cp # NoAnchor /\ log.hdr.anchor # log.cp)
              /\ Return(c, <<"Io">>, {<<"Io">>})
              /\ UNCHANGED <<db, disk, log, cat, up>>

\* Both slots name the anchor: the stream exists, or the log is cut.
AnchorDone(c) ==
    /\ At(c, "anchor") /\ cl[c].gens = 0
    /\ IF cl[c].op.op # "InitStream" THEN TruncateLog(c)
       ELSE /\ log' = IF log.cp # NoAnchor THEN log
                      ELSE [log EXCEPT !.cp = cl[c].op.anchor, !.tail = cl[c].op.anchor,
                                       !.initing = NoAnchor, !.resume = NoResume]
            /\ ghost' = [ghost EXCEPT !.vol = Volatile!Initialize(@, cl[c].op.anchor),
                                      !.hist = [i \in DOMAIN @ |-> [@[i] EXCEPT !.vol =
                                                   Volatile!Initialize(@, cl[c].op.anchor)]]]
            /\ Return(c, <<"ok">>, {<<"ok">>})
    /\ UNCHANGED <<db, disk, cat, left, up>>

\* Journal::state
StreamState(c) ==
    /\ At(c, "state")
    /\ LET got == IF log.cp = NoAnchor \/ log.tail = NoAnchor THEN <<"JournalStreamUnavailable">>
                  ELSE <<"state", log.cp, log.tail>>
       IN  Return(c, got, {Volatile!State(ghost.vol)})
    /\ UNCHANGED <<db, disk, log, cat, ghost, left, up>>

\* Journal::envelopes_after, from the client's cursor.
Page(c) ==
    /\ At(c, "page")
    /\ LET l == cl[c]
           from == IF l.cursor = NoAnchor THEN l.op.from ELSE l.cursor
           promised == Volatile!EnvelopesAfter(ghost.vol, from, l.op.rows, l.op.bytes)
           Result(r) == IF r.err # "" THEN <<r.err>> ELSE <<"page", r.envelopes, r.next, r.more>>
           Scanned(r) ==
               /\ log' = [Synced(log, Len(log.wal.recs)) EXCEPT
                              !.resume = IF r.err # "" THEN NoResume ELSE r.resume]
               /\ held' = Without_(c, AllGates)
               /\ cl' = [cl EXCEPT ![c] = [Finished(c, Result(r), {Result(promised)}) EXCEPT
                                               !.cursor = IF r.err # "" THEN @ ELSE r.next]]
               /\ UNCHANGED <<db, disk, cat, ghost, left, up>>
       IN  IF log.cp = NoAnchor \/ log.initing # NoAnchor
           THEN /\ Return(c, <<"JournalStreamUnavailable">>, {Result(promised)})
                /\ UNCHANGED <<db, disk, log, cat, ghost, left, up>>
           ELSE IF log.sticky THEN Refuse(c, "Io")
           ELSE Scanned(PageFor(log.wal, from, l.op.rows, l.op.bytes, log.resume))

---------------------------------------------------------------------------
(* Crash and open                                                          *)

\* The process dies.  What is synced of the log survives, and possibly more
\* of it, up to a torn record; a slot that is being written may be torn.
Crash ==
    /\ up /\ left.crashes > 0
    /\ \E i \in DOMAIN ghost.hist, back \in {0, 1}, tear \in BOOLEAN :
          LET next == IF i < Len(ghost.hist) THEN ghost.hist[i + 1].end ELSE ghost.hist[i].end
              cut == IF back = 0 \/ i = Len(ghost.hist) THEN ghost.hist[i].end ELSE next - 1
              redone == /\ \E j \in 2..i : ghost.hist[j].renames
                        /\ \E t \in DOMAIN disk : t \in DOMAIN ghost.hist[1].db
                                                  /\ disk[t] # ghost.hist[1].db[t]
              writing == \E c \in Clients : cl[c].pc = "anchor" /\ cl[c].gens > 0
              wal == [log.wal EXCEPT !.recs = SubSeq(@, 1, cut)]
          IN  /\ cut >= log.synced
              /\ back = 1 => i < Len(ghost.hist)
              /\ tear => writing
              /\ log' = [log EXCEPT !.wal = IF tear THEN Torn(wal, log.hdr.gen + 1) ELSE wal]
              /\ ghost' = Flagged([ghost EXCEPT !.hist = <<ghost.hist[i]>>, !.open = ""], "renamed", redone)
    /\ cl' = [c \in Clients |-> Idle(cl[c].todo, NoResult, {NoResult}, cl[c].cursor)]
    /\ held' = {} /\ up' = FALSE
    /\ left' = [left EXCEPT !.crashes = @ - 1]
    /\ UNCHANGED <<db, disk, cat>>

\* replay_wal: the logged operations over the stored trees, in order.
Redo(map, ops) ==
    LET st[i \in 0..Len(ops)] ==
            IF i = 0 THEN map
            ELSE LET Step(p) == [p EXCEPT ![ops[i].op.tree] = RedoOp(@, ops[i].op, ops[i].seq)]
                 IN  Step(st[i - 1])
    IN  st[Len(ops)]

\* restore_epoch_high_water: every live tree of the catalog has its root.
CatalogWhy(map) ==
    IF CatalogTree \notin DOMAIN map THEN IF DOMAIN map = {} THEN "" ELSE "db catalog root missing"
    ELSE IF \E n \in CatalogNames(map[CatalogTree]) :
               LET e == EntryIn(map[CatalogTree], n)
               IN  e.state = LiveState /\ e.tree \notin DOMAIN map
    THEN "db catalog references a missing live tree root" ELSE ""

\* The stream as it was promised up to the surviving log, seen from the
\* checkpoint the header names.
StreamFloor(vol, anchor) ==
    IF anchor = NoAnchor THEN Volatile!NewStream
    ELSE IF vol.checkpoint \in {NoAnchor, anchor} THEN Volatile!Initialize(vol, anchor)
    ELSE [vol EXCEPT !.checkpoint = anchor,
                     !.envelopes = SelectSeq(@, LAMBDA e : e.current.sequence > anchor.sequence)]

\* DB::open: replay, drop a torn tail, open the writer, validate the chain.
Opened(r, chain, u, h) ==
    LET logged == { r.ops[i].op.tree : i \in DOMAIN r.ops }
        roots == Rooted(disk, logged)
        mem == Redo(roots, r.ops)
        why == CatalogWhy(mem)
        map == IF DOMAIN mem = {} THEN (CatalogTree :> <<>>) ELSE mem
        vol == StreamFloor(ghost.hist[1].vol, h.anchor)
    IN  IF why # "" THEN ghost' = [ghost EXCEPT !.open = why] /\ UNCHANGED <<db, disk, log, cat>>
        ELSE /\ db' = [mem |-> map, delta |-> EmptyDelta, failed |-> FALSE, next |-> r.highest + 1]
             /\ disk' = IF DOMAIN mem = {} THEN map ELSE roots
             /\ log' = [wal |-> u.file, synced |-> log.synced, sticky |-> FALSE,
                        fenced |-> chain.checkpoint # NoAnchor, cp |-> chain.checkpoint,
                        tail |-> chain.tail, initing |-> NoAnchor, resume |-> NoResume,
                        hdr |-> [anchor |-> h.anchor, gen |-> h.gen]]
             /\ cat' = [cache |-> [n \in CatalogNames(map[CatalogTree]) |->
                                      EntryIn(map[CatalogTree], n)],
                        open |-> {CatalogTree}, dropped |-> {}, handle |-> [c \in Clients |-> <<>>]]
             /\ ghost' = [ghost EXCEPT !.open = "opened", !.vol = vol, !.hist[1].vol = vol,
                                       !.hist[1].end = Len(u.file.recs)]

Open ==
    /\ ~up /\ ghost.open = ""
    /\ LET r == ReplayOf(log.wal)
           cut == IF r.err = "" /\ r.torn >= 0 THEN [log.wal EXCEPT !.recs = SubSeq(@, 1, r.torn)]
                  ELSE log.wal
           u == Upgraded(cut)
           chain == ChainOf(cut)
           Try(rr, uu, cc) ==
               IF rr.err # "" \/ uu.err # "" \/ cc.err # ""
               THEN /\ ghost' = [ghost EXCEPT !.open = IF rr.err # "" THEN rr.err
                                                         ELSE IF uu.err # "" THEN uu.err ELSE cc.err]
                    /\ UNCHANGED <<db, disk, log, cat>>
               ELSE Opened(rr, cc, uu, HeaderOf(cut))
       IN  Try(r, u, chain)
    /\ up' = (ghost'.open = "opened")
    /\ UNCHANGED <<held, cl, left>>

---------------------------------------------------------------------------
(* Specification                                                           *)

\* A case: the stored trees (the catalog among them), the log's version, the
\* clients' scripts and handles, and what may still go wrong.
InitOf(case) ==
    LET vol == Volatile!NewStream
        cats == case.trees[CatalogTree]
        es == [n \in CatalogNames(cats) |-> EntryIn(cats, n)]
        ids == { es[n].tree : n \in DOMAIN es }
    IN  /\ db = [mem |-> case.trees, delta |-> EmptyDelta, failed |-> FALSE, next |-> 10]
        /\ disk = case.trees
        /\ log = [wal |-> [version |-> case.version, slots |-> SlotsFor(case.version), recs |-> <<>>],
                  synced |-> 0, sticky |-> FALSE, fenced |-> FALSE, cp |-> NoAnchor,
                  tail |-> NoAnchor, initing |-> NoAnchor, resume |-> NoResume,
                  hdr |-> [anchor |-> NoAnchor, gen |-> 0]]
        /\ cat = [cache |-> es, open |-> {CatalogTree} \cup ids, dropped |-> {},
                  handle |-> [c \in Clients |->
                                 [n \in DOMAIN es \cap case.handles[c] |-> es[n].tree]]]
        /\ held = {}
        /\ cl = [c \in Clients |-> Idle(case.script[c], NoResult, {NoResult}, NoAnchor)]
        /\ ghost = [hist |-> <<[end |-> 0, db |-> case.trees, vol |-> vol, renames |-> FALSE]>>,
                    vol |-> vol, out |-> {}, open |-> ""]
        /\ left = [faults |-> case.faults, crashes |-> case.crashes]
        /\ up = case.up

Init == \E case \in Cases : InitOf(case)

\* Every script is done.
Done ==
    /\ up /\ \A c \in Clients : cl[c].pc = "idle" /\ cl[c].todo = <<>>
    /\ UNCHANGED vars

ClientStep(c) ==
    \/ Start(c) \/ Acquire(c) \/ Drained(c) \/ FlushBegin(c) \/ FlushMerge(c)
    \/ PutDeferred(c) \/ DeleteDeferred(c) \/ DebtFlushed(c)
    \/ PutInner(c) \/ DeleteInner(c) \/ RenameProbe(c) \/ RenameApply(c)
    \/ PutMany(c) \/ BatchPreflight(c) \/ BatchApply(c) \/ BatchSubmit(c)
    \/ OpenTree(c) \/ GroupOps(c) \/ ViewCapture(c) \/ CreateRoot(c) \/ DropFlush(c)
    \/ ListRead(c) \/ ListCache(c) \/ ListDone(c)
    \/ GcFreeze(c) \/ GcSweep(c) \/ Finalize(c)
    \/ ExportFamilies(c) \/ ExportSnapshot(c) \/ ExportSerialize(c)
    \/ GetDelta(c) \/ GetTree(c) \/ PrefixScan(c)
    \/ CkEnter(c) \/ CkCapture(c) \/ CkBarrier(c) \/ CkClone(c) \/ CkWrite(c)
    \/ CkTruncate(c) \/ CkClean(c)
    \/ InitStream(c) \/ PersistSlot(c) \/ AnchorDone(c) \/ StreamState(c) \/ Page(c)

Next == Crash \/ Open \/ Done \/ \E c \in Clients : ClientStep(c)

Spec == Init /\ [][Next]_vars

---------------------------------------------------------------------------
(* Properties                                                              *)

\* Executions outside the promises below are not followed.
Inside == ghost.out = {}

EntriesIn(state) == [n \in CatalogNames(state[CatalogTree]) |-> EntryIn(state[CatalogTree], n)]
LiveTrees(state) == LET es == EntriesIn(state) IN  { es[n].tree : n \in Live(es) }

\* Trees a batch in progress has already changed.
HalfDone == UNION { { cl[c].groups[g].tree : g \in 1..cl[c].done } : c \in Clients }

\* What readers are shown, the deferred writes over the frames, is what the
\* calls that have returned committed, in the order of the log, for every
\* tree of the catalog and whatever flushes, checkpoints, batches of several
\* trees and sweeps are under way.  A failed call leaves no trace, or the
\* store is latched closed.
LiveIsCommitted ==
    up /\ ~db.failed /\ Inside =>
        /\ LiveTrees(Now) \subseteq DOMAIN db.mem
        /\ \A t \in (DOMAIN db.mem \cap DOMAIN Now) \ HalfDone : Show(t) = Now[t]

\* Opening after a crash succeeds and recovers exactly the committed state at
\* the end of the log that survived: no batch in part, no change without its
\* record, wherever the checkpoint and the truncation were interrupted.
RecoveredIsPrefix ==
    [][~up /\ Inside => /\ ghost'.open = "opened"
                        /\ LiveTrees(Now) \subseteq DOMAIN db'.mem
                        /\ \A t \in DOMAIN db'.mem \cap DOMAIN Now : db'.mem[t] = Now[t]]_vars

\* Every call answers by committed states: a write by the state it commits
\* on, a point or prefix read by a state it overlaps, a view, an exported
\* image (decoded again) or a page of envelopes by one instant.
AnswersLinear ==
    Inside => \A c \in Clients : cl[c].pc = "idle" => cl[c].got \in cl[c].want

\* A tree that is live in any state a crash could recover has its root on
\* disk: create_tree stores the root first, and a root is swept only when no
\* log that could revive its tree is left.
LiveRootsDurable ==
    Inside => \A i \in DOMAIN ghost.hist :
        i = Len(ghost.hist) \/ ghost.hist[i + 1].end > log.synced
            => LiveTrees(ghost.hist[i].db) \subseteq DOMAIN disk

\* A name keeps its tree from creation to removal, a dropping tree takes no
\* further write and never comes back, its tombstone goes only after its
\* root has gone, and a new name gets an empty tree.
CatalogForward ==
    [][up /\ up' /\ Inside /\ Inside' =>
         LET es == EntriesIn(Now)
             new == EntriesIn(Now')
         IN  /\ \A n \in DOMAIN es \cap DOMAIN new :
                    /\ new[n].tree = es[n].tree
                    /\ es[n].state = DroppingState =>
                          new[n].state = DroppingState /\ Now'[es[n].tree] = Now[es[n].tree]
             /\ \A n \in DOMAIN es \ DOMAIN new :
                    es[n].state = DroppingState /\ es[n].tree \notin DOMAIN disk
             /\ \A n \in DOMAIN new \ DOMAIN es : Show(new[n].tree) = <<>>]_vars

\* The file-backed stream's checkpoint and tail are those of the in-memory
\* stream given the same calls, also after a crash, and while there is a
\* stream ordinary writes are fenced off.
StreamIsVolatile ==
    up /\ Inside => /\ log.cp = ghost.vol.checkpoint
                    /\ log.tail = ghost.vol.tail
                    /\ log.cp # NoAnchor => log.fenced
===========================================================================
