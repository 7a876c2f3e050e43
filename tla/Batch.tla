------------------------------- MODULE Batch -------------------------------
(***************************************************************************)
(* Atomic batches: how an AtomicBatch's operations are grouped into runs   *)
(* and encoded as one log record, how their guards are checked against an  *)
(* overlay before anything changes, how they are applied, and how the      *)
(* record is redone at open.                                               *)
(*                                                                         *)
(* The contents of a tree are a function from the live keys to their       *)
(* records [value, seq]; seq is the record's version.  That the tree of    *)
(* frames implements such a map is the subject of module Tree.             *)
(*                                                                         *)
(* BatchOp: [kind |-> "Put"/"PutIfAbsent", key, value],                    *)
(*   [kind |-> "CompareAndPut", key, value, expected],                     *)
(*   [kind |-> "Delete", key], [kind |-> "DeleteIfVersion", key, expected], *)
(*   [kind |-> "AssertVersion", key, expected],                            *)
(*   [kind |-> "AssertAbsent", key], [kind |-> "AssertPrefixEmpty", prefix], *)
(*   [kind |-> "Rename", src, dst, force].                                 *)
(***************************************************************************)
EXTENDS WalCodec, FiniteSets, TLC

CONSTANTS
    MinPrefix,      \* INSERT_PREFIX_RUN_MIN_PREFIX
    MaxLen          \* u16::MAX, the bound on a key (and its terminator) and a value

\* Contents with one record more, or one key less.
With(t, key, value, seq) == (key :> [value |-> value, seq |-> seq]) @@ t
Without(t, key) == [k \in DOMAIN t \ {key} |-> t[k]]
HasVersion(t, key, seq) == key \in DOMAIN t /\ t[key].seq = seq
StartsWith(key, prefix) == Len(prefix) <= Len(key) /\ SubSeq(key, 1, Len(prefix)) = prefix

---------------------------------------------------------------------------
(* Operations and runs                                                     *)

EmitsWal(op) == op.kind \notin {"AssertVersion", "AssertAbsent", "AssertPrefixEmpty"}
IsInsert(op) == op.kind \in {"Put", "PutIfAbsent", "CompareAndPut"}

\* Assertions take no sequence number.
CountWal(ops) == Len(SelectSeq(ops, EmitsWal))
SeqOf(ops, base, i) == base + Cardinality({ j \in 1..(i - 1) : EmitsWal(ops[j]) })

SameShapeRunLen(ops, start) ==
    LET Same(j) == /\ IsInsert(ops[j])
                   /\ Len(ops[j].key) = Len(ops[start].key)
                   /\ Len(ops[j].value) = Len(ops[start].value)
    IN  Cardinality({ e \in start..Len(ops) : \A j \in start..e : Same(j) })

CommonPrefixLen(a, b) ==
    LET Agree(n) == SubSeq(a, 1, n) = SubSeq(b, 1, n)
        short == IF Len(a) < Len(b) THEN Len(a) ELSE Len(b)
    IN  CHOOSE n \in 0..short : Agree(n) /\ (n = short \/ ~Agree(n + 1))

\* The inserts from start on that share MinPrefix with the first.  The key
\* that ends the run has already shortened the prefix.
SamePrefixRun(ops, start) ==
    LET plen[j \in start..Len(ops)] ==
            IF j = start THEN Len(ops[start].key)
            ELSE CommonPrefixLen(SubSeq(ops[start].key, 1, plen[j - 1]), ops[j].key)
        inserts == { e \in start..Len(ops) : \A j \in start..e : IsInsert(ops[j]) }
        kept == { e \in inserts : \A j \in (start + 1)..e : plen[j] >= MinPrefix }
        last == start + Cardinality(kept) - 1
    IN  [len |-> Cardinality(kept),
         plen |-> plen[IF last + 1 \in inserts THEN last + 1 ELSE last]]

Sum(n, F(_)) ==
    LET s[i \in 0..n] == IF i = 0 THEN 0 ELSE s[i - 1] + F(i)
    IN  s[n]

InsertLen(op) == 4 + Len(op.key) + Len(op.value)

\* InsertRunPlan::encoded_len of the run of ops that begins at start.
PlanLen(plan, ops, start) ==
    IF plan.fixed
    THEN IF plan.len = 1 THEN InsertLen(ops[start])
         ELSE 5 + plan.len * (Len(ops[start].key) + Len(ops[start].value))
    ELSE 4 + plan.plen
         + Sum(plan.len, LAMBDA i : 2 + (Len(ops[start + i - 1].key) - plan.plen)
                                      + Len(ops[start + i - 1].value))

\* insert_run_plan: a run of equal shapes, or one with a common prefix where
\* that is shorter than its inserts one by one.
InsertRunPlan(ops, start) ==
    LET fixed  == [fixed |-> TRUE, len |-> SameShapeRunLen(ops, start), plen |-> 0]
        run    == SamePrefixRun(ops, start)
        prefix == [fixed |-> FALSE, len |-> run.len, plen |-> run.plen]
        single == Sum(run.len, LAMBDA i : InsertLen(ops[start + i - 1]))
    IN  IF run.len >= 2 /\ PlanLen(prefix, ops, start) < single THEN prefix ELSE fixed

\* A batch as the walker takes it: where each run starts and its plan; an
\* operation that is no insert is a run of its own.
RECURSIVE RunsFrom(_, _)
RunsFrom(ops, i) ==
    IF i > Len(ops) THEN <<>>
    ELSE LET plan == IF IsInsert(ops[i]) THEN InsertRunPlan(ops, i)
                     ELSE [fixed |-> TRUE, len |-> 1, plen |-> 0]
         IN  <<[start |-> i, plan |-> plan]>> \o RunsFrom(ops, i + plan.len)

\* encoded_batch_record_len
BatchRecordLen(ops) ==
    LET runs == RunsFrom(ops, 1)
        OpLen(op) == CASE op.kind \in {"Delete", "DeleteIfVersion"} -> 3 + Len(op.key)
                       [] op.kind = "Rename" -> 5 + Len(op.src) + Len(op.dst)
                       [] OTHER -> 0
        RunLen(r) == IF IsInsert(ops[r.start]) THEN PlanLen(r.plan, ops, r.start)
                     ELSE OpLen(ops[r.start])
    IN  HeaderSize + 2 + FooterSize + Sum(Len(runs), LAMBDA i : RunLen(runs[i]))

\* The encoder calls of apply_batch_walker_inline.
EncodeRun(enc, tree, ops, r) ==
    LET op == ops[r.start]
        items == [i \in 1..r.plan.len |-> ops[r.start + i - 1]]
    IN  CASE IsInsert(op) /\ r.plan.fixed -> PushInsertRun(enc, tree, items)
          [] IsInsert(op) /\ ~r.plan.fixed -> PushPrefixRun(enc, tree, r.plan.plen, items)
          [] op.kind \in {"Delete", "DeleteIfVersion"} -> PushErase(enc, tree, op.key)
          [] op.kind = "Rename" -> PushRename(enc, tree, op.src, op.dst, op.force)
          [] OTHER -> enc

EncodeOps(enc, tree, ops) ==
    LET runs == RunsFrom(ops, 1)
        e[i \in 0..Len(runs)] == IF i = 0 THEN enc ELSE EncodeRun(e[i - 1], tree, ops, runs[i])
    IN  e[Len(runs)]

---------------------------------------------------------------------------
(* Preflight                                                               *)

ShapeOK(key, value) == Len(key) + 1 <= MaxLen /\ Len(value) <= MaxLen

\* The overlay: proj is what the tree would show, over the keys the batch
\* has touched.
Overlay(st, key, value, seq) ==
    [st EXCEPT !.proj = With(st.proj, key, value, seq), !.touched = @ \cup {key}]
OverlayGone(st, key) == [st EXCEPT !.proj = Without(st.proj, key), !.touched = @ \cup {key}]

\* projected_prefix_empty: the overlay, then the tree itself (base), pending
\* deferred writes not included.
PrefixEmpty(st, base, prefix) ==
    /\ ~\E k \in st.touched : k \in DOMAIN st.proj /\ StartsWith(k, prefix)
    /\ ~\E k \in DOMAIN base : StartsWith(k, prefix) /\ k \notin st.touched \ DOMAIN st.proj

\* Only an empty overlay is read without a new iterator.
RescansPrefix(st, op) == op.kind = "AssertPrefixEmpty" /\ st.touched # {}

PreflightRename(st, op, seq) ==
    IF op.src \notin DOMAIN st.proj THEN [st EXCEPT !.verdict = "NotFound"]
    ELSE IF op.src = op.dst THEN st
    ELSE IF ~op.force /\ op.dst \in DOMAIN st.proj THEN [st EXCEPT !.verdict = "DstExists"]
    ELSE LET value == st.proj[op.src].value
         IN  IF ~ShapeOK(op.dst, value) THEN [st EXCEPT !.verdict = "TooLong"]
             ELSE Overlay(OverlayGone(st, op.src), op.dst, value, seq)

\* preflight_batch_op.  A guard that fails ends the batch with "false", a
\* rename or a shape that cannot be applied with an error.
PreflightOp(st, base, op, seq) ==
    LET No == [st EXCEPT !.verdict = "false"]
        Put == IF ShapeOK(op.key, op.value) THEN Overlay(st, op.key, op.value, seq)
               ELSE [st EXCEPT !.verdict = "TooLong"]
    IN  CASE op.kind = "Put" -> Put
          [] op.kind = "PutIfAbsent" ->
                 IF ShapeOK(op.key, op.value) /\ op.key \in DOMAIN st.proj THEN No ELSE Put
          [] op.kind = "CompareAndPut" ->
                 IF ShapeOK(op.key, op.value) /\ ~HasVersion(st.proj, op.key, op.expected)
                 THEN No ELSE Put
          [] op.kind = "Delete" -> OverlayGone(st, op.key)
          [] op.kind = "DeleteIfVersion" ->
                 IF HasVersion(st.proj, op.key, op.expected) THEN OverlayGone(st, op.key) ELSE No
          [] op.kind = "AssertVersion" ->
                 IF HasVersion(st.proj, op.key, op.expected) THEN st ELSE No
          [] op.kind = "AssertAbsent" -> IF op.key \in DOMAIN st.proj THEN No ELSE st
          [] op.kind = "AssertPrefixEmpty" ->
                 IF PrefixEmpty(st, base, op.prefix) THEN st ELSE No
          [] op.kind = "Rename" -> PreflightRename(st, op, seq)

\* batch_is_guard_free: nothing is projected, only the shapes are checked.
GuardFree(ops) == \A i \in DOMAIN ops : ops[i].kind \in {"Put", "Delete"}
GuardFreeVerdict(ops) ==
    IF \A i \in DOMAIN ops : ops[i].kind = "Put" => ShapeOK(ops[i].key, ops[i].value)
    THEN "" ELSE "TooLong"

\* preflight_batch: verdict "" admits the batch; rescan tells that some
\* assertion opened an iterator of its own on the way.  shown: the tree with
\* its pending writes; base: without them.
Preflight(shown, base, ops, seq) ==
    LET start == [proj |-> shown, touched |-> {}, verdict |-> "", rescan |-> FALSE]
        st[i \in 0..Len(ops)] ==
            IF i = 0 THEN start
            ELSE LET Step(p) ==
                         IF p.verdict # "" THEN p
                         ELSE PreflightOp([p EXCEPT !.rescan = @ \/ RescansPrefix(p, ops[i])],
                                          base, ops[i], SeqOf(ops, seq, i))
                 IN  Step(st[i - 1])
    IN  IF GuardFree(ops) THEN [start EXCEPT !.verdict = GuardFreeVerdict(ops)] ELSE st[Len(ops)]

---------------------------------------------------------------------------
(* Applying                                                                *)

ApplyRename(t, op, seq) ==
    IF op.src \notin DOMAIN t THEN [err |-> "NotFound", t |-> t]
    ELSE IF op.src = op.dst THEN [err |-> "", t |-> t]
    ELSE IF ~op.force /\ op.dst \in DOMAIN t THEN [err |-> "DstExists", t |-> t]
    ELSE [err |-> "", t |-> With(Without(t, op.src), op.dst, t[op.src].value, seq)]

\* batch_insert_condition, on the contents: Always, IfAbsent, IfVersion.
InsertConditionHolds(t, op) ==
    CASE op.kind = "Put" -> TRUE
      [] op.kind = "PutIfAbsent" -> op.key \notin DOMAIN t
      [] op.kind = "CompareAndPut" -> HasVersion(t, op.key, op.expected)

\* The walker evaluates each guard again; preflight must have settled it.
ApplyOp(t, op, seq) ==
    LET Missed == [err |-> "Internal", t |-> t]
    IN  CASE IsInsert(op) -> IF InsertConditionHolds(t, op)
                             THEN [err |-> "", t |-> With(t, op.key, op.value, seq)] ELSE Missed
          [] op.kind = "Delete" -> [err |-> "", t |-> Without(t, op.key)]
          [] op.kind = "DeleteIfVersion" ->
                 IF HasVersion(t, op.key, op.expected)
                 THEN [err |-> "", t |-> Without(t, op.key)] ELSE Missed
          [] op.kind = "Rename" -> ApplyRename(t, op, seq)
          [] OTHER -> [err |-> "", t |-> t]

\* The first n operations of a batch, up to the first that fails.
ApplyOps(t, ops, seq, n) ==
    LET st[i \in 0..n] ==
            IF i = 0 THEN [err |-> "", t |-> t]
            ELSE LET Step(p) == IF p.err # "" THEN p ELSE ApplyOp(p.t, ops[i], SeqOf(ops, seq, i))
                 IN  Step(st[i - 1])
    IN  st[n]

---------------------------------------------------------------------------
(* Replay                                                                  *)

\* One logged operation on the contents of its tree: an insert overwrites,
\* an erase tolerates an absent key, and a rename is skipped when its source
\* is gone or an unforced target is there.
RedoOp(t, op, seq) ==
    CASE op.ty = TyInsert -> With(t, op.key, op.value, seq)
      [] op.ty = TyErase  -> Without(t, op.key)
      [] op.ty = TyRename -> IF op.src \notin DOMAIN t \/ (~op.force /\ op.dst \in DOMAIN t) THEN t
                             ELSE With(Without(t, op.src), op.dst, t[op.src].value, seq)
===========================================================================
