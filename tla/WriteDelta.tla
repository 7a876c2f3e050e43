---------------------------- MODULE WriteDelta ----------------------------
(***************************************************************************)
(* The write delta: deferred puts and deletes that are in the log and not  *)
(* yet in the tree's frames.  A delta is a record                          *)
(*   [pend, flush, pendKeys, flushKeys]                                    *)
(* pend and flush map <<tree, key>> to an entry [put, value, seq, creates]; *)
(* pendKeys and flushKeys count, per tree, the entries that change the set *)
(* of keys.  Each operator is one critical section of the delta's mutex.   *)
(***************************************************************************)
EXTENDS Integers, FiniteSets, TLC

EmptyDelta == [pend |-> <<>>, flush |-> <<>>, pendKeys |-> <<>>, flushKeys |-> <<>>]

PutEntry(value, seq, creates) == [put |-> TRUE, value |-> value, seq |-> seq, creates |-> creates]
DeleteEntry(seq) == [put |-> FALSE, value |-> <<>>, seq |-> seq, creates |-> FALSE]
ChangesKeySet(e) == IF e.put THEN e.creates ELSE TRUE

\* HashMap counters: a count that falls to zero is removed, and a missing
\* one is not decremented.
Count(counts, tree) == IF tree \in DOMAIN counts THEN counts[tree] ELSE 0
Increment(counts, tree) == (tree :> Count(counts, tree) + 1) @@ counts
Decrement(counts, tree) ==
    IF Count(counts, tree) <= 1 THEN [t \in DOMAIN counts \ {tree} |-> counts[t]]
    ELSE [counts EXCEPT ![tree] = @ - 1]

\* The counter after entry e has replaced what map holds at tk.
Recount(counts, map, tk, e) ==
    LET less == IF tk \in DOMAIN map /\ ChangesKeySet(map[tk]) THEN Decrement(counts, tk[1])
                ELSE counts
    IN  IF ChangesKeySet(e) THEN Increment(less, tk[1]) ELSE less

InsertPending(d, tk, e) ==
    [d EXCEPT !.pend = (tk :> e) @@ @, !.pendKeys = Recount(@, d.pend, tk, e)]

StagePut(d, tree, key, value, seq, creates) ==
    InsertPending(d, <<tree, key>>, PutEntry(value, seq, creates))
StageDelete(d, tree, key, seq) == InsertPending(d, <<tree, key>>, DeleteEntry(seq))

\* The newer of the pending and the flushing entry; a pending entry wins a tie.
Entries(d, tree, key) ==
    LET tk == <<tree, key>>
        p == IF tk \in DOMAIN d.pend THEN {d.pend[tk]} ELSE {}
        f == IF tk \in DOMAIN d.flush THEN {d.flush[tk]} ELSE {}
    IN  IF p # {} /\ f # {}
        THEN IF d.pend[tk].seq >= d.flush[tk].seq THEN p ELSE f
        ELSE p \cup f

OfTree(map, tree) == { tk \in DOMAIN map : tk[1] = tree }
TreeLen(d, tree) == Cardinality(OfTree(d.pend, tree)) + Cardinality(OfTree(d.flush, tree))
TreeKeySetLen(d, tree) == Count(d.pendKeys, tree) + Count(d.flushKeys, tree)
HasAny(d) == DOMAIN d.pend # {} \/ DOMAIN d.flush # {}

\* begin_flush_tree, begin_flush_all: the pending entries of some trees move
\* to the flushing map.
RECURSIVE PublishFlushing(_, _, _)
PublishFlushing(d, map, tks) ==
    IF tks = {} THEN d
    ELSE LET tk == CHOOSE x \in tks : TRUE
         IN  PublishFlushing([d EXCEPT !.flush = (tk :> map[tk]) @@ @,
                                       !.flushKeys = Recount(@, d.flush, tk, map[tk])],
                             map, tks \ {tk})

BeginFlush(d, trees) ==
    LET tks == { tk \in DOMAIN d.pend : tk[1] \in trees }
    IN  PublishFlushing([d EXCEPT !.pend = [tk \in DOMAIN @ \ tks |-> @[tk]],
                                  !.pendKeys = [t \in DOMAIN @ \ trees |-> @[t]]],
                        d.pend, tks)

\* remove_flushing: only the entry that was begun is removed.
RemoveFlushing(d, tk, e) ==
    IF tk \notin DOMAIN d.flush \/ d.flush[tk].seq # e.seq THEN d
    ELSE [d EXCEPT !.flush = [x \in DOMAIN @ \ {tk} |-> @[x]],
                   !.flushKeys = IF ChangesKeySet(d.flush[tk]) THEN Decrement(@, tk[1]) ELSE @]

RECURSIVE FinishFlush(_, _)
FinishFlush(d, ops) ==
    IF ops = <<>> THEN d
    ELSE LET tk == CHOOSE x \in DOMAIN ops : TRUE
         IN  FinishFlush(RemoveFlushing(d, tk, ops[tk]), [x \in DOMAIN ops \ {tk} |-> ops[x]])

\* Mutant: the begun entries are forgotten.
AbortFlushForgets(d, ops) == FinishFlush(d, ops)

\* abort_flush: they are pending again.
RECURSIVE AbortFlush(_, _)
AbortFlush(d, ops) ==
    IF ops = <<>> THEN d
    ELSE LET tk == CHOOSE x \in DOMAIN ops : TRUE
         IN  AbortFlush(InsertPending(RemoveFlushing(d, tk, ops[tk]), tk, ops[tk]),
                        [x \in DOMAIN ops \ {tk} |-> ops[x]])

\* apply_write_delta_ops_inner: some of the begun entries of a tree merged
\* into its contents.
Merged(t, tree, ops, done) ==
    LET mine == { tk \in done : tk[1] = tree }
        gone == { tk[2] : tk \in { x \in mine : ~ops[x].put } }
        put  == { tk[2] : tk \in { x \in mine : ops[x].put } }
    IN  [k \in (DOMAIN t \ gone) \cup put |->
            IF k \in put THEN [value |-> ops[<<tree, k>>].value, seq |-> ops[<<tree, k>>].seq]
            ELSE t[k]]

\* A tree as a reader sees it: the delta over the frames.
Shown(t, d, tree) ==
    LET tks == OfTree(d.pend, tree) \cup OfTree(d.flush, tree)
        newest == [tk \in tks |-> CHOOSE e \in Entries(d, tree, tk[2]) : TRUE]
    IN  Merged(t, tree, newest, tks)
===========================================================================
