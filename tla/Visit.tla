------------------------------- MODULE Visit -------------------------------
(***************************************************************************)
(* What one writer does to the frame it has latched, and what a reader can *)
(* find: the frame operations a tree is built from.                        *)
(***************************************************************************)
EXTENDS Art

CONSTANTS
    MaxAttempts     \* MAX_SPILLOVER_ATTEMPTS

----------------------------------------------------------------------------
(* Reading.                                                                *)

LookupKey(f, key, depth) == LookupAt(f, SearchKey(key), depth)

\* collect_blob_guids
RECURSIVE Reach(_, _)
Reach(fs, gs) ==
    LET more == UNION {Edges(fs[g]) : g \in gs \cap DOMAIN fs} \cup gs
    IN  IF more = gs THEN gs ELSE Reach(fs, more)

\* The counters of a header that maintenance decides by, counted afresh, and
\* one edge at most to any child.
HeaderExact(f) ==
    LET nodes == Under(f, f.root)
        blobs == {o \in nodes : f.mem[o].t = "Blob"}
    IN  /\ f.tombs = Cardinality({o \in nodes : f.mem[o].t = "Leaf" /\ f.mem[o].tomb})
        /\ f.ext = Cardinality(blobs)
        /\ Cardinality(blobs) = Cardinality(Edges(f))

----------------------------------------------------------------------------
(* One writer's work in one frame, under the frame's exclusive latch.      *)

Search(op) == [op EXCEPT !.key = SearchKey(@)]

CompactMadeRetryWorthwhile(miss, b, a) ==
    IF miss = "space" THEN a.used < b.used \/ a.dead < b.dead \/ a.tombs < b.tombs
    ELSE Len(a.mem) < Len(b.mem)

ShouldCompactBeforeSpillover(miss, f) == miss = "slots" \/ f.dead # 0 \/ f.tombs # 0

\* kids collects the children a visit spills; a new one carries epoch e.
Spilled(v, s, e) ==
    IF s.err # "none" THEN [v EXCEPT !.st = "error"]
    ELSE [v EXCEPT !.f = s.f, !.n = @ + 1,
                   !.kids = @ @@ (v.n :> [s.child EXCEPT !.epoch = e])]

Reclaimed(v, miss, c, e) ==
    IF c.err # "none" THEN [v EXCEPT !.st = "error"]
    ELSE IF CompactMadeRetryWorthwhile(miss, v.f, c.f) THEN [v EXCEPT !.f = c.f]
    ELSE Spilled([v EXCEPT !.f = c.f], SpilloverBlob(c.f, v.n), e)

ReclaimOrSpillover(v, miss, e) ==
    IF ShouldCompactBeforeSpillover(miss, v.f) THEN Reclaimed(v, miss, CompactBlob(v.f), e)
    ELSE Spilled(v, SpilloverBlob(v.f, v.n), e)

RECURSIVE InsertInBlob(_, _, _, _, _)
\* The outcome r of one attempt; a miss makes room and tries again.
Attempted(v, r, op, depth, e, attempts) ==
    CASE r.st = "done" ->
           [v EXCEPT !.f = IF r.mutated THEN [r.f EXCEPT !.root = r.off] ELSE r.f,
                     !.st = "done", !.mutated = r.mutated]
      [] r.st = "Crossing" -> [v EXCEPT !.st = "cross", !.x = r]
      [] r.st = "nyi" -> [v EXCEPT !.f = r.f, !.st = "error"]
      [] OTHER -> InsertInBlob(ReclaimOrSpillover([v EXCEPT !.f = r.f], r.st, e),
                               op, depth, e, attempts - 1)

InsertInBlob(v, op, depth, e, attempts) ==
    IF v.st = "error" \/ attempts = 0 THEN [v EXCEPT !.st = "error"]
    ELSE Attempted(v, InsertStep(v.f, v.f.root, op, depth), op, depth, e, attempts)

EraseInBlob(v, op, depth) ==
    LET Answered(r) == IF r.st = "Crossing" THEN [v EXCEPT !.st = "cross", !.x = r]
                       ELSE [v EXCEPT !.f = r.f, !.st = "done", !.mutated = r.mutated]
    IN  Answered(EraseStep(v.f, v.f.root, op, depth))

VisitOf(f, n) == [st |-> "visit", f |-> f, n |-> n, kids |-> <<>>, mutated |-> FALSE, x |-> <<>>]

\* The frame, its new children and the outcome after one visit.
InBlob(f, op, depth, n, e) ==
    IF op.kind = "Put" THEN InsertInBlob(VisitOf(f, n), Search(op), depth, e, MaxAttempts)
    ELSE EraseInBlob(VisitOf(f, n), Search(op), depth)

\* blob_wants_compaction
BlobWantsCompaction(f) == BlobNeedsCompaction(f) \/ BlobWouldRoute(f)
=============================================================================
