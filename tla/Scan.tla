-------------------------------- MODULE Scan --------------------------------
(***************************************************************************)
(* Range scans beside the writers, readers, snapshots and maintenance of a *)
(* tree: RangeIter over the live tree, or over the frozen root of a view.  *)
(*                                                                         *)
(* A call of next holds the maintenance and mutation gates shared, so      *)
(* maintenance waits for it and writers do not.  Range says what the       *)
(* cursor does inside a blob; here are the calls, the crossings from blob  *)
(* to blob, the restarts, and what makes the path it remembers stale.      *)
(***************************************************************************)
EXTENDS Tree

CONSTANTS
    StepIn(_, _, _),        \* cursor, frame, guid: the nodes of one blob
    EnterIn(_, _),          \* cursor, frame: the child of a crossing
    EnterCold(_, _),        \* the same, as far as the child's read index tells
    Forgotten(_),           \* cursor: without its path
    KeyLess(_, _),
    NoLowerBound

vars == <<treeVars, cursor>>

\* The frozen root of a view has an identity of its own.
ViewRoot == 0

RootOf(c) == IF c.snap = 0 THEN Root ELSE ViewRoot
FrameOf(c, g) == IF g = ViewRoot THEN live[c.snap] ELSE frames[g]
Pins(c) == {c.stack[i].guid : i \in DOMAIN c.stack}

NoCursor == [pc |-> "closed", snap |-> 0, stack |-> <<>>]
NoCross  == [guid |-> 0, bytes |-> <<>>, rollup |-> FALSE]

\* The scan s of the live tree, or of the snapshot of epoch e.
Opened(s, e) ==
    [pc |-> "open", snap |-> e, prefix |-> s.prefix, delimiter |-> s.delimiter,
     after |-> s.after,
     bound |-> IF s.after = <<>> THEN NoLowerBound ELSE [key |-> s.after, inclusive |-> FALSE],
     gc |-> gcs, mode |-> "new", stack |-> <<>>, key |-> <<>>, stale |-> {},
     cross |-> NoCross, st |-> "Go", ended |-> FALSE, out |-> <<>>, cold |-> FALSE,
     steady |-> {k \in Keys : (IF e = 0 THEN view ELSE captured[e])[k] # NoRecord}]

----------------------------------------------------------------------------
(* What the other steps do to a cursor.  A blob that a writer latches      *)
(* exclusively, or that is rewritten, has another version from then on;    *)
(* registering a snapshot rewrites the header of the live root.  steady    *)
(* and cold only observe: the keys that had a record at every moment of    *)
(* the scan, and whether an index let it pass a crossing.                  *)

Rewritten(g) ==
    \/ Latched(g)'
    \/ frames'[g] # frames[g]
    \/ (g = Root /\ epoch' # epoch)

Watch ==
    cursor' =
        IF cursor.pc = "closed" THEN cursor
        ELSE [cursor EXCEPT
                !.stale = @ \cup {g \in Pins(cursor) \ {ViewRoot} : Rewritten(g)},
                !.steady = IF cursor.snap = 0 THEN {k \in @ : view'[k] # NoRecord} ELSE @]

----------------------------------------------------------------------------
(* The calls.                                                              *)

\* range().into_iter(), of the tree or of a view.
OpenScan ==
    /\ cursor.pc = "closed"
    /\ \E s \in left.scans : \E e \in {0} \cup DOMAIN live : cursor' = Opened(s, e)
    /\ left' = [left EXCEPT !.scans = {}]
    /\ UNCHANGED <<frames, fresh, epoch, live, orphans, cands, routes, gcs, writer, reader,
                   todo, shown>>

\* A reclaim pass explains what a live cursor did not find.
GcRaced(c) == c.snap = 0 /\ c.gc # gcs

StartsOver(c) == [Forgotten(c) EXCEPT !.pc = "open", !.st = "Go", !.gc = gcs]

\* next enters the gates; a live cursor that slept through a reclaim pass
\* starts over.
CallNext ==
    /\ cursor.pc = "open"
    /\ ~cursor.ended
    /\ cursor' = IF GcRaced(cursor) THEN StartsOver(cursor)
                 ELSE [cursor EXCEPT !.pc = "in", !.st = "Go"]
    /\ UNCHANGED treeVars

Ended(c) == [c EXCEPT !.pc = "open", !.st = "Go", !.ended = TRUE]

\* What the end of a step means for the call.
Settled(c) ==
    CASE c.st = "Entry" -> [c EXCEPT !.pc = "open", !.st = "Go"]
      [] c.st = "Restart" \/ (c.st = "Done" /\ GcRaced(c)) -> StartsOver(c)
      [] c.st = "Done" /\ ~GcRaced(c) -> Ended(c)
      [] OTHER -> [c EXCEPT !.stale = @ \cap Pins(c)]

\* The root is read to start the descent; later blobs were read when pushed.
ScanBlob ==
    LET g == IF cursor.mode = "new" THEN RootOf(cursor) ELSE Last(cursor.stack).guid IN
    /\ cursor.pc = "in"
    /\ cursor.st = "Go"
    /\ cursor.mode = "new" => ~Latched(g)
    /\ cursor' = Settled(StepIn(cursor, FrameOf(cursor, g), g))
    /\ UNCHANGED treeVars

\* pin_scan_child, then the child is read.
ScanChild ==
    LET g == cursor.cross.guid IN
    /\ cursor.pc = "in"
    /\ cursor.st = "Cross"
    /\ ~Latched(g)
    /\ cursor' = IF g \in DOMAIN frames
                 THEN Settled([EnterIn(cursor, frames[g]) EXCEPT !.cross = NoCross])
                 ELSE IF GcRaced(cursor) THEN StartsOver(cursor)
                 ELSE [Ended(cursor) EXCEPT !.out = Append(@, [kind |-> "Error", key |-> <<>>])]
    /\ UNCHANGED treeVars

\* A child whose image is flushed has a read index, which may let a scan with
\* a delimiter pass the crossing without the child.
ScanIndexed ==
    LET g == cursor.cross.guid IN
    /\ cursor.pc = "in"
    /\ cursor.st = "Cross"
    /\ cursor.delimiter # 0
    /\ g \in DOMAIN frames
    /\ ~Latched(g)
    /\ \E d \in {EnterCold(cursor, frames[g])} :
         /\ d # cursor
         /\ cursor' = Settled([d EXCEPT !.cross = NoCross, !.cold = TRUE])
    /\ UNCHANGED treeVars

\* The cursor is dropped, and with it its pins and its lease.
CloseScan ==
    /\ cursor.pc = "open"
    /\ cursor' = NoCursor
    /\ UNCHANGED treeVars

----------------------------------------------------------------------------
Init == TreeInit /\ cursor = NoCursor

Next ==
    \/ TreeNext /\ Watch
    \/ OpenScan \/ CallNext \/ ScanBlob \/ ScanChild \/ ScanIndexed \/ CloseScan

Spec == Init /\ [][Next]_vars

----------------------------------------------------------------------------
(* Properties.                                                             *)

\* What the scanned tree shows at this moment.
Shown(c) == IF c.snap = 0 THEN view ELSE captured[c.snap]

\* An entry is true at the moment the cursor emits it, whatever writers,
\* forks, merges and compactions did to the blobs of its path: a record is the
\* one the tree shows for its key, a common prefix has a live key under it,
\* and no scan ends in an error.
ScanEmitsCurrent ==
    [][cursor.pc = "in" /\ Len(cursor'.out) > Len(cursor.out) =>
         LET e == Last(cursor'.out)
         IN  CASE e.kind = "Key" -> Shown(cursor)[e.key] = e.rec
               [] e.kind = "CommonPrefix" ->
                    \E k \in Keys : IsPrefix(e.key, k) /\ Shown(cursor)[k] # NoRecord
               [] OTHER -> FALSE]_vars

\* Entries come in strictly ascending order across restarts, each under the
\* prefix and past start_after, and nothing follows under a common prefix
\* already emitted: a restart repeats nothing.
ScanOrdered ==
    cursor.pc # "closed" =>
        /\ \A i, j \in DOMAIN cursor.out : i < j =>
             /\ KeyLess(cursor.out[i].key, cursor.out[j].key)
             /\ cursor.out[i].kind = "CommonPrefix" =>
                  ~IsPrefix(cursor.out[i].key, cursor.out[j].key)
        /\ \A i \in DOMAIN cursor.out :
             /\ IsPrefix(cursor.prefix, cursor.out[i].key)
             /\ cursor.out[i].kind = "Key" /\ cursor.after # <<>> =>
                  KeyLess(cursor.after, cursor.out[i].key)

\* The keys a finished scan owes its caller.
Owed(c) == {k \in c.steady : IsPrefix(c.prefix, k) /\ (c.after = <<>> \/ KeyLess(c.after, k))}

\* A scan that ran to its end has listed every key that had a record all the
\* while and that no common prefix stands for, however often its path went
\* stale and however the key moved between blobs.  A roll-up made from a read
\* index passes over the plain keys before it, so scans that made one are
\* excepted.
ScanComplete ==
    cursor.pc # "closed" /\ cursor.ended /\ ~cursor.cold =>
        \A k \in Owed(cursor) :
            (\A i \in (Len(cursor.prefix) + 1)..Len(k) : k[i] # cursor.delimiter) =>
                \E i \in DOMAIN cursor.out : cursor.out[i].key = k
=============================================================================
