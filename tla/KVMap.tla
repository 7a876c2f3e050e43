------------------------------- MODULE KVMap -------------------------------
(***************************************************************************)
(* What a tree promises its callers, without blobs, latches or caches.     *)
(*                                                                         *)
(* A write takes effect in one step between its call and its return, or    *)
(* fails and changes nothing.  A read, of one key or of the longest key    *)
(* that begins its own, returns an answer that was right at some moment    *)
(* between its call and its return.  A snapshot keeps the map as it was    *)
(* when it was taken, until it is dropped.  Everything else a tree does    *)
(* (spilling, compacting, merging, forking, reclaiming, caching) is no     *)
(* step at all.                                                            *)
(***************************************************************************)
EXTENDS Naturals, SequencesExt

CONSTANTS
    Keys,
    NoRecord,           \* what a key without a record has
    Writers, Readers,
    Ops,                \* the writes that may be called
    Queries,            \* the reads, [kind |-> "Get" | "Longest", key]
    Idle                \* no call in progress

VARIABLES
    map,    \* [key -> a record [val, seq], or NoRecord]
    call,   \* [writer -> the write it called, or Idle]
    res,    \* [writer -> how its last write ended]
    seen,   \* [reader -> its query and the answers met so far, or Idle]
    ret,    \* [reader -> what its last read returned]
    snaps   \* [epoch of a live snapshot -> map]

vars == <<map, call, res, seen, ret, snaps>>

\* The condition of a write, against the record its key has now.  A delete
\* of a key without a record is refused too.
Admits(op, rec) ==
    /\ op.kind = "Del" => rec # NoRecord
    /\ op.cond.kind = "IfAbsent" => rec = NoRecord
    /\ op.cond.kind = "IfVersion" => rec # NoRecord /\ rec.seq = op.cond.seq

After(op) == IF op.kind = "Put" THEN [val |-> op.val, seq |-> op.seq] ELSE NoRecord

\* The answer of a query when the map is m.
Answer(m, q) ==
    LET begins == {k \in Keys : IsPrefix(k, q.key) /\ m[k] # NoRecord}
        k      == CHOOSE j \in begins : \A i \in begins : Len(i) <= Len(j)
    IN  IF q.kind = "Get" THEN m[q.key]
        ELSE IF begins = {} THEN NoRecord
        ELSE [key |-> k, val |-> m[k].val, seq |-> m[k].seq]

\* The answers readers have met once the map is m.
Met(m) == [r \in Readers |-> IF seen[r] = Idle THEN Idle
                             ELSE [seen[r] EXCEPT !.recs = @ \cup {Answer(m, seen[r].query)}]]

Call(w) ==
    /\ call[w] = Idle
    /\ \E op \in Ops : call' = [call EXCEPT ![w] = op]
    /\ UNCHANGED <<map, res, seen, ret, snaps>>

\* The write happens, or is refused by its condition, and returns.
Write(w) ==
    LET op == call[w] IN
    /\ op # Idle
    /\ IF Admits(op, map[op.key])
       THEN map' = [map EXCEPT ![op.key] = After(op)] /\ res' = [res EXCEPT ![w] = "applied"]
       ELSE map' = map /\ res' = [res EXCEPT ![w] = "refused"]
    /\ call' = [call EXCEPT ![w] = Idle]
    /\ seen' = Met(map')
    /\ UNCHANGED <<ret, snaps>>

\* The write reports an error and has done nothing.
Fail(w) ==
    /\ call[w] # Idle
    /\ call' = [call EXCEPT ![w] = Idle]
    /\ res' = [res EXCEPT ![w] = "failed"]
    /\ UNCHANGED <<map, seen, ret, snaps>>

CallRead(r) ==
    /\ seen[r] = Idle
    /\ \E q \in Queries : seen' = [seen EXCEPT ![r] = [query |-> q, recs |-> {Answer(map, q)}]]
    /\ UNCHANGED <<map, call, res, ret, snaps>>

Return(r) ==
    /\ seen[r] # Idle
    /\ \E rec \in seen[r].recs : ret' = [ret EXCEPT ![r] = rec]
    /\ seen' = [seen EXCEPT ![r] = Idle]
    /\ UNCHANGED <<map, call, res, snaps>>

Take ==
    /\ \E e \in DOMAIN snaps' \ DOMAIN snaps :
         snaps' = [d \in DOMAIN snaps \cup {e} |-> IF d = e THEN map ELSE snaps[d]]
    /\ UNCHANGED <<map, call, res, seen, ret>>

Drop ==
    /\ \E e \in DOMAIN snaps : snaps' = [d \in DOMAIN snaps \ {e} |-> snaps[d]]
    /\ UNCHANGED <<map, call, res, seen, ret>>

Init ==
    /\ DOMAIN map = Keys
    /\ call = [w \in Writers |-> Idle]
    /\ res = [w \in Writers |-> "none"]
    /\ seen = [r \in Readers |-> Idle]
    /\ ret = [r \in Readers |-> NoRecord]
    /\ snaps = <<>>

Next ==
    \/ \E w \in Writers : Call(w) \/ Write(w) \/ Fail(w)
    \/ \E r \in Readers : CallRead(r) \/ Return(r)
    \/ Take
    \/ Drop

Spec == Init /\ [][Next]_vars
============================================================================
