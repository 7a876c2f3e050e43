------------------------------ MODULE MCTree ------------------------------
(***************************************************************************)
(* Small trees for TLC.  Sizes are scaled down so that a handful of keys   *)
(* fills a frame: the loads below leave a root with one or two levels of   *)
(* child frames under it.                                                  *)
(***************************************************************************)
EXTENDS Scan, Range

\* The records a tree shows: every key looked up from its root.
RECURSIVE Find(_, _, _, _)
Find(fs, f, key, depth) ==
    LET r == LookupKey(f, key, depth)
    IN  CASE r.st = "NotFound" -> NoRecord
          [] r.st = "Found" -> [val |-> r.val, seq |-> r.seq]
          [] r.st = "Crossing" -> IF r.guid \in DOMAIN fs THEN Find(fs, fs[r.guid], key, r.depth)
                                  ELSE [val |-> "lost", seq |-> r.guid]

Contents(fs, f) == [k \in Keys |-> Find(fs, f, k, 0)]

\* The tree a sequence of writes and compactions builds, one after the other.
RECURSIVE Walk(_, _, _, _)
Walk(t, g, op, depth) ==
    LET v == InBlob(t.fs[g], op, depth, t.n, 1)
        u == [fs |-> [t.fs EXCEPT ![g] = v.f] @@ v.kids, n |-> v.n,
              split |-> t.split \cup (IF v.kids = <<>> THEN {} ELSE {g})]
    IN  IF v.st = "cross" THEN Walk(u, v.x.guid, op, v.x.depth) ELSE u

CompactAll(t) == [t EXCEPT !.fs = [g \in DOMAIN t.fs |->
                      IF BlobWantsCompaction(t.fs[g]) THEN CompactBlob(t.fs[g]).f ELSE t.fs[g]]]

Loaded(load) ==
    LET upto[i \in 0..Len(load)] ==
            IF i = 0 THEN [fs |-> (Root :> EmptyFrame(0)), n |-> Root + 1, split |-> {}]
            ELSE IF load[i].kind = "Compact" THEN CompactAll(upto[i - 1])
            ELSE Walk(upto[i - 1], Root, load[i], 0)
    IN  upto[Len(load)]

MCNodeSize == [EmptyRoot |-> 1, Leaf |-> 2, Prefix |-> 3, Blob |-> 3,
               Node4 |-> 1, Node16 |-> 2, Node48 |-> 3, Node256 |-> 4]
MCCapacity == [Node4 |-> 2, Node16 |-> 3, Node48 |-> 4, Node256 |-> 9]
MCValLen == [a |-> 0, b |-> 1, lost |-> 0]

\* Collides on purpose.
MCHash(key) == Len(key) % 3
MCDelimiters == <<1, 2>>

Always == [kind |-> "Always", seq |-> 0]
Put_(k, v, s, c) == [kind |-> "Put", key |-> k, val |-> v, seq |-> s, cond |-> c]
Del_(k, s, c) == [kind |-> "Del", key |-> k, val |-> "a", seq |-> s, cond |-> c]
Fill(ks) == [i \in DOMAIN ks |-> Put_(ks[i], "a", i, Always)]

Six == Fill(<< <<1>>, <<1, 1>>, <<1, 2>>, <<2>>, <<2, 1>>, <<1, 1, 1>> >>)

\* Root -> 2 -> 3 and 4, full; and the same with room in frame 2.
Roomy == Six \o <<Del_(<<1, 2>>, 7, Always), [kind |-> "Compact"]>>

MCKeys == { <<1>>, <<1, 1>>, <<1, 2>>, <<2>>, <<2, 1>>, <<1, 1, 1>>, <<1, 1, 2>> }
Get == { [kind |-> "Get", key |-> <<1, 1>>] }
Longest_ == { [kind |-> "Longest", key |-> <<1, 1>>] }

IfAbsent == [kind |-> "IfAbsent", seq |-> 0]
Update == { Put_(<<1, 1>>, "b", 11, Always), Del_(<<1, 1, 1>>, 12, Always) }
Create == { Put_(<<1, 1, 2>>, "a", 11, Always), Put_(<<1, 1, 2>>, "b", 12, IfAbsent) }
Refill == { Put_(<<1, 2>>, "a", 11, Always), Del_(<<1, 1>>, 12, Always) }

\* The key the read is for, and the one that begins it, in another frame.
Shorten == { Put_(<<1>>, "b", 11, Always), Del_(<<1, 1>>, 12, Always) }

Case(load, script, snaps, merges, maint, reads, scans) ==
    [load |-> load, script |-> script,
     budget |-> [snaps |-> snaps, merges |-> merges, maint |-> maint, reads |-> reads,
                 scans |-> scans, backlog |-> 32]]
Pruning(case) == [case EXCEPT !.budget.backlog = 1]

Scan_(prefix, after, delimiter) == [prefix |-> prefix, after |-> after, delimiter |-> delimiter]
Whole == { Scan_(<<>>, <<>>, 0), Scan_(<<>>, <<>>, 1) }
Part  == { Scan_(<<1>>, <<1, 1>>, 0), Scan_(<<1>>, <<>>, 2) }

\* Snapshots or merges; MCBothCases has the two together.
MCCases == { Pruning(Case(Six, Update, 2, 0, 0, {}, {})), Case(Six, Update, 1, 0, 1, Get, {}),
             Pruning(Case(Six, Create, 1, 0, 0, Get, {})), Case(Six, Create, 1, 0, 1, Get, {}),
             Case(Roomy, Refill, 0, 2, 1, Get, {}), Case(Roomy, Update, 0, 2, 1, Get, {}),
             Case(Six, Update, 1, 0, 0, {}, Whole), Case(Six, Create, 0, 0, 1, {}, Part),
             Case(Roomy, Refill, 0, 1, 1, {}, Whole),
             Case(Six, Shorten, 1, 0, 0, Longest_, {}), Case(Roomy, Shorten, 0, 1, 1, Longest_, {}) }
MCBothCases == { Case(Roomy, Refill, 1, 1, 1, {}, {}) }
===========================================================================
