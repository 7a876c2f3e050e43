----------------------------- MODULE MCColdRead -----------------------------
(***************************************************************************)
(* Histories of one child blob for TLC: the images a few writes and        *)
(* compactions lead it through.                                            *)
(***************************************************************************)
EXTENDS ColdRead

MCNodeSize == [EmptyRoot |-> 1, Leaf |-> 2, Prefix |-> 3, Blob |-> 3,
               Node4 |-> 1, Node16 |-> 2, Node48 |-> 3, Node256 |-> 4]
MCCapacity == [Node4 |-> 2, Node16 |-> 3, Node48 |-> 4, Node256 |-> 9]
\* An inline value, one for the segment, one that does not fit, none.
MCValLen == [a |-> 1, b |-> 2, c |-> 3, lost |-> 0]
MCHash(key) == Len(key) % 3
MCDelimiters == <<1, 2>>

Always == [kind |-> "Always", seq |-> 0]
Put_(k, v, s) == [kind |-> "Put", key |-> k, val |-> v, seq |-> s, cond |-> Always]
Del_(k, s) == [kind |-> "Del", key |-> k, val |-> "a", seq |-> s, cond |-> Always]
Compact == [kind |-> "Compact"]

\* The prefix is not itself a key.
MCReads == { [kind |-> "get", key |-> <<1, 1>>], [kind |-> "get", key |-> <<1, 2, 1>>],
             [kind |-> "get", key |-> <<1, 1, 2>>], [kind |-> "live", key |-> <<1, 2>>] }

\* The truth a caller is to be told.
Truth(f) ==
    [q \in MCReads |->
        LET r == LookupKey(f, q.key, 1)
            walk == IndexWalk(f, f.root, <<>>)
            below == \E i \in DOMAIN walk.leaves : IsPrefix(q.key, walk.leaves[i].key)
        IN  CASE q.kind = "live" ->
                   [st |-> IF below THEN "Present" ELSE IF walk.crossings = <<>> THEN "Absent" ELSE "Unknown"]
              [] q.kind = "get" /\ r.st = "Found" -> [st |-> "Found", val |-> r.val, seq |-> r.seq]
              [] q.kind = "get" /\ r.st = "Crossing" -> [st |-> "Crossing", guid |-> r.guid, depth |-> r.depth]
              [] OTHER -> NotFound]

\* Functions are combined with the empty one so that TLC computes them once.
ImageOf(f, times) ==
    LET i == Build(f, times)
    IN  [f |-> f, stamp |-> Stamp(f, times), index |-> [i EXCEPT !.blocks = @ @@ <<>>],
         truth |-> Truth(f) @@ <<>>]

\* The frames after each operation of a script; a spill compacts too.
Frames(script) ==
    LET Changed(p, v) == [f |-> v.f, times |-> p.times + IF v.kids = <<>> THEN 0 ELSE 1]
        After(p, op) == IF op = Compact THEN [f |-> CompactBlob(p.f).f, times |-> p.times + 1]
                        ELSE Changed(p, InBlob(p.f, op, 1, 2, 1))
        upto[i \in 0..Len(script)] ==
            IF i = 0 THEN <<[f |-> EmptyFrame(0), times |-> 0]>>
            ELSE LET prev == upto[i - 1] IN Append(prev, After(Last(prev), script[i]))
    IN  upto[Len(script)]

\* The last three images of a script.
History(script) ==
    LET Images(fs) == [i \in 1..3 |-> ImageOf(fs[Len(fs) - 3 + i].f, fs[Len(fs) - 3 + i].times)]
    IN  Images(Frames(script)) @@ <<>>

Fill == <<Put_(<<1, 1>>, "a", 1), Put_(<<1, 2, 2>>, "b", 2), Put_(<<1, 2, 1>>, "b", 3),
          Put_(<<1, 1, 2>>, "c", 4)>>
Over == Put_(<<1, 1, 1>>, "b", 5)

\* An overwrite in place, which no stamp shows, and a deletion; a spill that
\* leaves a crossing; the last keys under a prefix, one of them compacted
\* away.
MCScripts ==
    { Fill \o <<Compact, Put_(<<1, 2, 1>>, "b", 6), Del_(<<1, 1>>, 7)>>,
      Fill \o <<Over, Put_(<<1, 2, 1>>, "c", 6)>>,
      Fill \o <<Del_(<<1, 2, 2>>, 6), Compact, Del_(<<1, 2, 1>>, 7)>> }
=============================================================================
