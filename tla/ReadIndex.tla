----------------------------- MODULE ReadIndex -----------------------------
(***************************************************************************)
(* The read index a checkpoint publishes beside a frame: what point reads  *)
(* and scans may answer without loading the frame.  Pure operators.        *)
(*                                                                         *)
(* An index holds a stamp of the header it was built from, a bloom filter, *)
(* the crossings, the component prefixes of the keys, and the leaves in    *)
(* hash buckets, each with its value inline, in the value segment, or as   *)
(* an offset into the frame.  A checksum is modelled by the value itself.  *)
(***************************************************************************)
EXTENDS Visit

CONSTANTS
    Hash(_),            \* fnv64 of an exact key
    MinBuckets, MaxBuckets,
    InlineMax,          \* INLINE_VALUE_MAX
    MaxValues,          \* MAX_VALUE_BYTES
    MaxComponents,      \* MAX_COMPONENT_BYTES
    Delimiters          \* COMPONENT_DELIMITER_PRIORITY, a sequence

\* ReadIndexStamp::new.  times is compact_times; gap_space is always 0 here.
Stamp(f, times) ==
    [root |-> f.root, slots |-> Len(f.mem), used |-> f.used, times |-> times, dead |-> f.dead,
     tombs |-> f.tombs, epoch |-> f.epoch, routed |-> f.routed, unfit |-> f.unfit]

----------------------------------------------------------------------------
(* Building.                                                               *)

\* The live leaves and the crossings under a node, in the order of the walk;
\* a crossing carries the path from the root of the frame.
RECURSIVE IndexWalk(_, _, _)
IndexWalk(f, off, path) ==
    LET n == f.mem[off]
        order == ByteOrder(n.ch)
        Both(a, b) == [leaves |-> a.leaves \o b.leaves, crossings |-> a.crossings \o b.crossings]
        upto[i \in 0..Len(order)] ==
            IF i = 0 THEN [leaves |-> <<>>, crossings |-> <<>>]
            ELSE Both(upto[i - 1], IndexWalk(f, n.ch[order[i]], Append(path, order[i])))
    IN  CASE n.t = "EmptyRoot" \/ (n.t = "Leaf" /\ n.tomb) -> [leaves |-> <<>>, crossings |-> <<>>]
          [] n.t = "Leaf" /\ ~n.tomb ->
               [leaves |-> <<[key |-> n.key, val |-> n.val, seq |-> n.seq, off |-> off]>>,
                crossings |-> <<>>]
          [] n.t = "Prefix" -> IndexWalk(f, n.child, path \o n.bytes)
          [] n.t = "Blob" ->
               [leaves |-> <<>>, crossings |-> <<[prefix |-> path \o n.bytes, guid |-> n.guid]>>]
          [] OTHER -> upto[Len(order)]

\* pack_value_segments: the place of each value, given what the segment holds
\* already.
PlaceOf(val, filled) ==
    CASE ValLen[val] <= InlineMax -> [src |-> "Inline", at |-> 0, filled |-> filled]
      [] ValLen[val] > InlineMax /\ filled + ValLen[val] > MaxValues ->
           [src |-> "Blob", at |-> 0, filled |-> filled]
      [] OTHER -> [src |-> "Segment", at |-> filled, filled |-> filled + ValLen[val]]

PackValueSegments(leaves) ==
    LET upto[i \in 0..Len(leaves)] ==
            IF i = 0 THEN <<[src |-> "Inline", at |-> 0, filled |-> 0]>>
            ELSE Append(upto[i - 1], PlaceOf(leaves[i].val, Last(upto[i - 1]).filled))
    IN  Tail(upto[Len(leaves)])

CommonLeafPrefix(keys) ==
    LET first == CHOOSE k \in keys : TRUE
    IN  IF keys = {} THEN <<>>
        ELSE SubSeq(first, 1, Min({CommonPrefix(first, k) : k \in keys}))

ChooseBucketCount(n) ==
    Max({MinBuckets, Min({MaxBuckets, Min({2 ^ i : i \in {j \in 0..n : 2 ^ j >= n \div 4}})})})

BucketIdx(hash, count) == hash % count

\* encode_components: the prefixes of user keys up to and including a
\* delimiter inside the key.  A delimiter whose group does not fit is left out
\* as a whole.
ComponentGroup(keys, delimiter) ==
    UNION {{SubSeq(k, 1, i) : i \in {j \in 1..Len(k) - 1 : k[j] = delimiter}} : k \in keys}

EncodeComponents(keys) ==
    LET Bytes(group) == MapThenSumSet(LAMBDA c : 1 + Len(c), group)
        Added(prev, group) == IF prev.bytes + Bytes(group) > MaxComponents THEN prev
                              ELSE [bytes |-> prev.bytes + Bytes(group), set |-> prev.set \cup group]
        upto[i \in 0..Len(Delimiters)] ==
            IF i = 0 THEN [bytes |-> 0, set |-> {}]
            ELSE Added(upto[i - 1], ComponentGroup(keys, Delimiters[i]))
    IN  upto[Len(Delimiters)].set

\* One bucket: the entries whose hash falls in it.
EncodeBucket(leaves, places, base, count, b) ==
    {[hash   |-> Hash(leaves[i].key),
      suffix |-> SubSeq(leaves[i].key, Len(base) + 1, Len(leaves[i].key)),
      src    |-> places[i].src,
      at     |-> IF places[i].src = "Blob" THEN leaves[i].off ELSE places[i].at,
      crc    |-> leaves[i].val,
      seq    |-> leaves[i].seq] :
        i \in {j \in DOMAIN leaves : BucketIdx(Hash(leaves[j].key), count) = b}}

\* The value segment: what lies at each offset of it.
ValueSegment(leaves, places) ==
    {[at |-> places[i].at, val |-> leaves[i].val] :
        i \in {j \in DOMAIN leaves : places[j].src = "Segment"}}

ByLength(a, b) == Len(a.prefix) > Len(b.prefix)

Build(f, times) ==
    LET Encoded(w, places, keys, base, count) ==
            [stamp      |-> Stamp(f, times),
             bloom      |-> {Hash(k) : k \in keys},
             base       |-> base,
             crossings  |-> SortSeq(w.crossings, ByLength),
             components |-> EncodeComponents({UserKey(k) : k \in keys}),
             blocks     |-> [b \in 0..count - 1 |-> EncodeBucket(w.leaves, places, base, count, b)],
             values     |-> ValueSegment(w.leaves, places)]
        Walked(w) ==
            LET keys == {w.leaves[i].key : i \in DOMAIN w.leaves}
            IN  Encoded(w, PackValueSegments(w.leaves), keys, CommonLeafPrefix(keys),
                        ChooseBucketCount(Len(w.leaves)))
    IN  Walked(IndexWalk(f, f.root, <<>>))

----------------------------------------------------------------------------
(* Asking.                                                                 *)

KeyHasPrefixAtDepth(key, depth, prefix) ==
    depth + Len(prefix) <= Len(key) + 1 /\ RangeEq(SearchKey(key), depth, prefix)

\* The first crossing on the key's path, longest prefix first.
CrossingOf(index, key, depth) ==
    LET hits == {i \in DOMAIN index.crossings :
                   KeyHasPrefixAtDepth(key, depth, index.crossings[i].prefix)}
        c == index.crossings[Min(hits)]
    IN  IF hits = {} THEN NotFound
        ELSE [st |-> "Crossing", guid |-> c.guid, depth |-> depth + Len(c.prefix)]

MayHaveKey(index, key) == Hash(SearchKey(key)) \in index.bloom

HasIndexedLeaf(index) == \E b \in DOMAIN index.blocks : index.blocks[b] # {}

\* What a bucket says about the key.  An empty inline value is written as no
\* value at all and cannot be told from a damaged entry.
LookupLeafInBucket(index, block, key) ==
    LET hits == {e \in block : e.hash = Hash(SearchKey(key))
                                 /\ index.base \o e.suffix = SearchKey(key)}
        e == CHOOSE e \in hits : TRUE
    IN  IF hits = {} THEN [st |-> "None"]
        ELSE IF e.src = "Inline" /\ ValLen[e.crc] = 0 THEN [st |-> "Error"]
        ELSE [st |-> e.src, val |-> e.crc, at |-> e.at, seq |-> e.seq]

BucketOf(index, key) ==
    index.blocks[BucketIdx(Hash(SearchKey(key)), Cardinality(DOMAIN index.blocks))]

\* The answers of component_prefix_present and component_prefix_absent.
ComponentPrefixPresent(index, prefix) == \E c \in index.components : IsPrefix(prefix, c)

ComponentPrefixAbsent(index, prefix) ==
    /\ prefix # <<>>
    /\ Last(prefix) \in Range(Delimiters)
    /\ LET group == {c \in index.components : Last(c) = Last(prefix)}
       IN  group # {} /\ \A c \in group : ~IsPrefix(prefix, c)

\* Absence is only known when no crossing may lead to the prefix.
PrefixLiveness(index, prefix) ==
    LET base   == IF index.base # <<>> /\ Last(index.base) = 0 THEN UserKey(index.base)
                  ELSE index.base
        absent == IF index.crossings = <<>> THEN "Absent" ELSE "Unknown"
    IN  CASE ~HasIndexedLeaf(index) -> absent
          [] HasIndexedLeaf(index) /\ (prefix = <<>> \/ IsPrefix(prefix, base)) -> "Present"
          [] OTHER -> IF ~IsPrefix(base, prefix) THEN absent
                      ELSE IF ComponentPrefixPresent(index, prefix) THEN "Present"
                      ELSE IF ComponentPrefixAbsent(index, prefix) THEN absent
                      ELSE "Unknown"
=============================================================================
