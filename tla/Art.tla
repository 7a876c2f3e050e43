-------------------------------- MODULE Art --------------------------------
(***************************************************************************)
(* The adaptive radix tree inside one blob frame, as pure operators.       *)
(*                                                                         *)
(* A frame is a heap of node bodies: the sequence mem, addressed by        *)
(* position where the code addresses bodies by byte offset.  Bodies are    *)
(* only ever appended (the bump allocator) or overwritten in place; a body *)
(* no edge reaches stays until the frame is rebuilt.  The header fields    *)
(* that decide anything are kept: root, used (space_used), dead            *)
(* (dead_bytes), tombs (tombstone_leaf_cnt), ext (num_ext_blobs), routed   *)
(* (routing_len # 0) and epoch (created_epoch); num_slots is Len(mem).     *)
(*                                                                         *)
(* Sizes are in arbitrary units given by the constants.  Bytes of a key    *)
(* are positive; the terminator every stored key ends in is 0.             *)
(***************************************************************************)
EXTENDS Integers, Sequences, FiniteSets, SequencesExt, FiniteSetsExt

CONSTANTS
    NodeSize,       \* [node type -> units]; "Leaf" is the leaf's fixed part
    Capacity,       \* [inner node type -> children it holds]
    ValLen,         \* [value -> units the value takes in a leaf]
    PageSize,       \* units of a frame's data area
    MaxSlots,       \* MAX_SLOTS
    Reservation,    \* SPILLOVER_RESERVATION, kept for a BlobNode
    PrefixMaxInline,\* PREFIX_MAX_INLINE
    RouteMinLeaf,   \* ROUTE_MIN_LEAF_BYTES
    RoutePage,      \* PAGE_4K, the alignment of the leaf arena
    DeadLimit,      \* DEAD_BYTES_COMPACT_THRESHOLD
    MergeReserve,   \* MERGE_RESERVE
    MinFill,        \* spillover_min_child_bytes()
    TargetFill,     \* spillover_target_child_bytes()
    Slash           \* the byte '/'

InnerTypes == <<"Node4", "Node16", "Node48", "Node256">>
IsInner(node) == node.t \in Range(InnerTypes)

----------------------------------------------------------------------------
(* Search keys: the terminator is virtual on the way down, stored in the   *)
(* leaf.                                                                    *)

SearchKey(k) == Append(k, 0)
UserKey(key) == Front(key)

Tail_(key, depth) == SubSeq(key, depth + 1, Len(key))

CommonPrefix(a, b) ==
    Max({n \in 0..Min({Len(a), Len(b)}) : SubSeq(a, 1, n) = SubSeq(b, 1, n)})

\* The bytes of the edge match the key at depth.
RangeEq(key, depth, bytes) == IsPrefix(bytes, Tail_(key, depth))

ByteAt(key, depth) == key[depth + 1]

----------------------------------------------------------------------------
(* The allocator.  A write is an operator from an allocation cursor        *)
(* [f, off, err, leaf] to the next one: after a miss the later writes do   *)
(* nothing, and what was appended before it stays appended.  leaf is 0, or *)
(* the next free place of the leaf arena while a routed layout is built.   *)

SizeOf(node) == NodeSize[node.t] + IF node.t = "Leaf" THEN ValLen[node.val] ELSE 0

EmptyFrame(epoch) ==
    [mem |-> <<[t |-> "EmptyRoot"]>>, root |-> 1, used |-> NodeSize["EmptyRoot"],
     dead |-> 0, tombs |-> 0, ext |-> 0, routed |-> FALSE, unfit |-> FALSE,
     epoch |-> epoch]

Cursor(f) == [f |-> f, off |-> 0, err |-> "none", leaf |-> 0]

Avail(f, node) ==
    IF node.t = "Blob" THEN PageSize - f.used ELSE (PageSize - f.used) - Reservation

Alloc(c, node) ==
    CASE c.err # "none" -> c
      [] Len(c.f.mem) >= MaxSlots -> [c EXCEPT !.err = "slots"]
      [] Avail(c.f, node) < SizeOf(node) -> [c EXCEPT !.err = "space"]
      [] OTHER ->
           [c EXCEPT !.f = [@ EXCEPT !.mem = Append(@, node), !.used = @ + SizeOf(node),
                                     !.routed = FALSE,
                                     !.ext = @ + (IF node.t = "Blob" THEN 1 ELSE 0)],
                     !.off = Len(c.f.mem) + 1]

\* alloc_leaf_at: the leaf arena has its own cursor, used does not move.
AllocLeafAt(c, node) ==
    CASE c.err # "none" -> c
      [] Len(c.f.mem) >= MaxSlots -> [c EXCEPT !.err = "slots"]
      [] c.leaf + SizeOf(node) > PageSize - Reservation -> [c EXCEPT !.err = "space"]
      [] OTHER -> [c EXCEPT !.f.mem = Append(@, node), !.leaf = @ + SizeOf(node),
                            !.off = Len(c.f.mem) + 1]

\* write_struct_at: overwrite a body in place.
Put(f, off, node) == [f EXCEPT !.mem[off] = node]

NoteAbandoned(f, off) == [f EXCEPT !.dead = @ + SizeOf(f.mem[off])]

Abandon(c, off) == IF c.err = "none" THEN [c EXCEPT !.f = NoteAbandoned(@, off)] ELSE c

Leaf(key, val, seq) == [t |-> "Leaf", key |-> key, val |-> val, seq |-> seq, tomb |-> FALSE]

WriteLeaf(c, key, val, seq) == Alloc(c, Leaf(key, val, seq))

WriteNode4(c, children) == Alloc(c, [t |-> "Node4", ch |-> children])

\* A chain of Prefix nodes over bytes, built from the child end.
RECURSIVE WritePrefixChain(_, _, _)
WritePrefixChain(c, bytes, child) ==
    IF bytes = <<>> THEN [c EXCEPT !.off = child]
    ELSE LET n == Len(bytes) - Min({Len(bytes), PrefixMaxInline})
             Above(p) == IF p.err # "none" THEN p
                         ELSE WritePrefixChain(p, SubSeq(bytes, 1, n), p.off)
         IN  Above(Alloc(c, [t |-> "Prefix", bytes |-> SubSeq(bytes, n + 1, Len(bytes)),
                             child |-> child]))

WithChild(ch, byte, off) == [b \in DOMAIN ch \cup {byte} |-> IF b = byte THEN off ELSE ch[b]]

Bigger(t) == InnerTypes[Min({Len(InnerTypes),
                             1 + CHOOSE i \in DOMAIN InnerTypes : InnerTypes[i] = t})]

\* A full inner node is copied to the next larger kind and abandoned.
RECURSIVE InnerAddChild(_, _, _, _)
InnerAddChild(c, off, byte, child) ==
    IF c.err # "none" THEN c
    ELSE LET n == c.f.mem[off]
         IN  IF Cardinality(DOMAIN n.ch) < Capacity[n.t]
             THEN [c EXCEPT !.f = Put(@, off, [n EXCEPT !.ch = WithChild(n.ch, byte, child)]),
                            !.off = off]
             ELSE LET Grown(g) == InnerAddChild(Abandon(g, off), g.off, byte, child)
                  IN  Grown(Alloc(c, [n EXCEPT !.t = Bigger(n.t)]))

InnerUpdateChild(f, off, byte, child) ==
    Put(f, off, [f.mem[off] EXCEPT !.ch = WithChild(@, byte, child)])

SetPrefixChild(f, off, child) == Put(f, off, [f.mem[off] EXCEPT !.child = child])

RepointBlobNode(f, off, guid) == Put(f, off, [f.mem[off] EXCEPT !.guid = guid])

----------------------------------------------------------------------------
(* Lookup inside one frame: a leaf, nothing, or the crossing to a child    *)
(* blob.                                                                    *)

NotFound == [st |-> "NotFound"]
Crossing(guid, depth, parent) ==
    [st |-> "Crossing", guid |-> guid, depth |-> depth, parent |-> parent]

LeafCheck(node, key) ==
    IF ~node.tomb /\ node.key = key
    THEN [st |-> "Found", val |-> node.val, seq |-> node.seq] ELSE NotFound

BlobDescend(node, off, key, depth) ==
    IF RangeEq(key, depth, node.bytes)
    THEN Crossing(node.guid, depth + Len(node.bytes), off) ELSE NotFound

HasChild(node, key, depth) == depth < Len(key) /\ ByteAt(key, depth) \in DOMAIN node.ch

RECURSIVE Descend(_, _, _, _)
PrefixDescend(f, node, key, depth) ==
    IF RangeEq(key, depth, node.bytes)
    THEN Descend(f, node.child, key, depth + Len(node.bytes)) ELSE NotFound

InnerDescend(f, node, key, depth) ==
    IF HasChild(node, key, depth)
    THEN Descend(f, node.ch[ByteAt(key, depth)], key, depth + 1) ELSE NotFound

Descend(f, off, key, depth) ==
    LET n == f.mem[off]
    IN  CASE n.t = "EmptyRoot" -> NotFound
          [] n.t = "Leaf" -> LeafCheck(n, key)
          [] n.t = "Prefix" -> PrefixDescend(f, n, key, depth)
          [] n.t = "Blob" -> BlobDescend(n, off, key, depth)
          [] OTHER -> InnerDescend(f, n, key, depth)

LookupAt(f, key, depth) == Descend(f, f.root, key, depth)

(* The walk along a user key q for the keys that begin it.  walk collects  *)
(* the records met, the crossings under which a shorter key is to be looked *)
(* up, and the crossing at which the walk leaves the frame, if it does.    *)

\* update_longest_prefix_leaf
LeafBegins(node, q, walk) ==
    IF node.tomb \/ ~IsPrefix(UserKey(node.key), q) THEN walk
    ELSE [walk EXCEPT !.hits = @ \cup {[key |-> UserKey(node.key), val |-> node.val,
                                        seq |-> node.seq]}]

\* update_terminator_candidate_at: the key that ends at this node.
TerminatorBegins(f, node, q, depth, walk) ==
    LET key == SubSeq(q, 1, depth)
        x   == IF 0 \in DOMAIN node.ch /\ depth <= Len(q)
               THEN Descend(f, node.ch[0], SearchKey(key), depth + 1) ELSE NotFound
    IN  CASE x.st = "Found" ->
               [walk EXCEPT !.hits = @ \cup {[key |-> key, val |-> x.val, seq |-> x.seq]}]
          [] x.st = "Crossing" ->
               [walk EXCEPT !.exact = Append(@, [key |-> key, guid |-> x.guid,
                                                 depth |-> x.depth])]
          [] OTHER -> walk

\* longest_prefix_through_node4 and its siblings: the key that ends here, then
\* the child the query goes on to, if it has one.
ThroughInner(f, node, q, depth, walk) ==
    [walk |-> TerminatorBegins(f, node, q, depth, walk),
     next |-> IF HasChild(node, q, depth) THEN {node.ch[ByteAt(q, depth)]} ELSE {}]

\* longest_prefix_at
RECURSIVE LongestFrom(_, _, _, _, _)
AlongInner(f, step, q, depth) ==
    IF step.next = {} THEN step.walk
    ELSE LongestFrom(f, CHOOSE off \in step.next : TRUE, q, depth + 1, step.walk)

LongestFrom(f, off, q, depth, walk) ==
    LET n  == f.mem[off]
        to == BlobDescend(n, off, SearchKey(q), depth)
    IN  CASE n.t = "EmptyRoot" -> walk
          [] n.t = "Leaf" -> LeafBegins(n, q, walk)
          [] n.t = "Prefix" ->
               IF RangeEq(SearchKey(q), depth, n.bytes)
               THEN LongestFrom(f, n.child, q, depth + Len(n.bytes), walk) ELSE walk
          [] n.t = "Blob" -> [walk EXCEPT !.x = to]
          [] OTHER -> AlongInner(f, ThroughInner(f, n, q, depth, walk), q, depth)

LongestPrefixAt(f, q, depth) ==
    LongestFrom(f, f.root, q, depth, [hits |-> {}, exact |-> <<>>, x |-> NotFound])

----------------------------------------------------------------------------
(* Insert inside one frame.  The result is done (with the offset the       *)
(* parent must now point at), a crossing, or the allocation miss; f is the *)
(* frame as the attempt leaves it in every case.                           *)

Unmutated(f, off) == [st |-> "done", f |-> f, off |-> off, mutated |-> FALSE]

\* The end of an attempt that wrote through an allocation cursor.
Written(c) ==
    IF c.err = "none" THEN [st |-> "done", f |-> c.f, off |-> c.off, mutated |-> TRUE]
    ELSE [st |-> c.err, f |-> c.f]

IsIfVersion(cond) == cond.kind = "IfVersion"

\* A live record passes the guard of an update.
CondHolds(cond, leaf) ==
    \/ cond.kind = "Always"
    \/ IsIfVersion(cond) /\ cond.seq = leaf.seq

InsertIntoEmptyRoot(f, off, op) ==
    IF IsIfVersion(op.cond) THEN Unmutated(f, off)
    ELSE Written(Abandon(WriteLeaf(Cursor(f), op.key, op.val, op.seq), off))

\* A resurrected leaf is no longer counted as a tombstone.
Uncount(f, leaf) == IF leaf.tomb THEN [f EXCEPT !.tombs = Max({@ - 1, 0})] ELSE f

InsertSameKey(f, off, op) ==
    LET old == f.mem[off]
        new == Leaf(op.key, op.val, op.seq)
        Grown(c) == IF c.err # "none" THEN c ELSE [c EXCEPT !.f = Uncount(@, old)]
    IN  CASE ~old.tomb /\ ~CondHolds(op.cond, old) -> Unmutated(f, off)
          [] old.tomb /\ IsIfVersion(op.cond) -> Unmutated(f, off)
          [] SizeOf(new) <= SizeOf(old) ->
               [st |-> "done", f |-> Uncount(Put(f, off, new), old), off |-> off,
                mutated |-> TRUE]
          [] OTHER ->
               Written(Grown(Abandon(WriteLeaf(Cursor(f), op.key, op.val, op.seq), off)))

\* Two branches below the bytes they share; the cursor is at the new leaf.
WriteLeafSplit(c, shared, old, oldOff, new) ==
    LET Above(n4) == IF n4.err # "none" THEN n4 ELSE WritePrefixChain(n4, shared, n4.off)
    IN  IF c.err # "none" THEN c ELSE Above(WriteNode4(c, (old :> oldOff) @@ (new :> c.off)))

InsertIntoLeaf(f, off, op, depth) ==
    LET old == Tail_(f.mem[off].key, depth)
        n   == CommonPrefix(Tail_(op.key, depth), old)
    IN  CASE f.mem[off].key = op.key -> InsertSameKey(f, off, op)
          [] n = Len(old) \/ n = Len(op.key) - depth -> [st |-> "nyi", f |-> f]
          [] IsIfVersion(op.cond) -> Unmutated(f, off)
          [] OTHER -> Written(WriteLeafSplit(WriteLeaf(Cursor(f), op.key, op.val, op.seq),
                                             SubSeq(old, 1, n), old[n + 1], off,
                                             ByteAt(op.key, depth + n)))

\* What the child's step answers, about the node at off.
Below(r, off) == IF r.st = "done" THEN [r EXCEPT !.off = off] ELSE r

RECURSIVE InsertStep(_, _, _, _)
InsertIntoPrefix(f, off, op, depth) ==
    LET p == f.mem[off]
        n == CommonPrefix(Tail_(op.key, depth), p.bytes)
        Rewired(r) == IF r.st = "done" /\ r.off # p.child
                      THEN [r EXCEPT !.f = SetPrefixChild(@, off, r.off)] ELSE r
        Split(tail) == WriteLeafSplit(WriteLeaf(tail, op.key, op.val, op.seq),
                                      SubSeq(p.bytes, 1, n), p.bytes[n + 1], tail.off,
                                      ByteAt(op.key, depth + n))
    IN  CASE n = Len(p.bytes) -> Below(Rewired(InsertStep(f, p.child, op, depth + n)), off)
          [] n < Len(p.bytes) /\ depth + n >= Len(op.key) -> [st |-> "nyi", f |-> f]
          [] n < Len(p.bytes) /\ IsIfVersion(op.cond) -> Unmutated(f, off)
          [] OTHER -> Written(Abandon(Split(WritePrefixChain(Cursor(f),
                          SubSeq(p.bytes, n + 2, Len(p.bytes)), p.child)), off))

InsertIntoInner(f, off, op, depth) ==
    LET n == f.mem[off]
        byte == ByteAt(op.key, depth)
        Rewired(r) == IF r.st = "done" /\ r.off # n.ch[byte]
                      THEN [r EXCEPT !.f = InnerUpdateChild(@, off, byte, r.off)] ELSE r
        Added(leaf) == InnerAddChild(leaf, off, byte, leaf.off)
    IN  CASE depth >= Len(op.key) -> [st |-> "nyi", f |-> f]
          [] HasChild(n, op.key, depth) ->
               Below(Rewired(InsertStep(f, n.ch[byte], op, depth + 1)), off)
          [] ~HasChild(n, op.key, depth) /\ IsIfVersion(op.cond) -> Unmutated(f, off)
          [] OTHER -> Written(Added(WriteLeaf(Cursor(f), op.key, op.val, op.seq)))

\* The BlobNode keeps its place and loses the bytes the new branch consumes;
\* it is rewritten only after every allocation has succeeded.
InsertIntoBlob(f, off, op, depth) ==
    LET b == f.mem[off]
        n == CommonPrefix(Tail_(op.key, depth), b.bytes)
        Cut(top) == IF top.err # "none" THEN top
                    ELSE [top EXCEPT !.f = Put(@, off,
                             [b EXCEPT !.bytes = SubSeq(@, n + 2, Len(@))])]
    IN  CASE n = Len(b.bytes) -> Crossing(b.guid, depth + n, off) @@ [f |-> f]
          [] n < Len(b.bytes) /\ depth + n >= Len(op.key) -> [st |-> "nyi", f |-> f]
          [] n < Len(b.bytes) /\ IsIfVersion(op.cond) -> Unmutated(f, off)
          [] OTHER -> Written(Cut(WriteLeafSplit(WriteLeaf(Cursor(f), op.key, op.val, op.seq),
                                                 SubSeq(b.bytes, 1, n), b.bytes[n + 1], off,
                                                 ByteAt(op.key, depth + n))))

InsertStep(f, off, op, depth) ==
    CASE f.mem[off].t = "EmptyRoot" -> InsertIntoEmptyRoot(f, off, op)
      [] f.mem[off].t = "Leaf" -> InsertIntoLeaf(f, off, op, depth)
      [] f.mem[off].t = "Prefix" -> InsertIntoPrefix(f, off, op, depth)
      [] f.mem[off].t = "Blob" -> InsertIntoBlob(f, off, op, depth)
      [] OTHER -> InsertIntoInner(f, off, op, depth)

----------------------------------------------------------------------------
(* Erase inside one frame: a soft delete.  The leaf keeps its place, so no *)
(* parent is rewired.                                                       *)

EraseAtLeaf(f, off, op) ==
    LET leaf == f.mem[off]
    IN  IF leaf.key # op.key \/ leaf.tomb \/ (IsIfVersion(op.cond) /\ leaf.seq # op.cond.seq)
        THEN Unmutated(f, off)
        ELSE [st |-> "done", mutated |-> TRUE, off |-> off,
              f |-> [Put(f, off, [leaf EXCEPT !.tomb = TRUE]) EXCEPT !.tombs = @ + 1]]

EraseAtBlob(f, off, op, depth) ==
    IF RangeEq(op.key, depth, f.mem[off].bytes)
    THEN Crossing(f.mem[off].guid, depth + Len(f.mem[off].bytes), off) @@ [f |-> f]
    ELSE Unmutated(f, off)

RECURSIVE EraseStep(_, _, _, _)
EraseAtPrefix(f, off, op, depth) ==
    IF RangeEq(op.key, depth, f.mem[off].bytes)
    THEN Below(EraseStep(f, f.mem[off].child, op, depth + Len(f.mem[off].bytes)), off)
    ELSE Unmutated(f, off)

EraseAtInner(f, off, op, depth) ==
    IF HasChild(f.mem[off], op.key, depth)
    THEN Below(EraseStep(f, f.mem[off].ch[ByteAt(op.key, depth)], op, depth + 1), off)
    ELSE Unmutated(f, off)

EraseStep(f, off, op, depth) ==
    CASE f.mem[off].t = "EmptyRoot" -> Unmutated(f, off)
      [] f.mem[off].t = "Leaf" -> EraseAtLeaf(f, off, op)
      [] f.mem[off].t = "Prefix" -> EraseAtPrefix(f, off, op, depth)
      [] f.mem[off].t = "Blob" -> EraseAtBlob(f, off, op, depth)
      [] OTHER -> EraseAtInner(f, off, op, depth)

----------------------------------------------------------------------------
(* Cloning a subtree into another frame.  The cursor comes back at the     *)
(* clone, or at 0 when filtering left nothing of the subtree.              *)

\* Bytes in the order the code visits them.
ByteOrder(ch) == SetToSortSeq(DOMAIN ch, <)

\* The smallest inner node that holds n children.
KindFor(n) ==
    InnerTypes[Min({i \in DOMAIN InnerTypes : n <= Capacity[InnerTypes[i]]})]

PackInnerNode(c, ch) ==
    CASE c.err # "none" -> c
      [] DOMAIN ch = {} -> [c EXCEPT !.off = 0]
      [] Cardinality(DOMAIN ch) = 1 ->
           LET b == CHOOSE b \in DOMAIN ch : TRUE IN WritePrefixChain(c, <<b>>, ch[b])
      [] OTHER -> Alloc(c, [t |-> KindFor(Cardinality(DOMAIN ch)), ch |-> ch])

CloneLeaf(c, leaf, filter) ==
    CASE filter /\ leaf.tomb -> [c EXCEPT !.off = 0]
      [] c.leaf # 0 -> AllocLeafAt(c, leaf)
      [] OTHER -> Alloc(c, leaf)

RECURSIVE CloneSubtree(_, _, _, _)
ClonePrefix(src, p, c, filter) ==
    LET Above(d) == IF d.err # "none" \/ d.off = 0 THEN d ELSE Alloc(d, [p EXCEPT !.child = d.off])
    IN  Above(CloneSubtree(src, p.child, c, filter))

CloneInner(src, n, c, filter) ==
    LET order == ByteOrder(n.ch)
        With(prev, d, b) == [c |-> d, ch |-> IF d.off = 0 THEN prev.ch
                                             ELSE prev.ch @@ (b :> d.off)]
        Cloned(prev, b) == With(prev, CloneSubtree(src, n.ch[b], prev.c, filter), b)
        upto[i \in 0..Len(order)] ==
            IF i = 0 THEN [c |-> c, ch |-> <<>>] ELSE Cloned(upto[i - 1], order[i])
        Packed(all) == IF filter THEN PackInnerNode(all.c, all.ch)
                       ELSE Alloc(all.c, [n EXCEPT !.ch = all.ch])
    IN  Packed(upto[Len(order)])

CloneSubtree(src, off, c, filter) ==
    LET n == src.mem[off]
    IN  CASE c.err # "none" -> c
          [] n.t = "Leaf" -> CloneLeaf(c, n, filter)
          [] n.t \in {"EmptyRoot", "Blob"} -> Alloc(c, n)
          [] n.t = "Prefix" -> ClonePrefix(src, n, c, filter)
          [] OTHER -> CloneInner(src, n, c, filter)

----------------------------------------------------------------------------
(* Compaction: rebuild the frame without tombstones and unreachable bodies.*)

\* Pass 0: what a filtering clone will take, or none when nothing survives.
PackedInnerSize(n) == IF n = 1 THEN NodeSize["Prefix"] ELSE NodeSize[KindFor(n)]

Nothing == [routing |-> -1, leaf |-> 0]

RECURSIVE RoutingBudget(_, _)
BudgetInner(src, ch) ==
    LET all  == {[byte |-> b, sum |-> RoutingBudget(src, ch[b])] : b \in DOMAIN ch}
        kept == {c \in all : c.sum # Nothing}
    IN  IF kept = {} THEN Nothing
        ELSE [routing |-> PackedInnerSize(Cardinality(kept))
                            + MapThenSumSet(LAMBDA c : c.sum.routing, kept),
              leaf    |-> MapThenSumSet(LAMBDA c : c.sum.leaf, kept)]

RoutingBudget(src, off) ==
    LET n == src.mem[off]
    IN  CASE n.t = "Leaf" -> IF n.tomb THEN Nothing ELSE [routing |-> 0, leaf |-> SizeOf(n)]
          [] n.t \in {"EmptyRoot", "Blob"} -> [routing |-> SizeOf(n), leaf |-> 0]
          [] n.t = "Prefix" ->
               LET Above(b) == IF b = Nothing THEN b ELSE [b EXCEPT !.routing = @ + SizeOf(n)]
               IN  Above(RoutingBudget(src, n.child))
          [] OTHER -> BudgetInner(src, n.ch)

AlignUp(n) == ((n + RoutePage - 1) \div RoutePage) * RoutePage

\* leaf_region_start, or 0 for the legacy layout.
RoutingGeometry(budget) ==
    LET lrs == AlignUp(NodeSize["EmptyRoot"] + budget.routing)
    IN  IF \/ budget.routing <= 0
           \/ budget.leaf < RouteMinLeaf
           \/ lrs + budget.leaf + Reservation > PageSize
        THEN 0 ELSE lrs

BlobWouldRoute(f) ==
    ~f.routed /\ ~f.unfit /\ RoutingGeometry(RoutingBudget(f, f.root)) # 0

BlobNeedsCompaction(f) == f.tombs # 0 \/ f.dead >= DeadLimit

\* The clone of the live subtree at the given leaf_region_start.
Rebuild(f, lrs) ==
    CloneSubtree(f, f.root, [Cursor(EmptyFrame(f.epoch)) EXCEPT !.leaf = lrs], TRUE)

\* The cursor of the rebuilt frame, err telling whether it fitted.  A routed
\* build whose inner nodes overrun the leaf arena is redone in legacy layout.
CompactBlob(f) ==
    LET Finish(c, lrs, overran) ==
            IF c.err # "none" THEN c
            ELSE [c EXCEPT !.f.root = IF c.off = 0 THEN 1 ELSE c.off,
                           !.f.routed = lrs # 0 /\ ~overran,
                           !.f.used = IF lrs # 0 /\ ~overran THEN c.leaf ELSE @,
                           !.f.unfit = overran]
        First(c, lrs) ==
            IF lrs # 0 /\ c.err = "none" /\ c.f.used > lrs THEN Finish(Rebuild(f, 0), lrs, TRUE)
            ELSE Finish(c, lrs, FALSE)
        At(lrs) == First(Rebuild(f, lrs), lrs)
    IN  At(RoutingGeometry(RoutingBudget(f, f.root)))

----------------------------------------------------------------------------
(* Spillover: a subtree moves to a fresh child blob behind a BlobNode.     *)

RECURSIVE Footprint(_, _)
Footprint(f, off) ==
    LET n == f.mem[off]
        below == CASE n.t = "Prefix" -> {n.child}
                   [] IsInner(n) -> {n.ch[b] : b \in DOMAIN n.ch}
                   [] OTHER -> {}
        Sum(sums) == [nodes |-> 1 + MapThenSumSet(LAMBDA s : s.sum.nodes, sums),
                      bytes |-> SizeOf(n) + MapThenSumSet(LAMBDA s : s.sum.bytes, sums)]
    IN  Sum({[off |-> o, sum |-> Footprint(f, o)] : o \in below})

InBand(v) == v.bytes \in MinFill..TargetFill
Distance(v) == IF v.bytes > TargetFill THEN v.bytes - TargetFill ELSE TargetFill - v.bytes

\* candidate_tie: the better score, then a '/' boundary, then the shallower
\* edge, then the larger subtree.
CandidateTie(c, b, cScore, bScore) ==
    CASE cScore # bScore -> cScore < bScore
      [] c.slash # b.slash -> c.slash
      [] c.depth # b.depth -> c.depth < b.depth
      [] OTHER -> c.nodes > b.nodes

CandidateIsBetter(c, b) ==
    CASE InBand(c) # InBand(b) -> InBand(c)
      [] InBand(c) /\ c.slash # b.slash -> c.slash
      [] c.bytes < MinFill /\ b.bytes < MinFill -> CandidateTie(c, b, b.bytes, c.bytes)
      [] c.bytes > TargetFill /\ b.bytes > TargetFill -> CandidateTie(c, b, c.bytes, b.bytes)
      [] OTHER -> CandidateTie(c, b, Distance(c), Distance(b))

NoVictim == [off |-> 0]

\* The best edge below off, given the best one met before.  byte is -1 on
\* the edge of a Prefix.
RECURSIVE PickVictim(_, _, _, _)
VisitChildEdge(f, parent, byte, child, slash, depth, best) ==
    LET Better(v) == IF best = NoVictim \/ CandidateIsBetter(v, best) THEN v ELSE best
        Seen(size) ==
            LET pick == Better([off |-> child, parent |-> parent, byte |-> byte, slash |-> slash,
                                depth |-> depth, nodes |-> size.nodes, bytes |-> size.bytes])
            IN  IF size.bytes > TargetFill THEN PickVictim(f, child, depth, pick) ELSE pick
    IN  IF f.mem[child].t = "Blob" THEN best ELSE Seen(Footprint(f, child))

PickVictim(f, off, depth, best) ==
    LET n == f.mem[off]
        order == ByteOrder(n.ch)
        upto[i \in 0..Len(order)] ==
            IF i = 0 THEN best
            ELSE VisitChildEdge(f, off, order[i], n.ch[order[i]], order[i] = Slash, depth + 1,
                                upto[i - 1])
    IN  CASE n.t = "Prefix" -> VisitChildEdge(f, off, -1, n.child, Last(n.bytes) = Slash,
                                              depth + Len(n.bytes), best)
          [] IsInner(n) -> upto[Len(order)]
          [] OTHER -> best

AbandonSubtree(f, off) == [f EXCEPT !.dead = @ + Footprint(f, off).bytes]

\* make_blob_from_node: tombstones travel with the subtree.
MakeBlobFromNode(f, off) ==
    LET Rooted(c) == [c EXCEPT !.f.root = c.off]
    IN  Rooted(CloneSubtree(f, off, Cursor(EmptyFrame(0)), FALSE))

\* Point the victim's edge at the BlobNode.
RewireVictim(f, v, off) ==
    IF v.byte = -1 THEN SetPrefixChild(f, v.parent, off)
    ELSE InnerUpdateChild(f, v.parent, v.byte, off)

\* Both images are prepared aside: a failure leaves the frame as it was.
SpilloverBlob(f, guid) ==
    LET Fails(err) == [err |-> err, f |-> f]
        Repacked(c, child) == IF c.err # "none" THEN Fails(c.err)
                              ELSE [err |-> "none", f |-> c.f, child |-> child.f]
        Edge(v, child, node) ==
            IF node.err # "none" THEN Fails(node.err)
            ELSE Repacked(CompactBlob(RewireVictim(node.f, v, node.off)), child)
        Moved(v, child) ==
            IF child.err # "none" THEN Fails(child.err)
            ELSE Edge(v, child, Alloc(Cursor(AbandonSubtree(f, v.off)),
                                      [t |-> "Blob", bytes |-> <<>>, guid |-> guid]))
        Picked(v) == IF v = NoVictim THEN Fails("nyi") ELSE Moved(v, MakeBlobFromNode(f, v.off))
    IN  Picked(PickVictim(f, f.root, 0, NoVictim))

----------------------------------------------------------------------------
(* What a frame holds.                                                     *)

\* The offsets an edge of the frame reaches, and the guids behind them.
RECURSIVE Under(_, _)
Under(f, off) ==
    LET n == f.mem[off]
    IN  {off} \cup CASE n.t = "Prefix" -> Under(f, n.child)
                     [] IsInner(n) -> UNION {Under(f, n.ch[b]) : b \in DOMAIN n.ch}
                     [] OTHER -> {}

Edges(f) == {f.mem[o].guid : o \in {p \in Under(f, f.root) : f.mem[p].t = "Blob"}}

----------------------------------------------------------------------------
(* Merge: the inverse of spillover.  fs holds the frames by guid.          *)

SnapshotShared(f, barrier) == barrier # 0 /\ f.epoch <= barrier

IsMergeable(f, child, barrier) ==
    /\ ~SnapshotShared(child, barrier)
    /\ child.used <= (PageSize - f.used) - MergeReserve
    /\ Len(f.mem) + Len(child.mem) <= MaxSlots
    /\ child.ext = 0
    /\ child.tombs = 0

\* The clone of the child behind the BlobNode's own bytes.
MergeBlob(f, off, child) ==
    LET Under_(c) == IF c.err # "none" THEN c ELSE WritePrefixChain(c, f.mem[off].bytes, c.off)
    IN  Under_(CloneSubtree(child, child.root, Cursor([f EXCEPT !.routed = FALSE]), FALSE))

\* Bug: the crossing is gone but still counted.
FinalizeBlobMergeUncounted(f, off) == NoteAbandoned(f, off)

\* The BlobNode is abandoned once its edge points at the clone.
FinalizeBlobMerge(f, off) == [NoteAbandoned(f, off) EXCEPT !.ext = Max({@ - 1, 0})]

MergeAtBlobNode(fs, m, off, barrier) ==
    LET guid == m.f.mem[off].guid
        Merged(c) == [m EXCEPT !.f = c.f, !.off = c.off, !.err = c.err]
    IN  IF guid \notin DOMAIN fs THEN [m EXCEPT !.off = off]
        ELSE IF ~IsMergeable(m.f, fs[guid], barrier) THEN [m EXCEPT !.off = off]
        ELSE Merged(MergeBlob(m.f, off, fs[guid]))

RECURSIVE TryMergeSubtree(_, _, _, _)
\* The edge owner rewires a merged child and only then lets the child go.
MergeUnder(fs, m, off, byte, child, barrier) ==
    LET Rewired(r) == IF byte = -1 THEN SetPrefixChild(r.f, off, r.off)
                      ELSE InnerUpdateChild(r.f, off, byte, r.off)
        Merged(r) ==
            IF r.err # "none" \/ r.off = child THEN [r EXCEPT !.off = off]
            ELSE [r EXCEPT !.f = FinalizeBlobMerge(Rewired(r), child), !.off = off,
                           !.gone = @ \cup {m.f.mem[child].guid}]
    IN  Merged(TryMergeSubtree(fs, m, child, barrier))

MergeUnderInner(fs, m, off, barrier) ==
    LET ch    == m.f.mem[off].ch
        order == ByteOrder(ch)
        Next_(prev, b) == IF prev.err # "none" THEN prev
                          ELSE MergeUnder(fs, prev, off, b, ch[b], barrier)
        upto[i \in 0..Len(order)] ==
            IF i = 0 THEN [m EXCEPT !.off = off] ELSE Next_(upto[i - 1], order[i])
    IN  upto[Len(order)]

TryMergeSubtree(fs, m, off, barrier) ==
    CASE m.f.mem[off].t \in {"EmptyRoot", "Leaf"} -> [m EXCEPT !.off = off]
      [] m.f.mem[off].t = "Prefix" ->
           MergeUnder(fs, m, off, -1, m.f.mem[off].child, barrier)
      [] m.f.mem[off].t = "Blob" -> MergeAtBlobNode(fs, m, off, barrier)
      [] OTHER -> MergeUnderInner(fs, m, off, barrier)

\* One pass over a parent: its frame after the pass, and the children let go.
TryMergeChildren(fs, f, barrier) ==
    LET Rooted(r) ==
            IF r.err # "none" \/ r.off = f.root THEN r
            ELSE [r EXCEPT !.f = FinalizeBlobMerge([@ EXCEPT !.root = r.off], f.root),
                           !.gone = @ \cup {f.mem[f.root].guid}]
        m == [f |-> f, off |-> f.root, gone |-> {}, err |-> "none"]
    IN  Rooted(TryMergeSubtree(fs, m, f.root, barrier))
=============================================================================
