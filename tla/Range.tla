------------------------------- MODULE Range -------------------------------
(***************************************************************************)
(* The range cursor inside one frame, as pure operators.                   *)
(*                                                                         *)
(* A cursor is a stack of nodes from the root of the tree down, and the    *)
(* lower bound from which a restart seeks again.  Seeking puts it on the   *)
(* first candidate at or past the bound; advancing takes it to the next    *)
(* entry, a record or, with a delimiter, a common prefix.  A step here     *)
(* runs while the cursor stays in the blob of its top node: every node it  *)
(* reads is validated against the blob version the stack recorded, so a    *)
(* writer in between makes the step a restart.                             *)
(***************************************************************************)
EXTENDS ReadIndex

CONSTANTS
    ByteMax,        \* u8::MAX
    NoBound         \* no lower bound

----------------------------------------------------------------------------
(* Keys and bounds.                                                        *)

LexLess(a, b) ==
    LET n == CommonPrefix(a, b)
    IN  n < Len(b) /\ (n = Len(a) \/ a[n + 1] < b[n + 1])

Allows(bound, key) ==
    \/ bound = NoBound
    \/ IF bound.inclusive THEN ~LexLess(key, bound.key) ELSE LexLess(bound.key, key)

Exclusive(key) == [key |-> key, inclusive |-> FALSE]

\* The first key past everything that starts with key, if there is one.
InclusiveSuccessor(key) ==
    LET below == {i \in DOMAIN key : key[i] # ByteMax}
        i     == Max(below)
    IN  IF below = {} THEN NoBound
        ELSE [key |-> Append(SubSeq(key, 1, i - 1), key[i] + 1), inclusive |-> TRUE]

KeyAtOrPastPrefixSuccessor(key, prefix) ==
    LET Past(s) == s # NoBound /\ ~LexLess(key, s.key) IN Past(InclusiveSuccessor(prefix))

\* Where a descent starts: at the first leaf, nowhere, or at a target.
EffectiveSeekStart(c) ==
    CASE c.bound = NoBound /\ c.prefix = <<>> -> [st |-> "None"]
      [] c.bound = NoBound /\ c.prefix # <<>> -> [st |-> "Seek", target |-> c.prefix]
      [] c.bound # NoBound /\ c.prefix = <<>> -> [st |-> "Seek", target |-> c.bound.key]
      [] OTHER -> IF LexLess(c.bound.key, c.prefix) THEN [st |-> "Seek", target |-> c.prefix]
                  ELSE IF KeyAtOrPastPrefixSuccessor(c.bound.key, c.prefix) THEN [st |-> "Empty"]
                  ELSE [st |-> "Seek", target |-> c.bound.key]

\* A path against the target: a proper prefix of it, at or past it, or before.
\* A segment is related to it through the path it makes.
PathSeekRelation(path, target) ==
    IF IsStrictPrefix(path, target) THEN "Seeking"
    ELSE IF LexLess(path, target) THEN "Skip" ELSE "Min"

PrefixFilterRelation(key, prefix) ==
    IF IsPrefix(prefix, key) THEN "Match" ELSE IF LexLess(key, prefix) THEN "Before" ELSE "Past"

----------------------------------------------------------------------------
(* Common prefixes.                                                        *)

\* segment_rollup_len: the delimiter lies past the prefix on the path that
\* the segment extends.
SegmentRollup(c, segment) ==
    LET path == c.key \o segment
        cuts == {i \in (Len(c.prefix) + 1)..Len(path) : path[i] = c.delimiter}
    IN  IF c.delimiter # 0 /\ IsPrefix(c.prefix, path) /\ cuts # {}
        THEN <<SubSeq(path, 1, Min(cuts))>> ELSE <<>>

HasRollupCandidate(c, segment) == SegmentRollup(c, segment) # <<>>

\* prepare_segment_rollup: one the bound allows.
CanRollup(c, segment) ==
    LET Allowed(r) == r # <<>> /\ Allows(c.bound, r[1]) IN Allowed(SegmentRollup(c, segment))

\* A live leaf without leaving the frame; a crossing counts as none.
RECURSIVE SubtreeHasLiveLeaf(_, _)
SubtreeHasLiveLeaf(f, off) ==
    LET n == f.mem[off]
    IN  CASE n.t \in {"EmptyRoot", "Blob"} -> FALSE
          [] n.t = "Leaf" -> ~n.tomb
          [] n.t = "Prefix" -> SubtreeHasLiveLeaf(f, n.child)
          [] OTHER -> \E b \in DOMAIN n.ch : SubtreeHasLiveLeaf(f, n.ch[b])

ChildHasLive(c, f, off) == c.delimiter # 0 /\ SubtreeHasLiveLeaf(f, off)

\* project_range_leaf
ProjectRangeLeaf(c, leaf) ==
    LET user == UserKey(leaf.key)
        rel  == PrefixFilterRelation(user, c.prefix)
        cuts == {i \in (Len(c.prefix) + 1)..Len(user) : user[i] = c.delimiter}
    IN  CASE leaf.tomb \/ rel = "Before" -> [st |-> "Skip"]
          [] ~leaf.tomb /\ rel = "Past" -> [st |-> "Done"]
          [] OTHER ->
               IF ~Allows(c.bound, user) THEN [st |-> "Skip"]
               ELSE IF c.delimiter # 0 /\ cuts # {}
               THEN [st |-> "CommonPrefix", common |-> SubSeq(user, 1, Min(cuts))]
               ELSE [st |-> "Key", key |-> user, rec |-> [val |-> leaf.val, seq |-> leaf.seq]]

----------------------------------------------------------------------------
(* The stack.                                                              *)

Top(c) == Last(c.stack)

PushFrame(c, f, guid, off, bytes) ==
    [c EXCEPT !.key = @ \o bytes,
              !.stack = Append(@, [guid |-> guid, off |-> off, t |-> f.mem[off].t, next |-> 0,
                                   pushed |-> Len(bytes)])]

PopFrame(c) ==
    [c EXCEPT !.key = SubSeq(@, 1, Len(@) - Top(c).pushed), !.stack = Front(@)]

SetNext(c, n) == [c EXCEPT !.stack[Len(c.stack)].next = n]

\* restart_cursor and reseek_after_emit both forget the path.
ForgetPath(c) == [c EXCEPT !.stack = <<>>, !.key = <<>>, !.mode = "new", !.stale = {}]

RestartCursor(c) == [ForgetPath(c) EXCEPT !.st = "Restart"]

Finished(c) == [c EXCEPT !.st = "Done"]

PathIsStillValid(c) == \A i \in DOMAIN c.stack : c.stack[i].guid \notin c.stale

\* Bug: only the blob of the entry is validated.
EmitKeyOfTop(c, key, rec) ==
    IF Top(c).guid \in c.stale THEN RestartCursor(c)
    ELSE [c EXCEPT !.st = "Entry", !.bound = Exclusive(key),
                   !.out = Append(@, [kind |-> "Key", key |-> key, rec |-> rec])]

EmitKey(c, key, rec) ==
    IF ~PathIsStillValid(c) THEN RestartCursor(c)
    ELSE [c EXCEPT !.st = "Entry", !.bound = Exclusive(key),
                   !.out = Append(@, [kind |-> "Key", key |-> key, rec |-> rec])]

\* Bug: the bound after a common prefix is the prefix itself.
EmitCommonPrefixExclusive(c, common, reseek) ==
    IF ~PathIsStillValid(c) THEN RestartCursor(c)
    ELSE LET e == [c EXCEPT !.st = "Entry", !.bound = Exclusive(common),
                            !.out = Append(@, [kind |-> "CommonPrefix", key |-> common])]
         IN  IF reseek THEN ForgetPath(e) ELSE e

\* The subtree under a common prefix is skipped by seeking its successor;
\* without one there is nothing after it.
EmitCommonPrefix(c, common, reseek) ==
    IF ~PathIsStillValid(c) THEN RestartCursor(c)
    ELSE LET next == InclusiveSuccessor(common)
             e    == [c EXCEPT !.st = "Entry", !.bound = next, !.ended = next = NoBound,
                               !.out = Append(@, [kind |-> "CommonPrefix", key |-> common])]
         IN  IF reseek /\ next # NoBound THEN ForgetPath(e) ELSE e

\* Bug: the child at low itself is passed over.
NextInnerChildGt(n, low) ==
    LET bytes == {b \in DOMAIN n.ch : b > low}
    IN  IF bytes = {} THEN <<>> ELSE <<Min(bytes)>>

\* next_inner_child_ge: the child of the least byte from low on.
NextInnerChildGe(n, low) ==
    LET bytes == {b \in DOMAIN n.ch : b >= low}
    IN  IF bytes = {} THEN <<>> ELSE <<Min(bytes)>>

----------------------------------------------------------------------------
(* One node of seek_to_lower_bound.                                        *)

Ready(c) == [c EXCEPT !.mode = "run"]

SeekSegment(c, bytes, target, pushed) ==
    IF PathSeekRelation(c.key \o bytes, target) = "Skip" THEN PopFrame(c)
    ELSE IF CanRollup(c, bytes) THEN Ready(c) ELSE pushed

SeekInner(c, f, n, target) ==
    LET low == IF PathSeekRelation(c.key, target) = "Seeking" THEN target[Len(c.key) + 1] ELSE 0
        Chosen(b) ==
            IF b = <<>> THEN PopFrame(c)
            ELSE IF HasRollupCandidate(c, b) THEN Ready(c)
            ELSE PushFrame(SetNext(c, b[1] + 1), f, Top(c).guid, n.ch[b[1]], b)
    IN  Chosen(NextInnerChildGe(n, Max({Top(c).next, low})))

CrossTo(c, n, rollup) ==
    [SetNext(c, 1) EXCEPT !.st = "Cross", !.cross = [guid |-> n.guid, bytes |-> n.bytes,
                                                     rollup |-> rollup]]

SeekNode(c, f, target) ==
    LET n == f.mem[Top(c).off]
    IN  CASE n.t = "Leaf" -> IF LexLess(UserKey(n.key), target) THEN PopFrame(c) ELSE Ready(c)
          [] n.t = "Prefix" ->
               SeekSegment(c, n.bytes, target,
                           PushFrame(SetNext(c, 1), f, Top(c).guid, n.child, n.bytes))
          [] n.t = "Blob" -> SeekSegment(c, n.bytes, target, CrossTo(c, n, FALSE))
          [] OTHER -> SeekInner(c, f, n, target)

----------------------------------------------------------------------------
(* One node of advance_to_next_entry.                                      *)

AdvanceLeaf(c, n) ==
    LET Acted(a) ==
            CASE a.st = "Skip" -> PopFrame(c)
              [] a.st = "Done" -> Finished(c)
              [] a.st = "Key" -> EmitKey(SetNext(c, 1), a.key, a.rec)
              [] a.st = "CommonPrefix" -> EmitCommonPrefix(c, a.common, TRUE)
    IN  Acted(ProjectRangeLeaf(c, n))

AdvancePrefix(c, f, n) ==
    IF ChildHasLive(c, f, n.child) /\ CanRollup(c, n.bytes)
    THEN LET common == SegmentRollup(c, n.bytes)[1]
         IN  EmitCommonPrefix(SetNext(c, 1), common, Len(c.key) < Len(common))
    ELSE PushFrame(SetNext(c, 1), f, Top(c).guid, n.child, n.bytes)

AdvanceInner(c, f, n) ==
    LET Chosen(b) ==
            IF b = <<>> THEN PopFrame(c)
            ELSE IF ChildHasLive(c, f, n.ch[b[1]]) /\ CanRollup(c, b)
            THEN EmitCommonPrefix(c, SegmentRollup(c, b)[1], TRUE)
            ELSE PushFrame(SetNext(c, b[1] + 1), f, Top(c).guid, n.ch[b[1]], b)
    IN  Chosen(NextInnerChildGe(n, Top(c).next))

\* The path already holds the delimiter.
AdvanceRolled(c, f) ==
    IF SubtreeHasLiveLeaf(f, Top(c).off)
    THEN EmitCommonPrefix(c, SegmentRollup(c, <<>>)[1], TRUE) ELSE PopFrame(c)

AdvanceNode(c, f) ==
    LET n == f.mem[Top(c).off]
    IN  CASE n.t = "Blob" -> CrossTo(c, n, CanRollup(c, n.bytes))
          [] n.t # "Blob" /\ CanRollup(c, <<>>) -> AdvanceRolled(c, f)
          [] OTHER -> CASE n.t = "Leaf" -> AdvanceLeaf(c, n)
                        [] n.t = "Prefix" -> AdvancePrefix(c, f, n)
                        [] OTHER -> AdvanceInner(c, f, n)

----------------------------------------------------------------------------
(* From node to node while the cursor stays in the blob it is in.          *)

\* Nodes left without another look at the blob.
PopsUnread(c) ==
    \/ Top(c).t = "EmptyRoot"
    \/ /\ Top(c).t \in {"Leaf", "Prefix", "Blob"}
       /\ Top(c).next # 0
       /\ c.mode = "seek" \/ Top(c).t = "Blob" \/ ~CanRollup(c, <<>>)
    \/ /\ Top(c).t \notin {"Leaf", "Prefix", "Blob"}
       /\ c.mode = "seek"
       /\ PathSeekRelation(c.key, EffectiveSeekStart(c).target) = "Skip"

RECURSIVE WalkBlob(_, _, _)
WalkBlob(c, f, guid) ==
    LET Went(d) == WalkBlob(d, f, guid)
    IN  IF c.st # "Go" THEN c
        ELSE IF c.stack = <<>> THEN Finished(c)
        ELSE IF Top(c).guid # guid THEN c
        ELSE IF PopsUnread(c) THEN Went(PopFrame(c))
        ELSE IF guid \in c.stale THEN RestartCursor(c)
        ELSE IF c.mode = "seek" THEN Went(SeekNode(c, f, EffectiveSeekStart(c).target))
        ELSE Went(AdvanceNode(c, f))

\* init_descent: the stack starts at the root slot of the root frame.
InitDescent(c, f, guid) ==
    LET start == EffectiveSeekStart(c)
    IN  IF start.st = "Empty" THEN Finished(c)
        ELSE PushFrame([c EXCEPT !.mode = IF start.st = "None" THEN "run" ELSE "seek"],
                       f, guid, f.root, <<>>)

StepInBlob(c, f, guid) ==
    WalkBlob(IF c.mode = "new" THEN InitDescent(c, f, guid) ELSE c, f, guid)

\* The child of a crossing, pinned and read: its subtree is rolled up, or it
\* is pushed.
EnterBlob(c, f) ==
    LET d == [c EXCEPT !.st = "Go"]
        common == SegmentRollup(c, c.cross.bytes)[1]
    IN  IF ~c.cross.rollup THEN PushFrame(d, f, c.cross.guid, f.root, c.cross.bytes)
        ELSE IF ~SubtreeHasLiveLeaf(f, f.root) THEN d
        ELSE EmitCommonPrefix(d, common, Len(c.key) < Len(common))

----------------------------------------------------------------------------
(* The child of a crossing, known from its read index only.                *)

\* cold_rollup_segment: base is the common prefix of the child's exact keys.
ColdRollupSegment(c, bytes, base) ==
    IF IsPrefix(c.key, base) THEN Tail_(base, Len(c.key)) ELSE bytes \o base

\* The roll-up of the edge or else of the keys behind it, allowed or not.
IndexedRollup(c, index) ==
    LET Either(r) == IF r # <<>> \/ index.base = <<>> THEN r
                     ELSE SegmentRollup(c, ColdRollupSegment(c, c.cross.bytes, index.base))
    IN  IF HasIndexedLeaf(index) THEN Either(SegmentRollup(c, c.cross.bytes)) ELSE <<>>

AllowedRollup(c, index) ==
    LET base == ColdRollupSegment(c, c.cross.bytes, index.base)
    IN  CASE ~HasIndexedLeaf(index) -> <<>>
          [] HasIndexedLeaf(index) /\ CanRollup(c, c.cross.bytes) -> SegmentRollup(c, c.cross.bytes)
          [] OTHER -> IF index.base # <<>> /\ CanRollup(c, base) THEN SegmentRollup(c, base) ELSE <<>>

\* next_component_rollup: the least component under the prefix the bound allows.
NextComponentRollup(c, index) ==
    LET cs == {x \in index.components : /\ Last(x) = c.delimiter
                                       /\ IsStrictPrefix(c.prefix, x)
                                       /\ Allows(c.bound, x)}
    IN  IF cs = {} THEN <<>> ELSE <<CHOOSE x \in cs : \A y \in cs : ~LexLess(y, x)>>

\* A seek stops at a crossing it may roll up and passes one it may not.
SeekIndexed(c, index) ==
    LET Found(r) == IF r = <<>> THEN c
                    ELSE IF Allows(c.bound, r[1]) THEN Ready(SetNext([c EXCEPT !.st = "Go"], 0))
                    ELSE PopFrame([c EXCEPT !.st = "Go"])
    IN  Found(IndexedRollup(c, index))

AdvanceIndexed(c, index) ==
    LET d == [c EXCEPT !.st = "Go"]
        Component(r) == IF r = <<>> THEN c ELSE EmitCommonPrefix(d, r[1], TRUE)
        Found(r) == IF r = <<>> THEN Component(NextComponentRollup(c, index))
                    ELSE EmitCommonPrefix(d, r[1], Len(c.key) < Len(r[1]))
    IN  Found(AllowedRollup(c, index))

\* The cursor is unchanged when the index does not decide.
EnterIndexed(c, f) ==
    LET With(index) == IF c.mode = "seek" THEN SeekIndexed(c, index) ELSE AdvanceIndexed(c, index)
    IN  With(Build(f, 0))
=============================================================================
