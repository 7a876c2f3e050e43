------------------------------ MODULE ColdRead ------------------------------
(***************************************************************************)
(* Reads of a blob nobody has loaded, answered from its read index or from *)
(* single pages of it, while a writer changes the blob and a checkpoint    *)
(* stores it.                                                              *)
(*                                                                         *)
(* The blob goes through the images of one history, and whatever is taken  *)
(* from the blob is named by the number of its image, 0 meaning nothing.   *)
(* Every node lies on a page of its own, page 0 being the header.          *)
(***************************************************************************)
EXTENDS ReadIndex

CONSTANTS
    Scripts,        \* what may happen to the blob
    HistoryOf(_),   \* the images [f, stamp, index, truth] a script leads it through
    Readers,
    Reads,          \* the reads, [kind |-> "get" | "live", key |-> a key or a prefix]
    MaxReads,       \* bound: reads altogether
    Depth,          \* depth at which the blob hangs
    MaxPage         \* last page of any image

VARIABLES
    hist,           \* the history of this behaviour
    last,           \* the newest image
    cached,         \* image in the blob cache
    dirty,          \* in the dirty map
    claim,          \* clone a checkpoint is writing (flushing)
    ckpt,           \* where the checkpoint is
    stored,         \* image the manifest maps the blob to
    needsFlush,     \* store.needs_flush()
    files,          \* what the read_index and value_segment files of that slot hold
    token,          \* read_index_tokens, 0 for no entry
    index,          \* read_indexes
    pages, ghost,   \* read_pages and the pages touched once
    writer,         \* where the writer is
    reader, reads,  \* the readers, and the reads so far
    late            \* history variable: see Late

store == <<stored, needsFlush, files>>
caches == <<token, index, pages, ghost>>
vars == <<hist, last, cached, dirty, claim, ckpt, store, caches, writer, reader, reads, late>>

Image(n) == hist[n]
Pages == 0..MaxPage

\* The image a reader of the blob finds.
Current == IF cached # 0 THEN cached ELSE stored

NoFiles == [dir |-> 0, body |-> 0, vals |-> 0]
NoReader == [pc |-> "idle"]

----------------------------------------------------------------------------
(* The buffer manager.                                                     *)

\* read_index_eligible, PointRead for "get" and Liveness for "live".
Eligible(kind) == ~needsFlush /\ (kind = "get" => cached = 0) /\ ~dirty /\ claim = 0

Invalid == [p \in Pages |-> 0]

\* Bug: mark_dirty leaves the token alone.
KeepReadIndexToken == UNCHANGED token

\* invalidate_indexed_reads: the token first, then the maps.
BumpReadIndexToken == token' = token + 1

\* Bug: the pages stay.
ForgetIndex == index' = 0 /\ UNCHANGED <<pages, ghost>>

ForgetIndexedReads ==
    /\ index' = 0
    /\ pages' = Invalid
    /\ ghost' = {}

----------------------------------------------------------------------------
(* The writer: one latched change of the blob.                             *)

WriterPins ==
    /\ writer = "idle"
    /\ last < Len(hist)
    /\ cached' = Current
    /\ writer' = "latched"
    /\ UNCHANGED <<hist, last, dirty, claim, ckpt, store, caches, reader, reads, late>>

\* mark_dirty_with_hint, once the frame has been changed.
WriterBumps ==
    /\ writer = "latched"
    /\ BumpReadIndexToken
    /\ writer' = "bumped"
    /\ UNCHANGED <<hist, last, cached, dirty, claim, ckpt, store, index, pages, ghost, reader,
                   reads, late>>

WriterForgets ==
    /\ writer = "bumped"
    /\ ForgetIndexedReads
    /\ writer' = "marking"
    /\ UNCHANGED <<hist, last, cached, dirty, claim, ckpt, store, token, reader, reads, late>>

\* The dirty entry, and the latch released: the new image can be seen.
WriterUnlocks ==
    /\ writer = "marking"
    /\ dirty' = TRUE
    /\ last' = last + 1
    /\ cached' = last'
    /\ writer' = "idle"
    /\ reader' = [r \in Readers |->
                    IF reader[r].pc = "idle" THEN reader[r]
                    ELSE [reader[r] EXCEPT !.seen = @ \cup {Image(last').truth[reader[r].read]}]]
    /\ UNCHANGED <<hist, claim, ckpt, store, caches, reads, late>>

----------------------------------------------------------------------------
(* The checkpoint: one round for the blob, from its dirty entry to the     *)
(* manifest flush.                                                         *)

CkSnapshot ==
    /\ ckpt = "idle"
    /\ dirty
    /\ writer = "idle"
    /\ claim' = cached
    /\ dirty' = FALSE
    /\ ckpt' = "write"
    /\ UNCHANGED <<hist, last, cached, store, caches, writer, reader, reads, late>>

\* restore_dirty of an entry the writer has overtaken.
CkRestore ==
    /\ ckpt \in {"write", "retire"}
    /\ claim # cached
    /\ claim' = 0
    /\ dirty' = TRUE
    /\ ckpt' = IF ckpt = "write" THEN "idle" ELSE "flush"
    /\ UNCHANGED <<hist, last, cached, store, caches, writer, reader, reads, late>>

\* The image goes to a slot of its own whose index and values have been
\* cleared, and the mapping moves to it.
CkWrite ==
    /\ ckpt = "write"
    /\ claim = cached
    /\ stored' = claim
    /\ needsFlush' = TRUE
    /\ files' = NoFiles
    /\ ckpt' = "bump"
    /\ UNCHANGED <<hist, last, cached, dirty, claim, caches, writer, reader, reads, late>>

CkBump ==
    /\ ckpt = "bump"
    /\ BumpReadIndexToken
    /\ ckpt' = "forget"
    /\ UNCHANGED <<hist, last, cached, dirty, claim, store, index, pages, ghost, writer, reader,
                   reads, late>>

CkForget ==
    /\ ckpt = "forget"
    /\ ForgetIndexedReads
    /\ ckpt' = "vals"
    /\ UNCHANGED <<hist, last, cached, dirty, claim, store, token, writer, reader, reads, late>>

\* publish_read_index: the values, the buckets, and last the directory.
CkPublish ==
    /\ ckpt \in {"vals", "body", "dir"}
    /\ files' = [files EXCEPT ![ckpt] = claim]
    /\ ckpt' = CASE ckpt = "vals" -> "body" [] ckpt = "body" -> "dir" [] ckpt = "dir" -> "insert"
    /\ UNCHANGED <<hist, last, cached, dirty, claim, stored, needsFlush, caches, writer, reader,
                   reads, late>>

\* The index does not fit or its write fails.
CkPublishFails ==
    /\ ckpt \in {"vals", "body", "dir"}
    /\ index' = 0
    /\ ckpt' = "retire"
    /\ UNCHANGED <<hist, last, cached, dirty, claim, store, token, pages, ghost, writer, reader,
                   reads, late>>

CkInsert ==
    /\ ckpt = "insert"
    /\ index' = claim
    /\ ckpt' = "retire"
    /\ UNCHANGED <<hist, last, cached, dirty, claim, store, token, pages, ghost, writer, reader,
                   reads, late>>

\* retire_write_through
CkRetire ==
    /\ ckpt = "retire"
    /\ claim = cached
    /\ claim' = 0
    /\ ckpt' = "flush"
    /\ UNCHANGED <<hist, last, cached, dirty, store, caches, writer, reader, reads, late>>

CkFlush ==
    /\ ckpt = "flush"
    /\ needsFlush' = FALSE
    /\ ckpt' = "idle"
    /\ UNCHANGED <<hist, last, cached, dirty, claim, stored, files, caches, writer, reader, reads,
                   late>>

\* A clean image nobody pins leaves the blob cache.
Evict ==
    /\ cached # 0
    /\ ~dirty
    /\ claim = 0
    /\ writer = "idle"
    /\ \A r \in Readers : reader[r].pc # "pinned"
    /\ cached' = 0
    /\ UNCHANGED <<hist, last, dirty, claim, ckpt, store, caches, writer, reader, reads, late>>
----------------------------------------------------------------------------
(* The readers.                                                            *)

\* One step of reader r, at pc, to the state q.
Goes(r, pc, q) ==
    /\ reader[r].pc = pc
    /\ reader' = [reader EXCEPT ![r] = q]

At(r, pc) == [reader[r] EXCEPT !.pc = pc]

\* The rest of the system while a reader moves.
Others == UNCHANGED <<hist, last, dirty, claim, ckpt, store, writer, reads>>
Looks == Others /\ UNCHANGED <<cached, caches, late>>

\* Something of image n is kept, or trusted under the token, although the
\* store has moved on: no later check can tell that it is stale.
Late(n) == late' = (late \/ n # stored)

\* Where a reader goes that the index cannot answer.
Fallback(r) == At(r, IF reader[r].read.kind = "get" THEN "header" ELSE "pin")

\* pin_cached first; only a point read looks at the blob cache.
Start(r) ==
    /\ reader[r].pc = "idle"
    /\ reads < MaxReads
    /\ reads' = reads + 1
    /\ \E read \in Reads :
         reader' = [reader EXCEPT ![r] =
            [pc |-> IF read.kind = "get" /\ cached # 0 THEN "pinned" ELSE "eligible", read |-> read,
             idx |-> 0, tok |-> 0, hdr |-> 0, page |-> 0, img |-> 0, depth |-> Depth, then |-> "",
             ans |-> NotFound, seen |-> {Image(Current).truth[read]}]]
    /\ UNCHANGED <<hist, last, cached, dirty, claim, ckpt, store, caches, writer, late>>

CheckEligible(r) ==
    /\ Goes(r, "eligible", At(r, IF Eligible(reader[r].read.kind) THEN "get" ELSE "pin"))
    /\ Looks

\* read_index_load: a cached index first, its token after it.
GetIndex(r) ==
    /\ token' = IF index = 0 /\ token = 0 THEN 1 ELSE token
    /\ Goes(r, "get", [At(r, IF index # 0 THEN "token" ELSE "dir") EXCEPT
                          !.idx = index, !.tok = token'])
    /\ Others
    /\ UNCHANGED <<cached, index, pages, ghost, late>>

GetToken(r) ==
    /\ Goes(r, "token", [reader[r] EXCEPT !.pc = "ask", !.tok = token])
    /\ Late(reader[r].idx)
    /\ Others
    /\ UNCHANGED <<cached, caches>>

\* read_index_range: whose bytes the slot has there, 0 when the blob has no
\* slot or nothing was written (zeros, which do not decode).
IndexRange(part) == IF stored = 0 THEN 0 ELSE files[part]

LoadDirectory(r) ==
    /\ LET dir == IndexRange("dir")
       IN  Goes(r, "dir", IF dir = 0 THEN Fallback(r)
                          ELSE [reader[r] EXCEPT !.pc = "stamp", !.idx = dir])
    /\ Looks

\* read_index_stamp_matches
MatchStamp(r) ==
    /\ LET same == Image(reader[r].idx).stamp = Image(stored).stamp
       IN  /\ Goes(r, "stamp", IF same THEN At(r, "check") ELSE Fallback(r))
           /\ index' = IF same THEN index ELSE 0
    /\ Others
    /\ UNCHANGED <<cached, token, pages, ghost, late>>

CheckToken(r) ==
    /\ Goes(r, "check", IF token = reader[r].tok /\ Eligible(reader[r].read.kind) THEN At(r, "insert")
                        ELSE Fallback(r))
    /\ Looks

InsertIndex(r) ==
    /\ Goes(r, "insert", At(r, "ask"))
    /\ index' = reader[r].idx
    /\ Late(reader[r].idx)
    /\ Others
    /\ UNCHANGED <<cached, token, pages, ghost>>

\* read_index_lookup and prefix_liveness, as far as the directory goes.
AskDirectory(r) ==
    LET i == Image(reader[r].idx).index
        key == reader[r].read.key
        Answers(a) == [reader[r] EXCEPT !.pc = "confirm", !.ans = a]
        Got(c) == IF c.st = "Crossing" THEN Answers(c)
                  ELSE IF ~MayHaveKey(i, key) THEN Answers(NotFound)
                  ELSE At(r, "bucket")
        Live(l) == IF l = "Unknown" THEN Fallback(r) ELSE Answers([st |-> l])
    IN  /\ Goes(r, "ask", IF reader[r].read.kind = "get" THEN Got(CrossingOf(i, key, Depth))
                          ELSE Live(PrefixLiveness(i, key)))
        /\ Looks

\* read_index_leaf_hit with what the block read from the file says.
LeafHit(r, hit) ==
    CASE hit.st = "Error" -> Fallback(r)
      [] hit.st = "None" -> [reader[r] EXCEPT !.pc = "confirm", !.ans = NotFound]
      [] hit.st = "Inline" -> [reader[r] EXCEPT !.pc = "confirm",
                                               !.ans = [st |-> "Found", val |-> hit.val, seq |-> hit.seq]]
      [] hit.st = "Segment" -> [reader[r] EXCEPT !.pc = "segment", !.page = hit.at,
                                                !.ans = [st |-> "Found", val |-> hit.val, seq |-> hit.seq]]
      [] hit.st = "Blob" -> [reader[r] EXCEPT !.pc = "page", !.page = hit.at, !.then = "value",
                                             !.ans = [st |-> "Found", val |-> hit.val, seq |-> hit.seq]]

\* The block lies where the directory says, in whatever the file now holds:
\* the bytes of another index may decode as another block or not at all.
ReadBucket(r) ==
    LET i == Image(reader[r].idx).index
        key == reader[r].read.key
        body == IndexRange("body")
        Hit(n) == LookupLeafInBucket(i, BucketOf(Image(n).index, key), key)
        hits == IF BucketOf(i, key) = {} THEN {[st |-> "None"]}
                ELSE IF body = reader[r].idx THEN {Hit(body)}
                ELSE {[st |-> "None"], [st |-> "Error"]} \cup (IF body = 0 THEN {} ELSE {Hit(body)})
    IN  /\ reader[r].pc = "bucket"
        /\ \E hit \in hits : Goes(r, "bucket", LeafHit(r, hit))
        /\ Looks

\* read_value_segment_range, under the checksum of the entry.
ReadSegment(r) ==
    LET found == files.vals # 0 /\ [at |-> reader[r].page, val |-> reader[r].ans.val]
                                      \in Image(files.vals).index.values
    IN  /\ Goes(r, "segment", IF found THEN At(r, "confirm") ELSE Fallback(r))
        /\ Looks

\* read_index_token_valid and read_index_liveness_token_valid.
Confirm(r) ==
    /\ Goes(r, "confirm", IF token = reader[r].tok /\ Eligible(reader[r].read.kind) THEN At(r, "done")
                          ELSE Fallback(r))
    /\ Looks

----------------------------------------------------------------------------
(* Reading single pages.                                                   *)

Loads(r, p, then) == [reader[r] EXCEPT !.pc = "page", !.page = p, !.then = then]

\* FileBlobStore::read_blob_range: the page as the manifest has it now,
\* verified against the record of its slot.
BlobRange == stored

\* load_range: from the page cache or from the store.
LoadPage(r) ==
    LET kept == pages[reader[r].page]
    IN  /\ Goes(r, "page", IF kept # 0 THEN [At(r, reader[r].then) EXCEPT !.img = kept]
                           ELSE [At(r, "admit") EXCEPT !.img = BlobRange])
        /\ Looks

AdmitPage(r) ==
    /\ Goes(r, "admit", At(r, IF Eligible("get") THEN "put" ELSE reader[r].then))
    /\ Looks

\* put, and put_after_second_touch for leaves and values.
PutPage(r) ==
    LET p == reader[r].page
        nav == reader[r].then \in {"headed", "node"}
    IN  /\ Goes(r, "put", At(r, reader[r].then))
        /\ IF pages[p] # 0 THEN UNCHANGED <<pages, ghost, late>>
           ELSE IF nav \/ p \in ghost
           THEN /\ pages' = [pages EXCEPT ![p] = reader[r].img]
                /\ ghost' = ghost \ {p}
                /\ Late(reader[r].img)
           ELSE /\ ghost' = ghost \cup {p}
                /\ UNCHANGED <<pages, late>>
        /\ Others
        /\ UNCHANGED <<cached, token, index>>

\* The node at an offset of an image; bytes that are no node there are told
\* apart only by what they decode to.
NodeIn(n, off) == IF off \in DOMAIN Image(n).f.mem THEN Image(n).f.mem[off] ELSE [t |-> "EmptyRoot"]

\* read_value_paged: nothing but the token says whose bytes these are.
UseValue(r) ==
    LET n == NodeIn(reader[r].img, reader[r].page)
    IN  /\ Goes(r, "value", [At(r, "confirm") EXCEPT !.ans.val = IF n.t = "Leaf" THEN n.val ELSE "lost"])
        /\ Looks

\* routed_read_cached begins with the header page.
ReadHeader(r) ==
    /\ Goes(r, "header", Loads(r, 0, "headed"))
    /\ Looks

\* Where the layout of the header's image has the leaves.
PastLeafRegion(n, off) == NodeIn(n, off).t = "Leaf" \/ off > Len(Image(n).f.mem)

\* descend_routed_paged at off.
Visits(r, hdr, off, depth) ==
    [Loads(r, off, IF PastLeafRegion(hdr, off) THEN "leaf" ELSE "node") EXCEPT !.hdr = hdr, !.depth = depth]

UseHeader(r) ==
    LET f == Image(reader[r].img).f
    IN  /\ Goes(r, "headed", IF f.routed THEN Visits(r, reader[r].img, f.root, Depth) ELSE At(r, "pin"))
        /\ Looks

\* routed_step
RoutedStep(r, n) ==
    LET key == SearchKey(reader[r].read.key)
        d == reader[r].depth
        Hint(a) == [At(r, "validate") EXCEPT !.ans = a]
        Visit(off, depth) == Visits(r, reader[r].hdr, off, depth)
    IN  CASE n.t = "Prefix" -> IF RangeEq(key, d, n.bytes) THEN Visit(n.child, d + Len(n.bytes))
                               ELSE Hint(NotFound)
          [] n.t = "Blob" -> IF RangeEq(key, d, n.bytes)
                             THEN Hint([st |-> "Crossing", guid |-> n.guid, depth |-> d + Len(n.bytes)])
                             ELSE Hint(NotFound)
          [] n.t \in {"Leaf", "EmptyRoot"} -> At(r, "pin")
          [] OTHER -> IF d < Len(key) /\ ByteAt(key, d) \in DOMAIN n.ch THEN Visit(n.ch[ByteAt(key, d)], d + 1)
                      ELSE Hint(NotFound)

UseNode(r) ==
    /\ Goes(r, "node", RoutedStep(r, NodeIn(reader[r].img, reader[r].page)))
    /\ Looks

\* leaf_check_owned
UseLeaf(r) ==
    LET n == NodeIn(reader[r].img, reader[r].page)
    IN  /\ Goes(r, "leaf",
             IF n.t # "Leaf" THEN At(r, "pin")
             ELSE [At(r, "validate") EXCEPT
                     !.ans = IF n.tomb \/ n.key # SearchKey(reader[r].read.key) THEN NotFound
                             ELSE [st |-> "Found", val |-> n.val, seq |-> n.seq]])
        /\ Looks

\* validate_read_index_stamp: the header again, from the store.
ReloadHeader(r) ==
    /\ Goes(r, "validate", IF Eligible("get") THEN [At(r, "compare") EXCEPT !.img = stored]
                           ELSE At(r, "pin"))
    /\ Looks

CompareStamp(r) ==
    /\ Goes(r, "compare",
            At(r, IF Eligible("get") /\ Image(reader[r].img).stamp = Image(reader[r].hdr).stamp
                  THEN "done" ELSE "pin"))
    /\ Looks

----------------------------------------------------------------------------
(* The full pin, which everything else falls back on.                      *)

Pin(r) ==
    /\ Goes(r, "pin", At(r, "pinned"))
    /\ cached' = Current
    /\ Others
    /\ UNCHANGED <<caches, late>>

ReadPinned(r) ==
    /\ Goes(r, "pinned", [At(r, "done") EXCEPT !.ans = Image(cached).truth[reader[r].read]])
    /\ Looks

Return(r) ==
    /\ Goes(r, "done", NoReader)
    /\ Looks

----------------------------------------------------------------------------
\* A database just opened: the blob lies in the store with its index.
Init ==
    /\ hist \in {HistoryOf(s) : s \in Scripts}
    /\ last = 1
    /\ cached = 0
    /\ dirty = FALSE
    /\ claim = 0
    /\ ckpt = "idle"
    /\ stored = 1
    /\ needsFlush = FALSE
    /\ files \in {[dir |-> 1, body |-> 1, vals |-> 1], NoFiles}
    /\ token = 0
    /\ index = 0
    /\ pages = Invalid
    /\ ghost = {}
    /\ writer = "idle"
    /\ reader = [r \in Readers |-> NoReader]
    /\ reads = 0
    /\ late = FALSE

Checkpoint ==
    \/ CkSnapshot \/ CkRestore \/ CkWrite \/ CkBump \/ CkForget
    \/ CkPublish \/ CkPublishFails \/ CkInsert \/ CkRetire \/ CkFlush

ReadStep(r) ==
    \/ Start(r) \/ CheckEligible(r) \/ GetIndex(r) \/ GetToken(r)
    \/ LoadDirectory(r) \/ MatchStamp(r) \/ CheckToken(r) \/ InsertIndex(r)
    \/ AskDirectory(r) \/ ReadBucket(r) \/ ReadSegment(r) \/ Confirm(r)
    \/ LoadPage(r) \/ AdmitPage(r) \/ PutPage(r) \/ UseValue(r)
    \/ ReadHeader(r) \/ UseHeader(r) \/ UseNode(r) \/ UseLeaf(r)
    \/ ReloadHeader(r) \/ CompareStamp(r)
    \/ Pin(r) \/ ReadPinned(r) \/ Return(r)

Next ==
    \/ WriterPins \/ WriterBumps \/ WriterForgets \/ WriterUnlocks
    \/ Checkpoint
    \/ Evict
    \/ \E r \in Readers : ReadStep(r)

Spec == Init /\ [][Next]_vars

----------------------------------------------------------------------------
(* Properties.                                                             *)

\* A cold read answers what the blob held at some moment of the read: the
\* index, its value segment, single pages and the full pin agree with a lookup
\* in the frame, and what a writer or a checkpoint has outdated is not
\* answered (indexed_read: "Any remaining uncertainty falls through to bm.pin").
\* Excepted are behaviours in which a token vouches for something older than
\* itself, which the code's windows between a check and an insertion allow.
ColdReadsRegular ==
    \A r \in Readers :
        (reader[r].pc = "done" /\ ~late) => reader[r].ans \in reader[r].seen

\* Whatever is kept for cold reads while they may be trusted is of the image
\* the store holds, or of one the stamp of its header cannot be told from.
TrustedIsStored ==
    (Eligible("live") /\ ~late) =>
        /\ index \in {0, stored}
        /\ \A p \in Pages : pages[p] \in {0, stored}
=============================================================================
