------------------------------ MODULE WalFile ------------------------------
(***************************************************************************)
(* The log file: a header with the format version and two checkpoint-anchor *)
(* slots, and the record stream behind it.  A file is a record             *)
(*   [version, slots, recs]                                                *)
(* with recs the tokens of the stream; offsets count from its start.  The  *)
(* module holds what the reader computes from a file (replay, the attached *)
(* chain, pages of envelopes) and what the writer does to it.              *)
(***************************************************************************)
EXTENDS WalCodec

CONSTANT MaxRecord      \* MAX_JOURNAL_RECORD_BYTES

Legacy == 3
Current == 4

NoAnchor == [sequence |-> -1, digest |-> 0]

---------------------------------------------------------------------------
(* The header                                                              *)

ZeroSlot == [st |-> "zero", gen |-> 0, anchor |-> NoAnchor]
TornSlot == [st |-> "torn", gen |-> 0, anchor |-> NoAnchor]
Slot(anchor, gen) == [st |-> "set", gen |-> gen, anchor |-> anchor]

\* A file as WalWriter::create leaves it.
EmptyFile(version) == [version |-> version, slots |-> <<ZeroSlot, ZeroSlot>>, recs |-> <<>>]

\* The slot of the highest valid generation names the checkpoint.  One slot
\* that is neither zero nor valid is a torn first initialisation.
DecodeAnchor(slots) ==
    LET valid == { i \in 1..2 : slots[i].st = "set" }
    IN  CASE valid = {} /\ slots[1].st = "torn" /\ slots[2].st = "torn" ->
                 [err |-> "WAL checkpoint anchor slots corrupt"]
          [] valid = {} /\ ~(slots[1].st = "torn" /\ slots[2].st = "torn") ->
                 [err |-> "", anchor |-> NoAnchor, gen |-> 0]
          [] valid = {1, 2} /\ slots[1].gen = slots[2].gen /\ slots[1].anchor # slots[2].anchor ->
                 [err |-> "WAL checkpoint anchor generations conflict"]
          [] OTHER ->
                 LET i == CHOOSE j \in valid : \A k \in valid : slots[k].gen <= slots[j].gen
                 IN  [err |-> "", anchor |-> slots[i].anchor, gen |-> slots[i].gen]

Header(file) ==
    IF file.version = Legacy THEN [err |-> "", anchor |-> NoAnchor, gen |-> 0]
    ELSE DecodeAnchor(file.slots)

---------------------------------------------------------------------------
(* Reading                                                                 *)

From(s, off) == SubSeq(s, off + 1, Len(s))

\* What a record may be in a log of this header.
ValidateMode(version, anchor, op) ==
    CASE version = Legacy /\ op.ty = TyEnvelope -> "attached batch requires WAL format version 4"
      [] anchor # NoAnchor /\ op.ty # TyEnvelope ->
             "initialized attached WAL contains an ordinary record"
      [] OTHER -> ""

IsTornTail(why) == why \in {"record header truncated", "record body truncated"}

\* A batch is handed on as its operations, at consecutive sequence numbers.
Flatten(op, seq) ==
    IF op.ty \in {TyBatch, TyEnvelope}
    THEN [i \in 1..Len(op.ops) |-> [op |-> op.ops[i], seq |-> seq + i - 1]]
    ELSE <<[op |-> op, seq |-> seq]>>

Highest(h, flat) ==
    LET s == {h} \cup { flat[i].seq : i \in DOMAIN flat }
    IN  CHOOSE x \in s : \A y \in s : y <= x

\* replay_bytes: the operations to redo, the highest sequence seen and where
\* a torn tail starts (-1: the log ends on a record boundary).
RECURSIVE ReplayFrom(_, _, _, _, _)
ReplayFrom(file, anchor, off, ops, high) ==
    IF off >= Len(file.recs) THEN [err |-> "", ops |-> ops, highest |-> high, torn |-> -1]
    ELSE LET Next(r) ==
                 IF IsTornTail(r.err)
                 THEN [err |-> "", ops |-> ops, highest |-> high, torn |-> off]
                 ELSE IF r.err # "" THEN r
                 ELSE LET why  == ValidateMode(file.version, anchor, r.op)
                          flat == Flatten(r.op, r.seq)
                      IN  IF why # "" THEN Fails(why)
                          ELSE ReplayFrom(file, anchor, off + r.consumed, ops \o flat,
                                          Highest(high, flat))
         IN  Next(DecodeRecord(From(file.recs, off)))

Replay(file) ==
    LET h == Header(file)
    IN  IF h.err # "" THEN h ELSE ReplayFrom(file, h.anchor, 0, <<>>, 0)

\* StreamingRecords: the complete records from an offset on, each with where
\* it starts; end is where the scan stopped and err why, if not at a tail.
RECURSIVE StreamFrom(_, _, _, _)
StreamFrom(file, anchor, off, recs) ==
    LET Stop(why) == [err |-> why, recs |-> recs, end |-> off]
        Next(r) ==
            IF IsTornTail(r.err) THEN Stop("")
            ELSE IF r.err # "" THEN Stop(r.err)
            ELSE IF r.consumed > MaxRecord THEN Stop("record exceeds journal size limit")
            ELSE LET why == ValidateMode(file.version, anchor, r.op)
                 IN  IF why # "" THEN Stop(why)
                     ELSE StreamFrom(file, anchor, off + r.consumed,
                                     Append(recs, [op |-> r.op, off |-> off]))
    IN  IF off >= Len(file.recs) THEN Stop("") ELSE Next(DecodeRecord(From(file.recs, off)))

\* The attached records of a scan.
Attached(recs) == SelectSeq(recs, LAMBDA r : r.op.ty = TyEnvelope)

---------------------------------------------------------------------------
(* The chain of attached envelopes                                         *)

\* AttachedChain::observe.  retained: the envelope lies behind the checkpoint.
Observe(chain, env) ==
    CASE chain.checkpoint = NoAnchor ->
             Fails("WAL contains attached envelopes but its stream anchor is uninitialized")
      [] chain.checkpoint # NoAnchor /\ chain.last # NoAnchor /\ env.previous # chain.last ->
             Fails("attached journal records do not form a contiguous chain")
      [] OTHER ->
             LET seen == [chain EXCEPT !.last = env.current, !.retained = FALSE]
                 c == chain.checkpoint
             IN  IF env.current.sequence < c.sequence THEN seen
                 ELSE IF env.current.sequence = c.sequence
                 THEN IF env.current = c THEN seen
                      ELSE Fails("attached journal record conflicts with checkpoint anchor")
                 ELSE IF env.previous # chain.tail
                 THEN Fails("attached journal suffix does not continue checkpoint anchor")
                 ELSE [seen EXCEPT !.tail = env.current, !.retained = TRUE]

NewChain(checkpoint) ==
    [err |-> "", checkpoint |-> checkpoint, tail |-> checkpoint, last |-> NoAnchor,
     retained |-> FALSE]
ResumeChain(checkpoint, cursor) ==
    [err |-> "", checkpoint |-> checkpoint, tail |-> cursor, last |-> cursor, retained |-> FALSE]

\* chains[i]: after the i-th attached record.
Chains(start, recs) ==
    LET c[i \in 0..Len(recs)] ==
            IF i = 0 THEN start
            ELSE LET p == c[i - 1]
                 IN  IF p.err # "" THEN p ELSE Observe(p, recs[i].op.envelope)
    IN  c

\* validate_attached_journal: the anchors an open recovers.
ValidateAttached(file) ==
    LET h == Header(file)
        Whole(s) == IF s.err # "" THEN Fails(s.err)
                    ELSE LET recs == Attached(s.recs)
                         IN  Chains(NewChain(h.anchor), recs)[Len(recs)]
    IN  IF h.err # "" THEN h ELSE Whole(StreamFrom(file, h.anchor, 0, <<>>))

---------------------------------------------------------------------------
(* A page of envelopes after a cursor                                      *)

\* How many of the envelopes fit a page: at most rows, at least one, and no
\* more payload than bytes unless the first alone exceeds it.
PageLength(envs, rows, bytes) ==
    LET sum[i \in 0..Len(envs)] == IF i = 0 THEN 0 ELSE sum[i - 1] + Len(envs[i].payload)
        fits == { n \in 0..Len(envs) : n <= rows /\ (n <= 1 \/ sum[n] <= bytes) }
    IN  CHOOSE n \in fits : \A m \in fits : m <= n

\* scan_initialized_envelope_page, on the envelopes behind the cursor.
PageOf(checkpoint, cursor, recs, end, rows, bytes) ==
    LET n    == PageLength([i \in DOMAIN recs |-> recs[i].op.envelope], rows, bytes)
        page == [i \in 1..n |-> recs[i].op.envelope]
        next == IF n = 0 THEN cursor ELSE page[n].current
    IN  [err |-> "", envelopes |-> page, next |-> next, more |-> n < Len(recs),
         resume |-> [checkpoint |-> checkpoint, cursor |-> next,
                     off |-> IF n < Len(recs) THEN recs[n + 1].off ELSE end]]

\* Where the cursor stands in the retained envelopes: 0 at the checkpoint.
CursorAt(checkpoint, cursor, envs) ==
    IF cursor = checkpoint THEN {0} ELSE { i \in DOMAIN envs : envs[i].current = cursor }

\* scan_attached_envelope_page_from.  resume is the place the last page of a
\* sequential reader stopped at; it is trusted only for the same checkpoint
\* and cursor.
ScanPage(file, cursor, rows, bytes, resume) ==
    LET h == Header(file)
        c == h.anchor
        usable == /\ resume.checkpoint = c
                  /\ resume.cursor = cursor
                  /\ resume.off <= Len(file.recs)
        Retained(s, start) ==
            LET recs == Attached(s.recs)
                chains == Chains(start, recs)
                keep == { i \in DOMAIN recs : chains[i].err = "" /\ chains[i].retained }
            IN  IF s.err # "" THEN Fails(s.err)
                ELSE IF \E i \in DOMAIN recs : chains[i].err # "" THEN Fails("chain")
                ELSE [err |-> "", end |-> s.end,
                      recs |-> SelectSeq(recs, LAMBDA r : \E i \in keep : recs[i] = r)]
        After(r) ==
            IF r.err # "" THEN r
            ELSE IF usable THEN PageOf(c, cursor, r.recs, r.end, rows, bytes)
            ELSE LET at == CursorAt(c, cursor, [i \in DOMAIN r.recs |-> r.recs[i].op.envelope])
                 IN  IF at = {} THEN Fails("JournalAnchorMismatch")
                     ELSE PageOf(c, cursor, From(r.recs, CHOOSE i \in at : TRUE), r.end, rows,
                                 bytes)
    IN  CASE rows = 0 -> Fails("InvalidJournalScanLimit")
          [] rows # 0 /\ h.err # "" -> h
          [] rows # 0 /\ h.err = "" /\ c = NoAnchor -> Fails("JournalStreamUnavailable")
          [] OTHER ->
               IF cursor.sequence < c.sequence THEN Fails("JournalPositionExpired")
               ELSE IF cursor.sequence = c.sequence /\ cursor # c THEN Fails("JournalAnchorMismatch")
               ELSE IF usable
                    THEN After(Retained(StreamFrom(file, c, resume.off, <<>>),
                                        ResumeChain(c, cursor)))
                    ELSE After(Retained(StreamFrom(file, c, 0, <<>>), NewChain(c)))

---------------------------------------------------------------------------
(* Writing                                                                 *)

\* open_existing: a legacy file is upgraded while it holds no record.
UpgradeHeader(file) ==
    IF file.version = Current THEN [err |-> "", file |-> file]
    ELSE IF file.recs # <<>> THEN Fails("nonempty WAL format 3 is replay-only")
    ELSE [err |-> "", file |-> EmptyFile(Current)]

\* persist_anchor_generation: generation g goes to slot 1 + (g - 1) % 2.
SlotIndex(gen) == 1 + ((gen - 1) % 2)
PersistGeneration(file, anchor, gen) == [file EXCEPT !.slots[SlotIndex(gen)] = Slot(anchor, gen)]
TearGeneration(file, gen) == [file EXCEPT !.slots[SlotIndex(gen)] = TornSlot]

\* persist_checkpoint_anchor: a new anchor goes to both slots, one that is
\* already there is written once more.
Generations(header, anchor) == IF header.anchor = anchor THEN 1 ELSE 2
===========================================================================
