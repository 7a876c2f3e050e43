----------------------------- MODULE WalCodec -----------------------------
(***************************************************************************)
(* The write-ahead log's record format.  A log is a sequence of integers:  *)
(* one token per fixed-width field (magic, length, sequence, tag, count,   *)
(* tree id, digest, checksum) and one per byte of a key, value or payload, *)
(* so that lengths, offsets and torn tails are those of the code up to the *)
(* width of a field.  Decoding reads the tokens back and fails where the   *)
(* code fails; nothing is carried past the encoding.                       *)
(***************************************************************************)
EXTENDS Integers, Sequences

TyInsert  == 0
TyErase   == 1
TyRename  == 5
TyBatch   == 10
TyRun     == 11
TyPrefixRun == 12
TyEnvelope  == 13

RecordMagic == 82
HeaderSize  == 4
FooterSize  == 1
EnvelopeVersion == 1

Crc32(s) ==
    LET h[i \in 0..Len(s)] == IF i = 0 THEN 1 ELSE (h[i - 1] * 31 + s[i]) % 8191
    IN  h[Len(s)]

---------------------------------------------------------------------------
(* Encoding                                                                *)

Bytes(b) == <<Len(b)>> \o b
Flag(b)  == IF b THEN 1 ELSE 0

Record(seq, ty, body) ==
    LET covered == <<RecordMagic, Len(body), seq, ty>> \o body
    IN  covered \o <<Crc32(covered)>>

InsertBody(tree, key, value)    == <<tree>> \o Bytes(key) \o Bytes(value)
EraseBody(tree, key)            == <<tree>> \o Bytes(key)
RenameBody(tree, src, dst, frc) == <<tree>> \o Bytes(src) \o Bytes(dst) \o <<Flag(frc)>>

InsertRecord(seq, tree, key, value) == Record(seq, TyInsert, InsertBody(tree, key, value))
EraseRecord(seq, tree, key)         == Record(seq, TyErase, EraseBody(tree, key))
RenameRecord(seq, tree, src, dst, frc) ==
    Record(seq, TyRename, RenameBody(tree, src, dst, frc))

InsertRecordLen(key, value) == HeaderSize + 1 + 1 + Len(key) + 1 + Len(value) + FooterSize
EraseRecordLen(key)         == HeaderSize + 1 + 1 + Len(key) + FooterSize
RenameRecordLen(src, dst) == HeaderSize + 1 + 1 + Len(src) + 1 + Len(dst) + 1 + FooterSize

\* The concatenation of F(1), ..., F(n).
Concat(n, F(_)) ==
    LET c[i \in 0..n] == IF i = 0 THEN <<>> ELSE c[i - 1] \o F(i)
    IN  c[n]

\* What a batch encoder holds: the number of logical operations, and the
\* operation stream written so far.
NoOps == [count |-> 0, body |-> <<>>]

PushInsert(enc, tree, key, value) ==
    [count |-> enc.count + 1, body |-> enc.body \o <<TyInsert>> \o InsertBody(tree, key, value)]

PushErase(enc, tree, key) ==
    [count |-> enc.count + 1, body |-> enc.body \o <<TyErase>> \o EraseBody(tree, key)]

PushRename(enc, tree, src, dst, frc) ==
    [count |-> enc.count + 1,
     body |-> enc.body \o <<TyRename>> \o RenameBody(tree, src, dst, frc)]

\* items: the (key, value) pairs of the run; a run of one is a plain insert.
PushInsertRun(enc, tree, items) ==
    IF Len(items) = 1 THEN PushInsert(enc, tree, items[1].key, items[1].value)
    ELSE [count |-> enc.count + Len(items),
          body |-> enc.body \o <<TyRun, tree, Len(items), Len(items[1].key), Len(items[1].value)>>
                   \o Concat(Len(items), LAMBDA i : items[i].key \o items[i].value)]

PushPrefixRun(enc, tree, plen, items) ==
    IF Len(items) = 1 THEN PushInsert(enc, tree, items[1].key, items[1].value)
    ELSE [count |-> enc.count + Len(items),
          body |-> enc.body \o <<TyPrefixRun, tree, Len(items)>>
                   \o Bytes(SubSeq(items[1].key, 1, plen))
                   \o Concat(Len(items), LAMBDA i :
                          Bytes(SubSeq(items[i].key, plen + 1, Len(items[i].key)))
                          \o Bytes(items[i].value))]

\* begin .. finish: the count and the record length are patched in at the end.
BatchRecord(seq, tree, enc) == Record(seq, TyBatch, <<tree, enc.count>> \o enc.body)

EnvelopeTokens(env) ==
    <<EnvelopeVersion, env.previous.sequence, env.previous.digest,
      env.current.sequence, env.current.digest>> \o Bytes(env.payload)

AttachedRecord(seq, tree, env, enc) ==
    Record(seq, TyEnvelope, <<tree, enc.count>> \o EnvelopeTokens(env) \o enc.body)

EnvelopeLen(env) == 6 + Len(env.payload)

---------------------------------------------------------------------------
(* Decoding.  A reader takes the tokens that are left and returns the value *)
(* it read with the rest, or the reason it failed.                         *)

Fails(why)   == [err |-> why]
Read(v, rest) == [err |-> "", v |-> v, rest |-> rest]

\* r? : hand a value read and the tokens after it to the next reader.
Then(r, F(_, _)) == IF r.err # "" THEN r ELSE F(r.v, r.rest)

Take(buf, n) ==
    IF Len(buf) < n THEN Fails("body truncated")
    ELSE Read(SubSeq(buf, 1, n), SubSeq(buf, n + 1, Len(buf)))

ReadInt(buf)   == Then(Take(buf, 1), LAMBDA v, rest : Read(v[1], rest))
ReadBytes(buf) == Then(ReadInt(buf), LAMBDA n, rest : Take(rest, n))

DecodeInsert(buf) ==
    Then(ReadInt(buf), LAMBDA tree, b1 :
    Then(ReadBytes(b1), LAMBDA key, b2 :
    Then(ReadBytes(b2), LAMBDA value, b3 :
         Read([ty |-> TyInsert, tree |-> tree, key |-> key, value |-> value], b3))))

DecodeErase(buf) ==
    Then(ReadInt(buf), LAMBDA tree, b1 :
    Then(ReadBytes(b1), LAMBDA key, b2 :
         Read([ty |-> TyErase, tree |-> tree, key |-> key], b2)))

DecodeRename(buf) ==
    Then(ReadInt(buf), LAMBDA tree, b1 :
    Then(ReadBytes(b1), LAMBDA src, b2 :
    Then(ReadBytes(b2), LAMBDA dst, b3 :
    Then(ReadInt(b3), LAMBDA frc, b4 :
         Read([ty |-> TyRename, tree |-> tree, src |-> src, dst |-> dst, force |-> frc # 0],
              b4)))))

DecodePrimitive(ty, buf) ==
    CASE ty = TyInsert -> DecodeInsert(buf)
      [] ty = TyErase  -> DecodeErase(buf)
      [] ty = TyRename -> DecodeRename(buf)
      [] OTHER -> Fails("unknown WalOp variant tag")

\* Repeat a reader n times: what was read, in order.
Times(n, buf, R(_)) ==
    LET upto[i \in 0..n] ==
            IF i = 0 THEN Read(<<>>, buf)
            ELSE LET r == upto[i - 1]
                 IN  Then(r, LAMBDA vs, rest :
                     Then(R(rest), LAMBDA v, more : Read(Append(vs, v), more)))
    IN  upto[n]

\* The common header of both runs, and the bound on what a run may add.
RunHeader(buf, room) ==
    Then(ReadInt(buf), LAMBDA tree, b1 :
    Then(ReadInt(b1), LAMBDA n, b2 :
         IF n = 0 THEN Fails("empty run is rejected")
         ELSE IF n > room THEN Fails("run exceeds batch inner count")
         ELSE Read([tree |-> tree, n |-> n], b2)))

DecodeInsertRun(buf, room) ==
    Then(RunHeader(buf, room), LAMBDA h, b1 :
    Then(ReadInt(b1), LAMBDA klen, b2 :
    Then(ReadInt(b2), LAMBDA vlen, b3 :
         Times(h.n, b3, LAMBDA b :
             Then(Take(b, klen), LAMBDA key, c1 :
             Then(Take(c1, vlen), LAMBDA value, c2 :
                  Read([ty |-> TyInsert, tree |-> h.tree, key |-> key, value |-> value], c2)))))))

DecodePrefixRun(buf, room) ==
    Then(RunHeader(buf, room), LAMBDA h, b1 :
    Then(ReadBytes(b1), LAMBDA prefix, b2 :
         Times(h.n, b2, LAMBDA b :
             Then(ReadBytes(b), LAMBDA suffix, c1 :
             Then(ReadBytes(c1), LAMBDA value, c2 :
                  Read([ty |-> TyInsert, tree |-> h.tree, key |-> prefix \o suffix,
                        value |-> value], c2))))))

\* One inner frame of a batch: the logical operations it stands for.
DecodeInner(buf, room) ==
    Then(ReadInt(buf), LAMBDA ty, b1 :
         CASE ty \in {TyBatch, TyEnvelope} -> Fails("nested Batch is rejected")
           [] ty = TyRun -> DecodeInsertRun(b1, room)
           [] ty = TyPrefixRun -> DecodePrefixRun(b1, room)
           [] OTHER -> Then(DecodePrimitive(ty, b1), LAMBDA op, b2 : Read(<<op>>, b2)))

RECURSIVE DecodeOps(_, _, _)
DecodeOps(buf, count, ops) ==
    IF Len(ops) >= count THEN Read(ops, buf)
    ELSE Then(DecodeInner(buf, count - Len(ops)), LAMBDA more, rest :
              DecodeOps(rest, count, ops \o more))

\* JournalEnvelope::new
Contiguous(prev, cur, payload) ==
    CASE cur.sequence # prev.sequence + 1 -> "journal envelope sequence is not contiguous"
      [] payload = <<>> -> "journal envelope payload is empty"
      [] OTHER -> ""

DecodeEnvelope(buf) ==
    Then(ReadInt(buf), LAMBDA version, b1 :
         IF version # EnvelopeVersion THEN Fails("journal envelope wire version unsupported")
         ELSE Then(Take(b1, 4), LAMBDA a, b2 :
              Then(ReadBytes(b2), LAMBDA payload, b3 :
                   LET prev == [sequence |-> a[1], digest |-> a[2]]
                       cur  == [sequence |-> a[3], digest |-> a[4]]
                       why  == Contiguous(prev, cur, payload)
                   IN  IF why # "" THEN Fails(why)
                       ELSE Read([previous |-> prev, current |-> cur, payload |-> payload], b3))))

DecodeBatch(buf) ==
    Then(Take(buf, 2), LAMBDA h, b1 :
    Then(DecodeOps(b1, h[2], <<>>), LAMBDA ops, rest :
         Read([ty |-> TyBatch, ops |-> ops], rest)))

DecodeAttached(buf) ==
    Then(Take(buf, 2), LAMBDA h, b1 :
    Then(DecodeEnvelope(b1), LAMBDA env, b2 :
    Then(DecodeOps(b2, h[2], <<>>), LAMBDA ops, rest :
         Read([ty |-> TyEnvelope, envelope |-> env, ops |-> ops], rest))))

DecodeBody(ty, body) ==
    LET Whole(r) == IF r.err = "" /\ r.rest # <<>> THEN Fails("trailing bytes after variant body")
                    ELSE r
    IN  Whole(CASE ty = TyBatch -> DecodeBatch(body)
                [] ty = TyEnvelope -> DecodeAttached(body)
                [] OTHER -> DecodePrimitive(ty, body))

\* decode_record on the tokens from the start of a record.
DecodeRecord(buf) ==
    IF Len(buf) < HeaderSize THEN Fails("record header truncated")
    ELSE IF buf[1] # RecordMagic THEN Fails("record magic mismatch")
    ELSE LET end == HeaderSize + buf[2]
         IN  IF Len(buf) < end + FooterSize THEN Fails("record body truncated")
             ELSE IF Crc32(SubSeq(buf, 1, end)) # buf[end + 1] THEN Fails("record CRC mismatch")
             ELSE Then(DecodeBody(buf[4], SubSeq(buf, HeaderSize + 1, end)), LAMBDA op, rest :
                       [err |-> "", op |-> op, seq |-> buf[3], consumed |-> end + FooterSize])
===========================================================================
