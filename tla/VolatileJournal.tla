-------------------------- MODULE VolatileJournal --------------------------
(***************************************************************************)
(* The attached stream of a memory database: a checkpoint anchor, a tail   *)
(* and the envelopes between them, kept in a record                        *)
(*   [checkpoint, tail, envelopes].                                        *)
(* It promises the ordering, paging and checkpoint semantics of the file-  *)
(* backed stream, so module Database uses it as the specification of the   *)
(* latter.                                                                 *)
(***************************************************************************)
EXTENDS Integers, Sequences

NoAnchor == [sequence |-> -1, digest |-> 0]

NewStream == [checkpoint |-> NoAnchor, tail |-> NoAnchor, envelopes |-> <<>>]

Initialize(s, genesis) ==
    IF s.checkpoint # NoAnchor THEN s
    ELSE [s EXCEPT !.checkpoint = genesis, !.tail = genesis]

\* VolatileJournalAppendGuard::submit, behind begin_attached's check.
CanAppend(s, env) == s.tail # NoAnchor /\ env.previous = s.tail
AppendEnvelope(s, env) ==
    IF CanAppend(s, env) THEN [s EXCEPT !.tail = env.current, !.envelopes = Append(@, env)]
    ELSE s

AdvanceCheckpoint(s) ==
    IF s.tail = NoAnchor THEN s ELSE [s EXCEPT !.checkpoint = s.tail, !.envelopes = <<>>]

State(s) == IF s.checkpoint = NoAnchor THEN <<"JournalStreamUnavailable">>
            ELSE <<"state", s.checkpoint, s.tail>>

\* bounded_envelope_page: at most rows envelopes; the first always, a
\* further one while the payloads stay within bytes.
RECURSIVE PageFrom(_, _, _, _, _)
PageFrom(envs, rows, bytes, page, used) ==
    IF envs = <<>> \/ Len(page) = rows THEN page
    ELSE LET next == used + Len(Head(envs).payload)
         IN  IF page # <<>> /\ next > bytes THEN page
             ELSE PageFrom(Tail(envs), rows, bytes, Append(page, Head(envs)), next)

BoundedPage(envs, start, cursor, rows, bytes) ==
    LET page == PageFrom(SubSeq(envs, start + 1, Len(envs)), rows, bytes, <<>>, 0)
    IN  [err |-> "", envelopes |-> page,
         next |-> IF page = <<>> THEN cursor ELSE page[Len(page)].current,
         more |-> start + Len(page) < Len(envs)]

EnvelopesAfter(s, cursor, rows, bytes) ==
    LET No(why) == [err |-> why, envelopes |-> <<>>, next |-> cursor, more |-> FALSE]
        at == { i \in DOMAIN s.envelopes : s.envelopes[i].current.sequence = cursor.sequence }
    IN  IF rows = 0 THEN No("InvalidJournalScanLimit")
        ELSE IF s.checkpoint = NoAnchor THEN No("JournalStreamUnavailable")
        ELSE IF cursor.sequence < s.checkpoint.sequence THEN No("JournalPositionExpired")
        ELSE IF cursor = s.checkpoint THEN BoundedPage(s.envelopes, 0, cursor, rows, bytes)
        ELSE IF cursor.sequence = s.checkpoint.sequence \/ at = {} THEN No("JournalAnchorMismatch")
        ELSE LET i == CHOOSE j \in at : \A k \in at : j <= k
             IN  IF s.envelopes[i].current # cursor THEN No("JournalAnchorMismatch")
                 ELSE BoundedPage(s.envelopes, i, cursor, rows, bytes)
===========================================================================
