------------------------------- MODULE WalRing ------------------------------
(* The lock-free byte ring of src/journal/ring.rs, as operators on its state. *)
(*                                                                            *)
(* Addresses are logical bytes; the physical byte is the address modulo       *)
(* Capacity.  A reservation [start, end) starts where the previous one ends.  *)
(* Published reservations wait in `pending` until every byte before them is   *)
(* published too; `publish` then folds the contiguous run into the committed  *)
(* prefix.  The fold's two stores (address, then record count) are separate   *)
(* steps of Journal, because the flusher reads them without the lock.         *)
EXTENDS Integers, FiniteSets, Sequences

CONSTANT Capacity      \* bytes of the ring

ASSUME CapacityAssumption == Capacity \in Nat \ {0}

Ticket(start, len) == [start |-> start, end |-> start + len]

EmptyRing == [tail |-> 0,              \* next free address
              committed_addr |-> 0,    \* everything below is published
              committed_records |-> 0, \* the count the flusher can read
              committed_count |-> 0,   \* the count under the advance lock
              flush_cursor |-> 0,      \* everything below is copied out
              pending |-> {}]          \* published, not yet folded

Reserve(ring, len) == [ring EXCEPT !.tail = @ + len]

ReserveSpaceReady(ring, ticket) == ticket.end <= ring.flush_cursor + Capacity

(* Writing the bytes of record r: byte i lands at ticket.start + i - 1.       *)
Fill(buf, ticket, r) ==
    [p \in DOMAIN buf |->
        LET here == {a \in ticket.start .. ticket.end - 1 : a % Capacity = p}
        IN IF here = {} THEN buf[p] ELSE <<r, (CHOOSE a \in here : TRUE) - ticket.start + 1>>]

(* Where the greedy fold of `pending` from address `addr` stops: every byte   *)
(* before it is published, and no published interval starts there.            *)
FoldEnd(pending, addr) ==
    CHOOSE b \in {addr} \cup {p.end : p \in pending} :
        /\ \A a \in addr .. b - 1 : \E p \in pending : p.start <= a /\ a < p.end
        /\ \A p \in pending : p.start # b
        /\ b >= addr

(* publish up to and including the store of committed_addr.                   *)
PublishAddr(ring, ticket) ==
    LET published == ring.pending \cup {ticket}
        to        == FoldEnd(published, ring.committed_addr)
        folded    == {p \in published : p.start < to}
    IN [ring EXCEPT !.pending = published \ folded,
                    !.committed_addr = to,
                    !.committed_count = @ + Cardinality(folded)]

(* The store of committed_records that follows it.                            *)
PublishRecords(ring) == [ring EXCEPT !.committed_records = ring.committed_count]

(* What copy_committed_prefix hands to the sink.                              *)
CommittedBytes(ring, buf, to) ==
    [i \in 1 .. to - ring.flush_cursor |-> buf[(ring.flush_cursor + i - 1) % Capacity]]

(* reset_after_drain: the cursors start over, the record count does not.      *)
ResetAfterDrain(ring) ==
    [ring EXCEPT !.flush_cursor = 0, !.committed_addr = 0, !.tail = 0]

(* What reset_after_drain asserts before it resets anything.                  *)
FullyDrained(ring) == /\ ring.pending = {}
                      /\ ring.tail = ring.committed_addr
                      /\ ring.flush_cursor = ring.committed_addr
=============================================================================
