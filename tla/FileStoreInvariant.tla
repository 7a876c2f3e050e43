------------------------- MODULE FileStoreInvariant -------------------------
(***************************************************************************)
(* The inductive invariant IInv of FileStore, for any finite set of guids, *)
(* any readers, any number of slots and any mix of I/O errors and power    *)
(* losses, with the lemmas about the operators it rests on, its initial    *)
(* states and the steps of flush_locked that move no slot.  It ties the    *)
(* uses of the slots to the phase of the mutator: what is reserved, parked,*)
(* planned or backed up when, and which slots the readers are on.          *)
(***************************************************************************)
EXTENDS FileStore, TLAPS, FiniteSetTheorems, WellFoundedInduction

PCs == {"idle", "broken", "reserved", "written", "f_data", "f_integ", "f_manifest",
        "f_append", "f_appended", "f_persisted", "f_fence", "snapshot", "renamed",
        "truncate", "v_enter", "v_copy", "v_sync", "v_apply", "v_shrink"}
Publishing == {"f_append", "f_appended", "f_persisted", "f_fence", "snapshot",
               "renamed", "truncate"}
Relocating == {"v_copy", "v_sync", "v_apply", "v_shrink", "snapshot", "renamed",
               "truncate"}
ReaderStates == [pc : {"idle", "resolved", "record", "frame"}, slot : Int, rec : Int,
                 got : Int, wantrec : Int, want : Int]

Types ==
    /\ TypeOK
    /\ pc \in PCs /\ job \in {"flush", "vacuum", "relocate"}
    /\ manifest_dirty \in BOOLEAN
    /\ ddata \in [Slots -> Int] /\ dinteg \in [Slots -> Int]
    /\ image \in [Guid -> Int] /\ plan \in [Guid -> Int]
    /\ writes \in Int
    /\ rd \in [Reader -> ReaderStates]

\* A manifest that could be installed: what relocation_backup holds.
Sound(ents, n, free) ==
    /\ n \in Int /\ 0 <= n /\ n <= NumSlots /\ ents \in [Guid -> Int]
    /\ \A g \in Guid : -1 <= ents[g] /\ ents[g] < n
    /\ \A s \in free : s \in Int /\ 0 <= s /\ s < n
    /\ \A g, h \in Guid : g # h /\ ents[g] = ents[h] => ents[g] = NoSlot
    /\ \A g \in Guid : ents[g] \notin free

\* The moves of a plan: live blobs to distinct reusable slots.
PlanSound ==
    /\ \A g \in Guid : plan[g] # NoSlot => plan[g] \in reusable /\ entries[g] # NoSlot
    /\ \A g, h \in Guid : g # h /\ plan[g] = plan[h] => plan[g] = NoSlot

Phases ==
    /\ pc \notin {"reserved", "written"} => batch = Nothing
    /\ job = "relocate" => pc \in Relocating /\ NoReaders /\ pending_free = {}
    /\ pc \in {"v_copy", "v_sync", "v_apply", "v_shrink"} => job = "relocate"
    /\ pending_free # {} => manifest_dirty = TRUE \/ pc \in Publishing
    /\ pc = "v_enter" => pending_free = {}
    /\ pc \in {"v_copy", "v_sync", "v_apply"} => PlanSound
    /\ job = "relocate" /\ pc \in {"snapshot", "renamed"} =>
           Sound(backup.entries, backup.next, backup.reusable)

\* A reader's slot is mapped or parked, and holds what the reader resolved.
ReadersHold ==
    \A r \in Reader : rd[r].pc # "idle" =>
        /\ rd[r].slot \in pending_free \/ \E g \in Guid : entries[g] = rd[r].slot
        /\ rd[r].slot \in Slots
        /\ data[rd[r].slot] = rd[r].want /\ integ[rd[r].slot] = rd[r].wantrec

IInv == Types /\ SlotsHaveOneUse /\ Phases /\ ReadersHold /\ ReadIsOfResolvedFrame
(* ---- facts about the operators ---- *)

\* Every nonempty set of naturals has a least element.
LEMMA LeastNatural ==
    ASSUME NEW T \in SUBSET Nat, T # {}
    PROVE  \E m \in T : \A k \in T : m <= k
<1> DEFINE R == OpToRel(<, Nat)
<1>1. IsWellFoundedOn(R, Nat)
  BY NatLessThanWellFounded
<1>2. \A k, m \in Nat : k < m => <<k, m>> \in R
  BY DEF OpToRel
<1> HIDE DEF R
<1>3. PICK m \in T : \A k \in T : ~(<<k, m>> \in R)
  BY <1>1, WFMin, Zenon
<1>4. ASSUME NEW k \in T, ~(m <= k) PROVE FALSE
  <2>1. k < m /\ k \in Nat /\ m \in Nat
    BY <1>4
  <2> QED BY <2>1, <1>2, <1>3, Zenon
<1> QED BY <1>4

\* The trim of trailing free slots stops above every slot that is not free.
LEMMA TrimmedBounds ==
    ASSUME NEW free, NEW n \in Nat
    PROVE  /\ Trimmed(free, n) \in 0..n
           /\ \A s \in 0..(n - 1) : s \notin free => s < Trimmed(free, n)
<1> DEFINE Ok(m) == (\A s \in m..(n - 1) : s \in free) /\ (m = 0 \/ m - 1 \notin free)
           T == {m \in 0..n : \A s \in m..(n - 1) : s \in free}
<1>1. T \in SUBSET Nat /\ T # {}
  <2>1. n \in T
    OBVIOUS
  <2> QED BY <2>1
<1>2. PICK m \in T : \A k \in T : m <= k
  BY <1>1, LeastNatural, Zenon
<1>3. m \in 0..n /\ \A s \in m..(n - 1) : s \in free
  BY <1>2
<1>4. ASSUME m # 0, m - 1 \in free PROVE FALSE
  <2>1. m - 1 \in 0..n /\ \A s \in (m - 1)..(n - 1) : s \in free
    <3>1. \A s \in (m - 1)..(n - 1) : s = m - 1 \/ s \in m..(n - 1)
      BY <1>3
    <3> QED BY <1>3, <1>4, <3>1
  <2>2. m - 1 \in T
    BY <2>1
  <2> QED BY <1>2, <1>3, <2>2
<1>5. \E k \in 0..n : Ok(k)
  BY <1>3, <1>4
<1>6. Trimmed(free, n) \in 0..n /\ Ok(Trimmed(free, n))
  BY <1>5, Zenon DEF Trimmed
<1> QED BY <1>6

\* The plan of a vacuum moves live blobs to distinct reusable slots.
LEMMA PlanIsSound ==
    ASSUME TypeOK, SlotsHaveOneUse, plan' = RelocationPlan,
           UNCHANGED <<entries, reusable>>
    PROVE  PlanSound' /\ plan' \in [Guid -> Int]
<1> DEFINE L == Held(entries)
           above(a) == {s \in L : s >= a}
           down(g) == Cardinality(above(entries[g]))
           to(g) == {f \in reusable : Rank(reusable, f) = down(g) /\ f < entries[g]}
<1>1. next_slot \in Nat /\ (\A g \in Guid : entries[g] \in Int) /\ reusable \subseteq Nat
  BY StoreAssumption DEF TypeOK
<1>2. L \subseteq 0..next_slot /\ IsFiniteSet(L)
  <2>1. L \subseteq 0..next_slot
    BY <1>1 DEF TypeOK, Held, NoSlot
  <2>2. IsFiniteSet(0..next_slot)
    BY <1>1, FS_Interval
  <2> QED BY <2>1, <2>2, FS_Subset, Zenon
<1>3. ASSUME NEW a \in L, NEW b \in L, Cardinality(above(a)) = Cardinality(above(b))
      PROVE  a = b
  <2>0. a \in Int /\ b \in Int
    BY <1>2
  <2>1. IsFiniteSet(above(a)) /\ IsFiniteSet(above(b))
    BY <1>2, FS_Subset
  <2>2. ASSUME NEW x \in L, NEW y \in L, x < y, x \in Int, y \in Int, IsFiniteSet(above(x)),
               Cardinality(above(x)) = Cardinality(above(y))
        PROVE  FALSE
    <3>1. above(y) \in SUBSET above(x)
      BY <1>2, <2>2
    <3>2. above(x) = above(y)
      BY <2>2, <3>1, FS_Subset
    <3>3. x \in above(x) /\ x \notin above(y)
      BY <2>2
    <3> QED BY <3>2, <3>3
  <2> HIDE DEF above
  <2> QED BY <1>3, <2>0, <2>1, <2>2
<1>4. plan' = [g \in Guid |-> IF entries[g] = NoSlot \/ to(g) = {} THEN NoSlot
                              ELSE CHOOSE f \in to(g) : TRUE]
  BY DEF RelocationPlan
<1>5. \A g \in Guid : plan'[g] # NoSlot => entries[g] # NoSlot /\ plan'[g] \in to(g)
  <2> SUFFICES ASSUME NEW g \in Guid, plan'[g] # NoSlot
               PROVE  entries[g] # NoSlot /\ plan'[g] \in to(g)
    OBVIOUS
  <2> HIDE DEF to
  <2> QED BY <1>4
<1>6. ASSUME NEW g \in Guid, NEW h \in Guid, g # h, plan'[g] = plan'[h]
      PROVE  plan'[g] = NoSlot
  <2> SUFFICES ASSUME plan'[g] # NoSlot PROVE FALSE
    OBVIOUS
  <2>1. /\ entries[g] \in L /\ entries[h] \in L
        /\ down(g) = down(h)
    BY <1>5, <1>6 DEF Held
  <2>2. entries[g] = entries[h]
    BY <1>3, <2>1
  <2> QED BY <1>5, <1>6, <2>2, Zenon DEF SlotsHaveOneUse
<1>7. \A g \in Guid : plan'[g] # NoSlot => plan'[g] \in reusable
  BY <1>5, Zenon
<1>8. plan' \in [Guid -> Int]
  <2> HIDE DEF L, above, down, to
  <2>1. \A g \in Guid : plan'[g] \in Int
    <3> SUFFICES ASSUME NEW g \in Guid PROVE plan'[g] \in Int
      OBVIOUS
    <3>1. CASE plan'[g] = NoSlot
      BY <3>1 DEF NoSlot
    <3>2. CASE plan'[g] \in reusable
      <4>1. \A x \in reusable : x \in Int
        BY <1>1
      <4> QED BY <3>2, <4>1, Zenon
    <3> QED BY <1>7, <3>1, <3>2
  <2> QED BY <1>4, <2>1
<1> QED BY <1>5, <1>6, <1>7, <1>8, Zenon DEF PlanSound

(* ---- the invariant holds initially and is preserved ---- *)

\* The empty store satisfies the invariant.
LEMMA InitIInv == Init => IInv
<1> SUFFICES ASSUME Init PROVE IInv
  OBVIOUS
<1> USE StoreAssumption
<1>1. Types
  <2>1. TypeOK
    BY DEF Init, TypeOK, Nothing, NoSlot, EMPTY
  <2>2. rd \in [Reader -> ReaderStates]
    BY DEF Init, ReaderStates, Idle, NoSlot, EMPTY
  <2>3. ddata \in [Slots -> Int] /\ dinteg \in [Slots -> Int]
    BY <2>1 DEF Init, TypeOK
  <2>4. image \in [Guid -> Int] /\ plan \in [Guid -> Int] /\ writes \in Int
    BY DEF Init, Nothing, NoImage, NoSlot, EMPTY
  <2>5. pc \in PCs /\ job \in {"flush", "vacuum", "relocate"} /\ manifest_dirty \in BOOLEAN
    BY Zenon DEF Init, PCs
  <2> QED BY <2>1, <2>2, <2>3, <2>4, <2>5 DEF Types
<1>2. SlotsHaveOneUse
  BY DEF Init, SlotsHaveOneUse, Nothing, NoSlot, Held
<1>3. Phases
  BY DEF Init, Phases
<1>4. ReadersHold /\ ReadIsOfResolvedFrame
  BY DEF Init, ReadersHold, ReadIsOfResolvedFrame, Idle
<1> QED BY <1>1, <1>2, <1>3, <1>4 DEF IInv

SlotVars == <<entries, next_slot, reusable, pending_free, batch, image, data, integ, rd,
              writes>>

\* A step that moves no slot and writes no frame only has to respect the phases.
LEMMA QuietStep ==
    ASSUME IInv, UNCHANGED SlotVars, Phases',
           pc' \in PCs, job' \in {"flush", "vacuum", "relocate"}, manifest_dirty' \in BOOLEAN,
           ddata' \in [Slots -> Int], dinteg' \in [Slots -> Int], plan' \in [Guid -> Int]
    PROVE  IInv'
<1>1. Types'
  BY DEF IInv, Types, TypeOK, SlotVars
<1>2. SlotsHaveOneUse'
  BY DEF IInv, SlotsHaveOneUse, SlotVars, Held
<1>3. ReadersHold' /\ ReadIsOfResolvedFrame'
  BY DEF IInv, ReadersHold, ReadIsOfResolvedFrame, SlotVars
<1> QED BY <1>1, <1>2, <1>3 DEF IInv

\* The steps of flush_locked other than the fence.
LEMMA FlushIInv ==
    ASSUME IInv,
           \/ \E j \in {"flush", "vacuum"} : BeginFlush(j)
           \/ SyncData \/ SyncIntegrity \/ SyncFails \/ FlushManifest
           \/ AppendDeltas \/ AppendFails \/ SyncLog \/ SyncLogFails \/ ClearPending
    PROVE  IInv'
<1> USE DEF SlotVars, manifest, files, logs, work, IInv
<1>0. /\ pc \in PCs /\ job \in {"flush", "vacuum", "relocate"} /\ manifest_dirty \in BOOLEAN
      /\ data \in [Slots -> Int] /\ integ \in [Slots -> Int]
      /\ ddata \in [Slots -> Int] /\ dinteg \in [Slots -> Int] /\ plan \in [Guid -> Int]
  BY DEF Types, TypeOK
<1>1. ASSUME NEW j \in {"flush", "vacuum"}, BeginFlush(j) PROVE IInv'
  <2>1. Phases'
    BY <1>1, <1>0 DEF BeginFlush, Phases, PCs, Publishing, Relocating
  <2> QED BY <1>0, <1>1, <2>1, QuietStep DEF BeginFlush, PCs
<1>2. ASSUME SyncData PROVE IInv'
  <2>1. Phases'
    BY <1>2, <1>0 DEF SyncData, Phases, PCs, Publishing, Relocating
  <2> QED BY <1>0, <1>2, <2>1, QuietStep DEF SyncData, PCs
<1>3. ASSUME SyncIntegrity PROVE IInv'
  <2>1. Phases'
    BY <1>3, <1>0 DEF SyncIntegrity, Phases, PCs, Publishing, Relocating
  <2> QED BY <1>0, <1>3, <2>1, QuietStep DEF SyncIntegrity, PCs
<1>4. ASSUME SyncFails PROVE IInv'
  <2>1. Phases'
    BY <1>4, <1>0 DEF SyncFails, Phases, PCs, Publishing, Relocating
  <2> QED BY <1>0, <1>4, <2>1, QuietStep DEF SyncFails, PCs
<1>5. ASSUME FlushManifest PROVE IInv'
  <2>1. Phases'
    BY <1>5, <1>0 DEF FlushManifest, Flushed, Phases, PCs, Publishing, Relocating
  <2> QED BY <1>0, <1>5, <2>1, QuietStep, Zenon DEF FlushManifest, Flushed, PCs
<1>6. ASSUME AppendDeltas PROVE IInv'
  <2>1. Phases'
    BY <1>6, <1>0 DEF AppendDeltas, Phases, PCs, Publishing, Relocating
  <2> QED BY <1>0, <1>6, <2>1, QuietStep DEF AppendDeltas, PCs
<1>7. ASSUME AppendFails PROVE IInv'
  <2>1. Phases'
    BY <1>7, <1>0 DEF AppendFails, PersistFails, Phases, PCs, Publishing, Relocating
  <2> QED BY <1>0, <1>7, <2>1, QuietStep DEF AppendFails, PersistFails, PCs
<1>8. ASSUME SyncLog PROVE IInv'
  <2>1. Phases'
    BY <1>8, <1>0 DEF SyncLog, Phases, PCs, Publishing, Relocating
  <2> QED BY <1>0, <1>8, <2>1, QuietStep DEF SyncLog, PCs
<1>9. ASSUME SyncLogFails PROVE IInv'
  <2>1. Phases'
    BY <1>9, <1>0 DEF SyncLogFails, PersistFails, Phases, PCs, Publishing, Relocating
  <2> QED BY <1>0, <1>9, <2>1, QuietStep DEF SyncLogFails, PersistFails, PCs
<1>10. ASSUME ClearPending PROVE IInv'
  <2>1. Phases'
    BY <1>10, <1>0 DEF ClearPending, Flushed, Phases, PCs, Publishing, Relocating
  <2> QED BY <1>0, <1>10, <2>1, QuietStep DEF ClearPending, Flushed, PCs
<1> QED BY <1>1, <1>2, <1>3, <1>4, <1>5, <1>6, <1>7, <1>8, <1>9, <1>10

\* SlotsHaveOneUse, guid by guid.
OneUse ==
    /\ \A g, h \in Guid : g # h /\ entries[g] = entries[h] => entries[g] = NoSlot
    /\ \A g, h \in Guid : g # h /\ batch[g] = batch[h] => batch[g] = NoSlot
    /\ \A g, h \in Guid : entries[g] = batch[h] => entries[g] = NoSlot
    /\ \A g \in Guid : entries[g] # NoSlot => entries[g] \notin reusable /\ entries[g] \notin pending_free
    /\ \A g \in Guid : batch[g] # NoSlot => batch[g] \notin reusable /\ batch[g] \notin pending_free
    /\ \A s \in reusable : s \notin pending_free

\* The two forms agree.
LEMMA OneUseIsPointwise ==
    (SlotsHaveOneUse <=> OneUse) /\ (SlotsHaveOneUse' <=> OneUse')
BY DEF SlotsHaveOneUse, OneUse, Held

\* TypeOK, slot by slot.
Bounds ==
    /\ next_slot \in Int /\ 0 <= next_slot /\ next_slot <= NumSlots
    /\ entries \in [Guid -> Int] /\ batch \in [Guid -> Int]
    /\ \A g \in Guid : -1 <= entries[g] /\ entries[g] < next_slot
    /\ \A g \in Guid : -1 <= batch[g] /\ batch[g] < next_slot
    /\ \A s \in reusable : s \in Int /\ 0 <= s /\ s < next_slot
    /\ \A s \in pending_free : s \in Int /\ 0 <= s /\ s < next_slot
    /\ data \in [Slots -> Int] /\ integ \in [Slots -> Int]

\* What it means to be bounded by a high-water mark.
LEMMA MarkBounds ==
    ASSUME NEW n \in Int
    PROVE  /\ \A f : f \in [Guid -> -1..(n - 1)] <=>
                     f \in [Guid -> Int] /\ \A g \in Guid : -1 <= f[g] /\ f[g] < n
           /\ \A S : S \subseteq 0..(n - 1) <=> \A s \in S : s \in Int /\ 0 <= s /\ s < n
OBVIOUS

\* The two forms agree.
LEMMA BoundsArePointwise == (TypeOK <=> Bounds) /\ (TypeOK' <=> Bounds')
<1> USE StoreAssumption
<1>1. TypeOK <=> Bounds
  BY MarkBounds DEF TypeOK, Bounds
<1>2. PICK m : m = next_slot'
  OBVIOUS
<1>3. TypeOK' <=> /\ m \in 0..NumSlots
                  /\ entries' \in [Guid -> -1..(m - 1)]
                  /\ batch' \in [Guid -> -1..(m - 1)]
                  /\ reusable' \subseteq 0..(m - 1) /\ pending_free' \subseteq 0..(m - 1)
                  /\ data' \in [Slots -> Int] /\ integ' \in [Slots -> Int]
  BY <1>2, Zenon DEF TypeOK
<1>4. ASSUME m \in Int PROVE TypeOK' <=> Bounds'
  <2>1. /\ \A f : f \in [Guid -> -1..(m - 1)] <=>
                  f \in [Guid -> Int] /\ \A g \in Guid : -1 <= f[g] /\ f[g] < m
        /\ \A S : S \subseteq 0..(m - 1) <=> \A s \in S : s \in Int /\ 0 <= s /\ s < m
    BY <1>4, MarkBounds
  <2> QED BY <1>2, <1>3, <1>4, <2>1 DEF Bounds
<1>5. m \notin Int => ~TypeOK' /\ ~Bounds'
  BY <1>2, <1>3 DEF Bounds
<1> QED BY <1>1, <1>4, <1>5

\* The invariant of the next state, from its parts.
LEMMA Assemble ==
    ASSUME Bounds', OneUse', Phases', ReadersHold', ReadIsOfResolvedFrame',
           pc' \in PCs, job' \in {"flush", "vacuum", "relocate"}, manifest_dirty' \in BOOLEAN,
           ddata' \in [Slots -> Int], dinteg' \in [Slots -> Int],
           image' \in [Guid -> Int], plan' \in [Guid -> Int], writes' \in Int,
           rd' \in [Reader -> ReaderStates]
    PROVE  IInv'
BY BoundsArePointwise, OneUseIsPointwise DEF IInv, Types

\* The invariant of this state, in parts.
LEMMA Parts ==
    ASSUME IInv
    PROVE  /\ Bounds /\ OneUse /\ Phases /\ ReadersHold /\ ReadIsOfResolvedFrame
           /\ pc \in PCs /\ job \in {"flush", "vacuum", "relocate"} /\ manifest_dirty \in BOOLEAN
           /\ ddata \in [Slots -> Int] /\ dinteg \in [Slots -> Int]
           /\ image \in [Guid -> Int] /\ plan \in [Guid -> Int] /\ writes \in Int
           /\ rd \in [Reader -> ReaderStates]
BY BoundsArePointwise, OneUseIsPointwise DEF IInv, Types

=============================================================================
