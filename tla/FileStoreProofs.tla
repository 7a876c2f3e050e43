-------------------------- MODULE FileStoreProofs ---------------------------
(***************************************************************************)
(* The snapshot, vacuum, read and recovery steps of FileStore keep IInv,   *)
(* and the theorems: no slot ever has two uses, and a read only ever sees  *)
(* the slot content its guid was mapped to when it resolved the slot.  The *)
(* replay of manifest.log enters only through the checks load_or_create    *)
(* makes on its result.                                                    *)
(***************************************************************************)
EXTENDS FileStoreWriteProofs

\* The steps of persist_snapshot and truncate_log that move no slot.
LEMMA SnapshotIInv ==
    ASSUME IInv, RenameSnapshot \/ SyncDir \/ TruncateLog \/ TruncateFails
    PROVE  IInv'
<1> USE DEF SlotVars, manifest, files, logs, work
<1>1. ASSUME RenameSnapshot PROVE IInv'
  <2>1. Phases'
    BY <1>1, Parts DEF RenameSnapshot, Phases, PCs, Publishing, Relocating, NoReaders
  <2> QED BY <1>1, <2>1, Parts, QuietStep DEF RenameSnapshot, PCs
<1>2. ASSUME SyncDir PROVE IInv'
  <2>1. Phases'
    BY <1>2, Parts DEF SyncDir, Phases, PCs, Publishing, Relocating, NoReaders
  <2> QED BY <1>2, <2>1, Parts, QuietStep DEF SyncDir, PCs
<1>3. ASSUME TruncateLog PROVE IInv'
  <2>1. Phases'
    BY <1>3, Parts DEF TruncateLog, Phases, PCs, Publishing, Relocating, NoReaders
  <2> QED BY <1>3, <2>1, Parts, QuietStep, Zenon DEF TruncateLog, PCs
<1>4. ASSUME TruncateFails PROVE IInv'
  <2>1. Phases'
    BY <1>4, Parts DEF TruncateFails, VacuumReturns, PersistFails, Phases, PCs, Publishing, Relocating
  <2>2. plan' \in [Guid -> Int]
    BY <1>4, Parts DEF TruncateFails, VacuumReturns, Nothing, NoSlot
  <2> QED BY <1>4, <2>1, <2>2, Parts, QuietStep, Zenon DEF TruncateFails, VacuumReturns, PersistFails, PCs
<1> QED BY <1>1, <1>2, <1>3, <1>4

\* A failed snapshot restores relocation_backup; no reader saw the relocation.
LEMMA SnapshotFailsIInv ==
    ASSUME IInv, SnapshotFails
    PROVE  IInv'
<1> USE DEF manifest, files, logs, work
<1>1. /\ UNCHANGED <<pending_free, data, integ, ddata, dinteg, batch, image, rd, writes>>
      /\ pc \in {"snapshot", "renamed"} /\ pc' = "idle" /\ job' = "flush"
      /\ manifest_dirty' \in BOOLEAN
  BY Parts, Zenon DEF SnapshotFails, VacuumReturns, PersistFails
<1>2. batch = Nothing
  BY <1>1, Parts DEF Phases
<1>3. plan' \in [Guid -> Int]
  BY Parts DEF SnapshotFails, VacuumReturns, Nothing, NoSlot
<1>4. CASE UNCHANGED <<entries, next_slot, reusable>>
  <2>1. Bounds' /\ OneUse' /\ ReadersHold' /\ ReadIsOfResolvedFrame'
    BY <1>1, <1>4, Parts DEF Bounds, OneUse, ReadersHold, ReadIsOfResolvedFrame
  <2>2. Phases'
    BY <1>1, <1>2, Parts DEF Phases, SnapshotFails, VacuumReturns, PersistFails, Relocating, Publishing
  <2> QED BY <1>1, <1>3, <2>1, <2>2, Parts, Assemble DEF PCs
<1>5. CASE /\ job = "relocate" /\ entries' = backup.entries
           /\ next_slot' = backup.next /\ reusable' = backup.reusable
  <2>1. Sound(entries', next_slot', reusable') /\ pending_free = {} /\ NoReaders
    BY <1>1, <1>5, Parts DEF Phases
  <2>2. \A g \in Guid : batch'[g] = NoSlot
    BY <1>1, <1>2 DEF Nothing
  <2>3. Bounds'
    <3>1. batch' \in [Guid -> Int]
      BY <1>1, Parts DEF Bounds
    <3>2. next_slot' \in Int /\ 0 <= next_slot'
      BY <2>1 DEF Sound
    <3>3. \A g \in Guid : -1 <= batch'[g] /\ batch'[g] < next_slot'
      BY <2>2, <3>2 DEF NoSlot
    <3> QED BY <1>1, <2>1, <3>1, <3>3, Parts DEF Bounds, Sound
  <2>4. OneUse'
    BY <1>1, <2>1, <2>2 DEF OneUse, Sound
  <2>5. ReadersHold' /\ ReadIsOfResolvedFrame'
    BY <1>1, <2>1, Parts DEF ReadersHold, ReadIsOfResolvedFrame, NoReaders
  <2>6. Phases'
    BY <1>1, <1>2, <2>1 DEF Phases, Relocating
  <2> QED BY <1>1, <1>3, <2>3, <2>4, <2>5, <2>6, Parts, Assemble DEF PCs
<1> QED BY <1>4, <1>5 DEF SnapshotFails

\* vacuum drains the readers and plans its moves.
LEMMA EnterVacuumIInv ==
    ASSUME IInv, EnterVacuum
    PROVE  IInv'
<1> USE DEF SlotVars, manifest, files, logs, work
<1>1. PlanSound' /\ plan' \in [Guid -> Int]
  BY PlanIsSound DEF EnterVacuum, IInv, Types
<1>2. /\ pc = "v_enter" /\ pc' \in {"v_apply", "v_copy"} /\ job' = "relocate" /\ NoReaders
      /\ UNCHANGED SlotVars
      /\ UNCHANGED <<ddata, dinteg, manifest_dirty>>
  BY DEF EnterVacuum
<1>3. batch = Nothing /\ pending_free = {}
  BY <1>2, Parts DEF Phases
<1>4. Phases'
  BY <1>1, <1>2, <1>3 DEF Phases, Relocating, Publishing, NoReaders
<1> QED BY <1>1, <1>2, <1>4, Parts, QuietStep DEF PCs

\* SyncCopies writes nothing and CopyFails gives the relocation up.
LEMMA CopiesIInv ==
    ASSUME IInv, SyncCopies \/ CopyFails
    PROVE  IInv'
<1> USE DEF SlotVars, manifest, files, logs, work
<1>1. ASSUME SyncCopies PROVE IInv'
  <2>1. Phases'
    BY <1>1, Parts, Zenon DEF SyncCopies, Phases, PCs, Publishing, Relocating, PlanSound, NoReaders
  <2>2. ddata' \in [Slots -> Int] /\ dinteg' \in [Slots -> Int]
    BY <1>1, Parts DEF SyncCopies, Bounds
  <2> QED BY <1>1, <2>1, <2>2, Parts, QuietStep DEF SyncCopies, PCs
<1>2. ASSUME CopyFails PROVE IInv'
  <2>1. Phases'
    BY <1>2, Parts DEF CopyFails, VacuumReturns, Phases, PCs, Publishing, Relocating
  <2>2. plan' \in [Guid -> Int]
    BY <1>2 DEF CopyFails, VacuumReturns, Nothing, NoSlot
  <2> QED BY <1>2, <2>1, <2>2, Parts, QuietStep DEF CopyFails, VacuumReturns, PCs
<1> QED BY <1>1, <1>2

\* copy_relocated_slots writes only reusable slots, with no reader inside.
LEMMA CopySlotsIInv ==
    ASSUME IInv, CopySlots
    PROVE  IInv'
<1> USE DEF manifest, files, logs, work
<1>1. /\ UNCHANGED <<entries, next_slot, reusable, pending_free, manifest_dirty, ddata, dinteg,
                     job, batch, image, plan, backup, rd, writes>>
      /\ pc = "v_copy" /\ pc' = "v_sync" /\ data' = Copied(data) /\ integ' = Copied(integ)
  BY DEF CopySlots
<1>2. PlanSound /\ NoReaders
  BY <1>1, Parts DEF Phases
<1>3. ASSUME NEW file \in [Slots -> Int] PROVE Copied(file) \in [Slots -> Int]
  <2>1. ASSUME NEW s \in Slots, NEW g \in Guid, plan[g] = s PROVE entries[g] \in Slots
    <3>1. plan[g] # NoSlot
      BY <2>1, StoreAssumption DEF Slots, NoSlot
    <3>2. entries[g] # NoSlot
      BY <1>2, <3>1 DEF PlanSound
    <3> QED BY <3>2, Parts, StoreAssumption DEF Bounds, Slots, NoSlot
  <2> QED BY <2>1 DEF Copied
<1>4. data' \in [Slots -> Int] /\ integ' \in [Slots -> Int]
  BY <1>1, <1>3, Parts DEF Bounds
<1>5. Bounds' /\ OneUse'
  BY <1>1, <1>4, Parts DEF Bounds, OneUse
<1>6. ReadersHold' /\ ReadIsOfResolvedFrame'
  BY <1>1, <1>2, Zenon DEF ReadersHold, ReadIsOfResolvedFrame, NoReaders
<1>7. Phases'
  BY <1>1, <1>2, Parts DEF Phases, PlanSound, NoReaders, Relocating, Publishing
<1> QED BY <1>1, <1>5, <1>6, <1>7, Parts, Assemble DEF PCs

\* apply_relocation_plan keeps the uses of the slots apart.
LEMMA ApplyPlanIInv ==
    ASSUME IInv, ApplyPlan
    PROVE  IInv'
<1> USE DEF manifest, files, logs, work
<1> DEFINE holes == IF plan = Nothing THEN reusable ELSE (0..(next_slot - 1)) \ Held(entries')
           free == holes \cup pending_free
           n == Trimmed(free, next_slot)
<1>1. /\ UNCHANGED <<manifest_dirty, data, integ, ddata, dinteg, job, batch, image, plan, rd, writes>>
      /\ pc = "v_apply" /\ pc' \in {"snapshot", "v_shrink"} /\ pending_free' = {}
      /\ backup' = [entries |-> entries, next |-> next_slot, reusable |-> reusable]
      /\ entries' = [g \in Guid |-> IF plan[g] # NoSlot THEN plan[g] ELSE entries[g]]
  BY DEF ApplyPlan
<1>2. next_slot' = n /\ reusable' = {s \in free : s < n}
  BY DEF ApplyPlan
<1>3. PlanSound /\ NoReaders /\ batch = Nothing /\ pending_free = {} /\ job = "relocate"
  BY <1>1, Parts DEF Phases
<1>4. /\ entries' \in [Guid -> Int]
      /\ \A g \in Guid : \/ plan[g] # NoSlot /\ entries'[g] = plan[g]
                         \/ plan[g] = NoSlot /\ entries'[g] = entries[g]
  BY <1>1, Parts DEF Bounds
<1>5. \A g \in Guid : -1 <= entries'[g] /\ entries'[g] < next_slot
  BY <1>3, <1>4, Parts DEF PlanSound, Bounds
<1>6. \A g, h \in Guid : g # h /\ entries'[g] = entries'[h] => entries'[g] = NoSlot
  BY <1>3, <1>4, Parts DEF PlanSound, OneUse
<1>7. \A s \in free : s \in Int /\ 0 <= s /\ s < next_slot
  BY <1>3, Parts DEF Bounds
<1>8. \A g \in Guid : entries'[g] # NoSlot => entries'[g] \notin free
  <2>1. CASE plan = Nothing
    <3>1. \A g \in Guid : entries'[g] = entries[g]
      BY <1>4, <2>1 DEF Nothing
    <3> QED BY <1>3, <2>1, <3>1, Parts DEF OneUse
  <2>2. CASE plan # Nothing
    BY <1>3, <2>2 DEF Held
  <2> QED BY <2>1, <2>2
<1>9. /\ n \in Int /\ 0 <= n /\ n <= next_slot /\ next_slot <= NumSlots /\ next_slot \in Int
      /\ \A s \in 0..(next_slot - 1) : s \notin free => s < n
  <2>1. next_slot \in Nat
    BY Parts DEF Bounds
  <2> QED BY <2>1, Parts, TrimmedBounds DEF Bounds
<1> HIDE DEF n, free
<1>10. Bounds'
  <2>1. \A g \in Guid : -1 <= entries'[g] /\ entries'[g] < n
    BY <1>4, <1>5, <1>8, <1>9 DEF NoSlot
  <2>2. batch' \in [Guid -> Int] /\ \A g \in Guid : -1 <= batch'[g] /\ batch'[g] < n
    BY <1>1, <1>3, <1>9 DEF Nothing, NoSlot
  <2>3. \A s \in reusable' : s \in Int /\ 0 <= s /\ s < n
    BY <1>2, <1>7, Zenon
  <2>4. next_slot' \in Int /\ 0 <= next_slot' /\ next_slot' <= NumSlots
    BY <1>2, <1>9, StoreAssumption
  <2>5. data' \in [Slots -> Int] /\ integ' \in [Slots -> Int]
    BY <1>1, Parts DEF Bounds
  <2> QED BY <1>1, <1>2, <1>4, <2>1, <2>2, <2>3, <2>4, <2>5 DEF Bounds
<1>11. OneUse'
  <2>1. \A g \in Guid : batch'[g] = NoSlot
    BY <1>1, <1>3, Zenon DEF Nothing
  <2> QED BY <1>1, <1>2, <1>6, <1>8, <2>1, Zenon DEF OneUse
<1>12. ReadersHold' /\ ReadIsOfResolvedFrame'
  BY <1>1, <1>3 DEF ReadersHold, ReadIsOfResolvedFrame, NoReaders
<1>13. Sound(backup'.entries, backup'.next, backup'.reusable)
  <2>1. \A g \in Guid : entries[g] \notin reusable
    BY Parts DEF OneUse, Bounds, NoSlot
  <2>2. Sound(entries, next_slot, reusable)
    BY <2>1, Parts DEF Bounds, OneUse, Sound
  <2> QED BY <1>1, <2>2
<1>14. Phases'
  BY <1>1, <1>3, <1>13, Zenon DEF Phases, NoReaders, Relocating, Publishing
<1> QED BY <1>1, <1>10, <1>11, <1>12, <1>14, Parts, Assemble DEF PCs

\* shrink_packed_files and the hole punching run with no reader inside.
LEMMA ShrinkIInv ==
    ASSUME IInv, ShrinkFiles
    PROVE  IInv'
<1> USE DEF manifest, files, logs, work
<1>1. /\ UNCHANGED <<entries, next_slot, reusable, pending_free, manifest_dirty, batch, image,
                     rd, writes>>
      /\ pc = "v_shrink" /\ pc' = "idle" /\ job' = "flush" /\ plan' = Nothing
  BY DEF ShrinkFiles, VacuumReturns
<1>2. /\ data' \in [Slots -> Int] /\ integ' \in [Slots -> Int]
      /\ ddata' \in [Slots -> Int] /\ dinteg' \in [Slots -> Int]
  BY Parts DEF ShrinkFiles, Bounds, EMPTY
<1>3. NoReaders /\ pending_free = {} /\ batch = Nothing
  BY <1>1, Parts DEF Phases
<1>4. Bounds' /\ OneUse'
  BY <1>1, <1>2, Parts DEF Bounds, OneUse
<1>5. ReadersHold' /\ ReadIsOfResolvedFrame'
  BY <1>1, <1>3 DEF ReadersHold, ReadIsOfResolvedFrame, NoReaders
<1>6. Phases'
  BY <1>1, <1>3 DEF Phases
<1>7. plan' \in [Guid -> Int]
  BY <1>1 DEF Nothing, NoSlot
<1> QED BY <1>1, <1>2, <1>4, <1>5, <1>6, <1>7, Parts, Assemble DEF PCs

\* A reader resolves a slot under the manifest lock and then reads from it.
LEMMA ReadIInv ==
    ASSUME IInv, NEW r \in Reader, Read(r)
    PROVE  IInv'
<1> USE DEF manifest, files, logs, work
<1>1. UNCHANGED <<entries, next_slot, reusable, pending_free, manifest_dirty, data, integ, ddata,
                  dinteg, pc, job, batch, image, plan, backup, writes>>
  BY Zenon DEF Read, Resolve, ReadRecord, ReadFrame, ReadReturns
<1>2. Bounds' /\ OneUse'
  BY <1>1, Parts DEF Bounds, OneUse
<1>3. /\ \A q \in Reader : q # r => rd'[q] = rd[q]
      /\ rd \in [Reader -> ReaderStates]
  BY Parts, Zenon DEF Read, Resolve, ReadRecord, ReadFrame, ReadReturns
<1>4. ASSUME rd'[r] \in ReaderStates,
             rd'[r].pc # "idle" =>
                /\ job # "relocate"
                /\ rd'[r].slot \in pending_free \/ \E g \in Guid : entries[g] = rd'[r].slot
                /\ rd'[r].slot \in Slots
                /\ data[rd'[r].slot] = rd'[r].want /\ integ[rd'[r].slot] = rd'[r].wantrec,
             rd'[r].pc \in {"record", "frame"} => rd'[r].rec = rd'[r].wantrec,
             rd'[r].pc = "frame" => rd'[r].got = rd'[r].want,
             DOMAIN rd' = Reader, rd' = [q \in Reader |-> rd'[q]]
      PROVE  IInv'
  <2>1. rd' \in [Reader -> ReaderStates]
    BY <1>3, <1>4
  <2>2. ReadersHold' /\ ReadIsOfResolvedFrame'
    BY <1>1, <1>3, <1>4, Parts DEF ReadersHold, ReadIsOfResolvedFrame
  <2>3. job = "relocate" => NoReaders'
    BY <1>3, <1>4, Parts DEF Phases, NoReaders
  <2>4. Phases'
    BY <1>1, <2>3, Parts, Zenon DEF Phases, PlanSound
  <2> QED BY <1>1, <1>2, <2>1, <2>2, <2>4, Parts, Assemble
<1>5. rd[r] \in ReaderStates /\ (job = "relocate" => rd[r].pc = "idle")
  BY Parts DEF Phases, NoReaders
<1>6. ASSUME NEW g \in Guid, Resolve(r, g) PROVE IInv'
  <2>1. rd'[r] = [Idle EXCEPT !.pc = "resolved", !.slot = entries[g],
                              !.wantrec = integ[entries[g]], !.want = data[entries[g]]]
    BY <1>3, <1>6 DEF Resolve
  <2>2. entries[g] \in Slots
    BY <1>6, Parts, StoreAssumption DEF Resolve, Bounds, Slots, NoSlot
  <2>3. entries[g] \in Int /\ data[entries[g]] \in Int /\ integ[entries[g]] \in Int
    BY <2>2, Parts DEF Bounds
  <2>4. rd'[r] \in ReaderStates
    <3>1. rd'[r] = [pc |-> "resolved", slot |-> entries[g], rec |-> 0, got |-> 0,
                    wantrec |-> integ[entries[g]], want |-> data[entries[g]]]
      BY <2>1, Zenon DEF Idle, EMPTY
    <3> QED BY <2>3, <3>1 DEF ReaderStates
  <2>5. /\ rd'[r].pc = "resolved" /\ rd'[r].slot = entries[g]
        /\ rd'[r].want = data[entries[g]] /\ rd'[r].wantrec = integ[entries[g]]
    BY <2>1 DEF Idle
  <2>6. DOMAIN rd' = Reader /\ rd' = [q \in Reader |-> rd'[q]]
    BY <1>3, <1>6, Zenon DEF Resolve
  <2>7. job # "relocate"
    BY <1>6 DEF Resolve, SlotsExclusive
  <2> QED BY <1>4, <2>2, <2>4, <2>5, <2>6, <2>7
<1>7. ASSUME ReadRecord(r) PROVE IInv'
  <2>1. /\ rd'[r] = [rd[r] EXCEPT !.pc = "record", !.rec = integ[rd[r].slot]]
        /\ DOMAIN rd' = Reader /\ rd' = [q \in Reader |-> rd'[q]] /\ rd[r].pc = "resolved"
    BY <1>3, <1>7, Zenon DEF ReadRecord
  <2>2. rd[r].slot \in Slots /\ integ[rd[r].slot] \in Int
    BY <2>1, Parts DEF ReadersHold, Bounds
  <2>3. rd'[r] \in ReaderStates
    BY <1>5, <2>1, <2>2, Zenon DEF ReaderStates
  <2>4. /\ rd'[r].pc = "record" /\ rd'[r].slot = rd[r].slot /\ rd'[r].want = rd[r].want
        /\ rd'[r].wantrec = rd[r].wantrec /\ rd'[r].rec = integ[rd[r].slot]
    BY <1>5, <2>1 DEF ReaderStates
  <2> QED BY <1>4, <1>5, <2>1, <2>3, <2>4, Parts DEF ReadersHold
<1>8. ASSUME ReadFrame(r) PROVE IInv'
  <2>1. /\ rd'[r] = [rd[r] EXCEPT !.pc = "frame", !.got = data[rd[r].slot]]
        /\ DOMAIN rd' = Reader /\ rd' = [q \in Reader |-> rd'[q]] /\ rd[r].pc = "record"
    BY <1>3, <1>8, Zenon DEF ReadFrame
  <2>2. rd[r].slot \in Slots /\ data[rd[r].slot] \in Int
    BY <2>1, Parts DEF ReadersHold, Bounds
  <2>3. rd'[r] \in ReaderStates
    BY <1>5, <2>1, <2>2, Zenon DEF ReaderStates
  <2>4. /\ rd'[r].pc = "frame" /\ rd'[r].slot = rd[r].slot /\ rd'[r].want = rd[r].want
        /\ rd'[r].wantrec = rd[r].wantrec /\ rd'[r].rec = rd[r].rec
        /\ rd'[r].got = data[rd[r].slot]
    BY <1>5, <2>1 DEF ReaderStates
  <2> QED BY <1>4, <1>5, <2>1, <2>3, <2>4, Parts DEF ReadersHold, ReadIsOfResolvedFrame
<1>9. ASSUME ReadReturns(r) PROVE IInv'
  <2>1. rd'[r] = Idle /\ DOMAIN rd' = Reader /\ rd' = [q \in Reader |-> rd'[q]]
    BY <1>3, <1>9, Zenon DEF ReadReturns
  <2>2. rd'[r] \in ReaderStates /\ rd'[r].pc = "idle"
    BY <2>1 DEF ReaderStates, Idle, EMPTY, NoSlot
  <2> QED BY <1>4, <2>1, <2>2
<1> QED BY <1>6, <1>7, <1>8, <1>9 DEF Read

\* A power loss leaves frames and checksums of the right type.
LEMMA SurvivorTypes ==
    ASSUME data \in [Slots -> Int], integ \in [Slots -> Int],
           ddata \in [Slots -> Int], dinteg \in [Slots -> Int], SlotsSurvive
    PROVE  /\ data' \in [Slots -> Int] /\ integ' \in [Slots -> Int]
           /\ ddata' = data' /\ dinteg' = integ'
<1> DEFINE lost == {s \in Slots : ddata[s] # data[s] \/ dinteg[s] # integ[s]}
<1>1. PICK c \in [lost -> UNION {Outcomes(s) : s \in lost}] :
         /\ \A s \in lost : c[s] \in Outcomes(s)
         /\ data' = [s \in Slots |-> IF s \in lost THEN c[s].frame ELSE data[s]]
         /\ integ' = [s \in Slots |-> IF s \in lost THEN c[s].rec ELSE integ[s]]
         /\ ddata' = data' /\ dinteg' = integ'
  BY Zenon DEF SlotsSurvive
<1>2. ASSUME NEW s \in lost PROVE c[s].frame \in Int /\ c[s].rec \in Int
  <2>0. c[s] \in Outcomes(s)
    BY <1>1
  <2> HIDE DEF lost
  <2>1. PICK d \in After(ddata[s], data[s]), i \in After(dinteg[s], integ[s]) : c[s] = Slot(d, i)
    BY <2>0 DEF Outcomes
  <2>2. ddata[s] \in Int /\ data[s] \in Int
    BY DEF lost
  <2>3. d \in Int
    BY <2>2 DEF After, TORN
  <2> QED BY <2>1, <2>3 DEF Slot, TORN, EMPTY
<1> QED BY <1>1, <1>2

\* load_or_create rebuilds the free slots from a mapping it has checked.
LEMMA CrashIInv ==
    ASSUME IInv, CrashAndOpen
    PROVE  IInv'
<1> USE DEF manifest, files, logs, work
<1>0. PICK b \in {bin, dbin}, l \in SurvivingLogs :
        LET st == ReplayLog(b, l)
        IN  /\ SlotsSurvive
            /\ IF st.ok /\ WellFormed(st.entries, st.next)
               THEN /\ pc' = "idle" /\ entries' = st.entries /\ next_slot' = st.next
                    /\ reusable' = (0..(st.next - 1)) \ Held(st.entries)
               ELSE pc' = "broken" /\ UNCHANGED <<entries, next_slot, reusable>>
  BY SMTT(40) DEF CrashAndOpen
<1> DEFINE st == ReplayLog(b, l)
<1> HIDE DEF st
<1>1. /\ SlotsSurvive
      /\ \/ /\ pc' = "idle" /\ WellFormed(st.entries, st.next)
            /\ entries' = st.entries /\ next_slot' = st.next
            /\ reusable' = (0..(st.next - 1)) \ Held(st.entries)
         \/ pc' = "broken" /\ UNCHANGED <<entries, next_slot, reusable>>
  BY <1>0, Zenon DEF st
<1>2. /\ pending_free' = {} /\ manifest_dirty' = FALSE /\ job' = "flush"
      /\ batch' = Nothing /\ image' = NoImage /\ plan' = Nothing
      /\ rd' = [r \in Reader |-> Idle] /\ writes' = writes
  BY DEF CrashAndOpen
<1>3. /\ data' \in [Slots -> Int] /\ integ' \in [Slots -> Int]
      /\ ddata' = data' /\ dinteg' = integ'
  BY <1>1, Parts, SurvivorTypes, Zenon DEF Bounds
<1>4. \A g \in Guid : batch'[g] = NoSlot
  BY <1>2 DEF Nothing
<1>5. /\ image' \in [Guid -> Int] /\ plan' \in [Guid -> Int] /\ batch' \in [Guid -> Int]
      /\ rd' \in [Reader -> ReaderStates]
  BY <1>2 DEF Nothing, NoImage, NoSlot, EMPTY, Idle, ReaderStates
<1>6. Phases'
  BY <1>1, <1>2 DEF Phases
<1>7. ReadersHold' /\ ReadIsOfResolvedFrame'
  BY <1>2, Zenon DEF ReadersHold, ReadIsOfResolvedFrame, Idle
<1>8. CASE UNCHANGED <<entries, next_slot, reusable>>
  <2>1. \A g \in Guid : -1 <= batch'[g] /\ batch'[g] < next_slot'
    BY <1>4, <1>8, Parts DEF Bounds, NoSlot
  <2>2. Bounds' /\ OneUse'
    BY <1>1, <1>2, <1>3, <1>4, <1>5, <1>8, <2>1, Parts, Zenon DEF Bounds, OneUse
  <2> QED BY <1>1, <1>2, <1>3, <1>5, <1>6, <1>7, <2>2, Parts, Assemble, Zenon DEF PCs
<1>9. CASE /\ WellFormed(st.entries, st.next)
           /\ entries' = st.entries /\ next_slot' = st.next
           /\ reusable' = (0..(st.next - 1)) \ Held(st.entries)
  <2>1. PICK e, n : e = st.entries /\ n = st.next
    OBVIOUS
  <2>2. WellFormed(e, n) /\ entries' = e /\ next_slot' = n /\ reusable' = (0..(n - 1)) \ Held(e)
    BY <1>9, <2>1
  <2>3. n \in Int /\ 0 <= n /\ n <= NumSlots /\ e \in [Guid -> -1..(n - 1)]
    BY <2>2, StoreAssumption DEF WellFormed
  <2>4. e \in [Guid -> Int] /\ \A g \in Guid : -1 <= e[g] /\ e[g] < n
    BY <2>3, MarkBounds
  <2>5. \A s \in reusable' : s \in Int /\ 0 <= s /\ s < n
    BY <2>2, <2>3
  <2>6. \A g \in Guid : -1 <= batch'[g] /\ batch'[g] < n
    BY <1>4, <2>3 DEF NoSlot
  <2>7. Bounds'
    BY <1>1, <1>2, <1>3, <1>5, <2>2, <2>3, <2>4, <2>5, <2>6 DEF Bounds
  <2>8. OneUse'
    BY <1>2, <1>4, <2>2 DEF OneUse, WellFormed, Held
  <2> QED BY <1>1, <1>2, <1>3, <1>5, <1>6, <1>7, <2>7, <2>8, Parts, Assemble, Zenon DEF PCs
<1> QED BY <1>1, <1>8, <1>9

(* ---- theorems ---- *)

\* IInv is an invariant of the store: one lemma per kind of step.
THEOREM StoreInvariant == Spec => []IInv
<1>1. Init => IInv
  BY InitIInv
<1>2. IInv /\ [Next]_vars => IInv'
  <2> SUFFICES ASSUME IInv, [Next]_vars PROVE IInv'
    OBVIOUS
  <2>1. CASE Write
    BY <2>1, ReserveIInv, WriteSlotsIInv, WriteFailsIInv, PublishIInv, DeleteIInv DEF Write
  <2>2. CASE Flush
    BY <2>2, FlushIInv, FenceIInv DEF Flush
  <2>3. CASE Snapshot
    BY <2>3, SnapshotIInv, SnapshotFailsIInv DEF Snapshot
  <2>4. CASE Vacuum
    BY <2>4, EnterVacuumIInv, CopySlotsIInv, CopiesIInv, ApplyPlanIInv, ShrinkIInv DEF Vacuum
  <2>5. CASE \E r \in Reader : Read(r)
    BY <2>5, ReadIInv
  <2>6. CASE CrashAndOpen
    BY <2>6, CrashIInv
  <2>7. CASE UNCHANGED vars
    <3>1. /\ UNCHANGED SlotVars
          /\ UNCHANGED <<pc, job, manifest_dirty, ddata, dinteg, plan, backup>>
      BY <2>7 DEF vars, manifest, files, work, SlotVars
    <3>2. Phases'
      BY <3>1, Parts, Zenon DEF Phases, PlanSound, NoReaders, SlotVars
    <3> QED BY <3>1, <3>2, Parts, QuietStep
  <2> QED BY <2>1, <2>2, <2>3, <2>4, <2>5, <2>6, <2>7 DEF Next
<1> QED BY <1>1, <1>2, PTL DEF Spec

\* Every slot the manifest knows of lies below the high-water mark, which never
\* passes the capacity of the file.
THEOREM StoreTyping == Spec => []TypeOK
<1>1. IInv => TypeOK
  BY DEF IInv, Types
<1> QED BY <1>1, StoreInvariant, PTL

\* No slot of blobs.dat is ever in two uses: allocation, publication, error
\* rollback, delete, fence, relocation and recovery all keep them apart.
THEOREM StoreSlots == Spec => []SlotsHaveOneUse
<1>1. IInv => SlotsHaveOneUse
  BY DEF IInv
<1> QED BY <1>1, StoreInvariant, PTL

\* A read returns the frame its guid was mapped to when it resolved the slot.
THEOREM StoreReads == Spec => []ReadIsOfResolvedFrame
<1>1. IInv => ReadIsOfResolvedFrame
  BY DEF IInv
<1> QED BY <1>1, StoreInvariant, PTL

=============================================================================
