------------------------ MODULE FileStoreWriteProofs ------------------------
(***************************************************************************)
(* The steps of FileStore that take, publish, park or release a slot keep  *)
(* IInv: prepare_blob_writes, the frame and checksum writes, their error   *)
(* path, publish_blob_writes, delete_blob and the fence of a flush.        *)
(***************************************************************************)
EXTENDS FileStoreInvariant

\* prepare_blob_writes takes slots nobody uses.
LEMMA ReserveIInv ==
    ASSUME IInv, NEW W \in Batches, WriteReserve(W)
    PROVE  IInv'
<1> USE StoreAssumption DEF manifest, files, logs, work
<1>0. /\ Bounds /\ OneUse /\ Phases /\ ReadersHold /\ ReadIsOfResolvedFrame
      /\ W \subseteq Guid /\ pc = "idle" /\ batch = Nothing
  BY Parts, Zenon DEF WriteReserve, Phases, Batches
<1>1. PICK n \in 0..MaxBatch, f \in [W -> Slots] :
        /\ Allocates(W, f, n)
        /\ batch' = [g \in Guid |-> IF g \in W THEN f[g] ELSE NoSlot]
        /\ reusable' = reusable \ {f[g] : g \in W}
        /\ next_slot' = next_slot + n
  BY DEF WriteReserve
<1>3. Cardinality(W) \in Nat /\ writes \in Int
  BY <1>0, Parts, FS_Subset, FS_CardinalityType
<1>4. n \in Int /\ 0 <= n /\ next_slot \in Int /\ next_slot + n <= NumSlots
  BY <1>0, <1>1 DEF Bounds, Allocates
<1>5. \A g \in W : /\ f[g] \in Int /\ 0 <= f[g] /\ f[g] < next_slot + n
                   /\ f[g] \in reusable \/ f[g] >= next_slot
  <2> SUFFICES ASSUME NEW g \in W
               PROVE  /\ f[g] \in Int /\ 0 <= f[g] /\ f[g] < next_slot + n
                      /\ f[g] \in reusable \/ f[g] >= next_slot
    OBVIOUS
  <2>1. f[g] \in reusable \/ f[g] \in next_slot..(next_slot + n - 1)
    BY <1>1 DEF Allocates
  <2>2. CASE f[g] \in reusable
    BY <1>0, <1>4, <2>2 DEF Bounds
  <2>3. CASE f[g] \in next_slot..(next_slot + n - 1)
    BY <1>0, <1>4, <2>3 DEF Bounds
  <2> QED BY <2>1, <2>2, <2>3
<1>6. Bounds'
  <2>1. batch' \in [Guid -> Int] /\ \A g \in Guid : -1 <= batch'[g] /\ batch'[g] < next_slot'
    BY <1>0, <1>1, <1>4, <1>5 DEF NoSlot, Bounds
  <2>2. \A g \in Guid : -1 <= entries'[g] /\ entries'[g] < next_slot'
    BY <1>0, <1>1, <1>4 DEF Bounds, WriteReserve
  <2>3. \A s \in reusable' : s \in Int /\ 0 <= s /\ s < next_slot'
    BY <1>0, <1>1, <1>4 DEF Bounds
  <2>4. \A s \in pending_free' : s \in Int /\ 0 <= s /\ s < next_slot'
    <3>1. \A s \in pending_free : s \in Int /\ 0 <= s /\ s < next_slot + n
      BY <1>0, <1>4 DEF Bounds
    <3>2. pending_free' = pending_free
      BY DEF WriteReserve
    <3> QED BY <1>1, <3>1, <3>2, Zenon
  <2> QED BY <1>0, <1>1, <1>4, <2>1, <2>2, <2>3, <2>4 DEF Bounds, WriteReserve
<1>7. OneUse'
  <2>1. UNCHANGED <<entries, pending_free>>
    BY Zenon DEF WriteReserve
  <2>3. \A g \in Guid : batch'[g] # NoSlot =>
           g \in W /\ batch'[g] = f[g] /\ batch'[g] \notin reusable'
    BY <1>1
  <2>4. \A g, h \in Guid : g # h /\ batch'[g] = batch'[h] => batch'[g] = NoSlot
    <3>1. \A g, h \in W : f[g] = f[h] => g = h
      BY <1>1 DEF Allocates
    <3> QED BY <2>3, <3>1
  <2>5. \A g, h \in Guid : entries[g] = batch'[h] => entries[g] = NoSlot
    <3> SUFFICES ASSUME NEW g \in Guid, NEW h \in Guid, entries[g] = batch'[h],
                        entries[g] # NoSlot
                 PROVE  FALSE
      OBVIOUS
    <3>1. h \in W /\ entries[g] = f[h]
      BY <2>3
    <3>2. entries[g] \notin reusable /\ entries[g] < next_slot /\ entries[g] \in Int
      BY <1>0 DEF OneUse, Bounds
    <3> QED BY <1>4, <1>5, <3>1, <3>2
  <2>6. \A g \in Guid : batch'[g] # NoSlot => batch'[g] \notin pending_free
    <3> SUFFICES ASSUME NEW g \in Guid, batch'[g] # NoSlot, batch'[g] \in pending_free
                 PROVE  FALSE
      OBVIOUS
    <3>1. g \in W /\ f[g] \in pending_free
      BY <2>3
    <3>2. f[g] \notin reusable /\ f[g] < next_slot
      BY <1>0, <3>1 DEF OneUse, Bounds
    <3> QED BY <1>4, <1>5, <3>1, <3>2
  <2> QED BY <1>0, <1>1, <2>1, <2>3, <2>4, <2>5, <2>6 DEF OneUse
<1>8. Phases'
  BY <1>0 DEF Phases, WriteReserve, PCs, Relocating, Publishing
<1>9. ReadersHold' /\ ReadIsOfResolvedFrame'
  BY <1>0 DEF ReadersHold, ReadIsOfResolvedFrame, WriteReserve
<1>10. image' \in [Guid -> Int]
  <2>1. PICK im \in [W -> (writes + 1)..(writes + Cardinality(W))] :
          image' = [g \in Guid |-> IF g \in W THEN im[g] ELSE EMPTY]
    BY DEF WriteReserve
  <2> QED BY <1>3, <2>1 DEF EMPTY
<1>11. writes' \in Int
  BY <1>3 DEF WriteReserve
<1> QED BY <1>6, <1>7, <1>8, <1>9, <1>10, <1>11, Parts, Assemble DEF WriteReserve, PCs

\* A write into the reserved slots leaves every slot a reader is on alone.
LEMMA ReadersUntouched ==
    ASSUME IInv, UNCHANGED <<rd, entries, pending_free>>,
           \A s \in Slots : (\A g \in Guid : batch[g] # s) =>
                                data'[s] = data[s] /\ integ'[s] = integ[s]
    PROVE  ReadersHold' /\ ReadIsOfResolvedFrame'
<1>1. ASSUME NEW r \in Reader, rd[r].pc # "idle" PROVE \A g \in Guid : batch[g] # rd[r].slot
  <2>1. rd[r].slot # NoSlot
    <3>1. rd[r].slot \in Slots
      BY <1>1, Parts DEF ReadersHold
    <3> QED BY <3>1, StoreAssumption DEF Slots, NoSlot
  <2>2. rd[r].slot \in pending_free \/ \E g \in Guid : entries[g] = rd[r].slot
    BY <1>1, Parts DEF ReadersHold
  <2> QED BY <2>1, <2>2, Parts DEF OneUse
<1> QED BY <1>1, Parts DEF ReadersHold, ReadIsOfResolvedFrame

\* The frames and the records go to the reserved slots.
LEMMA WriteSlotsIInv ==
    ASSUME IInv, NEW synced \in BOOLEAN, WriteSlots(synced)
    PROVE  IInv'
<1> USE DEF manifest, files, logs, work
<1>1. /\ data' \in [Slots -> Int] /\ integ' \in [Slots -> Int]
      /\ \A s \in Slots : (\A g \in Guid : batch[g] # s) =>
                             data'[s] = data[s] /\ integ'[s] = integ[s]
  BY Parts DEF WriteSlots, Filled, Bounds
<1>2. UNCHANGED <<entries, next_slot, reusable, pending_free, batch, image, plan, rd, writes,
                  job, manifest_dirty, dinteg, backup>>
  BY DEF WriteSlots
<1>3. pc = "reserved" /\ pc' = "written" /\ ddata' \in [Slots -> Int]
  BY <1>1, Parts, Zenon DEF WriteSlots
<1>4. ReadersHold' /\ ReadIsOfResolvedFrame'
  BY <1>1, <1>2, ReadersUntouched
<1>5. Bounds' /\ OneUse'
  BY <1>1, <1>2, Parts DEF Bounds, OneUse
<1>6. Phases'
  BY <1>2, <1>3, Parts, Zenon DEF Phases, PCs, Relocating, Publishing
<1> QED BY <1>1, <1>2, <1>3, <1>4, <1>5, <1>6, Parts, Assemble DEF PCs

\* release_reserved_slots gives the slots of a failed write back.
LEMMA WriteFailsIInv ==
    ASSUME IInv, WriteFails
    PROVE  IInv'
<1> USE DEF manifest, files, logs, work
<1> DEFINE free == reusable \cup Held(batch)
           n == Trimmed(free, next_slot)
<1>1. /\ data' \in [Slots -> Int] /\ integ' \in [Slots -> Int]
      /\ \A s \in Slots : (\A g \in Guid : batch[g] # s) =>
                             data'[s] = data[s] /\ integ'[s] = integ[s]
  <2> DEFINE junk == [g \in Guid |-> TORN]
  <2>1. junk \in [Guid -> Int]
    BY DEF TORN
  <2>2. \A f \in [Slots -> Int], v \in [Guid -> Int] :
           /\ Filled(f, v) \in [Slots -> Int]
           /\ \A s \in Slots : (\A g \in Guid : batch[g] # s) => Filled(f, v)[s] = f[s]
    BY DEF Filled
  <2>3. data' = Filled(data, junk) /\ (integ' = integ \/ integ' = Filled(integ, image))
    BY DEF WriteFails
  <2> QED BY <2>1, <2>2, <2>3, Parts DEF Bounds
<1>2. /\ UNCHANGED <<entries, pending_free, manifest_dirty, plan, rd, writes, job, ddata,
                     dinteg, backup>>
      /\ pc = "reserved" /\ pc' = "idle" /\ batch' = Nothing /\ image' = NoImage
      /\ next_slot' = n /\ reusable' = {s \in free : s < n}
  BY DEF WriteFails
<1>3. /\ n \in Int /\ 0 <= n /\ n <= next_slot /\ next_slot <= NumSlots /\ next_slot \in Nat
      /\ \A s \in 0..(next_slot - 1) : s \notin free => s < n
  BY Parts, TrimmedBounds DEF Bounds
<1> HIDE DEF n
<1>4. ReadersHold' /\ ReadIsOfResolvedFrame'
  BY <1>1, <1>2, ReadersUntouched
<1>5. \A g \in Guid : entries[g] # NoSlot => entries[g] \notin free
  BY Parts DEF OneUse, Held
<1>6. \A s \in pending_free : s \notin free
  BY Parts DEF OneUse, Held
<1>7. Bounds'
  <2>1. \A g \in Guid : -1 <= entries[g] /\ entries[g] < n
    BY <1>3, <1>5, Parts DEF Bounds, NoSlot
  <2>2. \A s \in pending_free : s \in Int /\ 0 <= s /\ s < n
    BY <1>3, <1>6, Parts DEF Bounds
  <2>3. \A s \in free : s \in Int /\ 0 <= s
    BY Parts DEF Bounds, Held, NoSlot
  <2>4. batch' \in [Guid -> Int] /\ \A g \in Guid : -1 <= batch'[g] /\ batch'[g] < n
    BY <1>2, <1>3 DEF Nothing, NoSlot
  <2>5. entries \in [Guid -> Int]
    BY Parts DEF Bounds
  <2>6. \A s \in reusable' : s \in Int /\ 0 <= s /\ s < n
    BY <1>2, <2>3, Zenon
  <2> HIDE DEF free
  <2>7. next_slot' \in Int /\ 0 <= next_slot' /\ next_slot' <= NumSlots
    BY <1>2, <1>3, StoreAssumption
  <2> QED BY <1>1, <1>2, <2>1, <2>2, <2>4, <2>5, <2>6, <2>7 DEF Bounds
<1>8. OneUse'
  <2>1. \A g \in Guid : batch'[g] = NoSlot
    BY <1>2 DEF Nothing
  <2> HIDE DEF free
  <2> QED BY <1>2, <1>5, <1>6, <2>1, Parts DEF OneUse
<1>9. Phases'
  BY <1>2, Parts, Zenon DEF Phases, PCs, Relocating, Publishing
<1>10. image' \in [Guid -> Int]
  BY <1>2 DEF NoImage, EMPTY
<1> QED BY <1>2, <1>4, <1>7, <1>8, <1>9, <1>10, Parts, Assemble DEF PCs

\* publish_blob_writes parks the replaced slots, so their readers stay safe.
LEMMA PublishIInv ==
    ASSUME IInv, PublishWrites
    PROVE  IInv'
<1> USE DEF manifest, files, logs, work
<1> DEFINE W == {g \in Guid : batch[g] # NoSlot}
<1>1. /\ entries' = [g \in Guid |-> IF g \in W THEN batch[g] ELSE entries[g]]
      /\ pending_free' = pending_free \cup ({entries[g] : g \in W} \ {NoSlot})
  BY DEF PublishWrites
<1>2. /\ UNCHANGED <<next_slot, reusable, data, integ, ddata, dinteg, job, plan, backup, rd, writes>>
      /\ pc = "written" /\ pc' = "idle" /\ manifest_dirty' = TRUE
      /\ batch' = Nothing /\ image' = NoImage
  BY DEF PublishWrites
<1>3. \A g \in Guid : \/ batch[g] # NoSlot /\ entries'[g] = batch[g]
                      \/ batch[g] = NoSlot /\ entries'[g] = entries[g]
  BY <1>1
<1>4. \A s \in pending_free' :
        \/ s \in pending_free
        \/ s # NoSlot /\ \E g \in Guid : batch[g] # NoSlot /\ entries[g] = s
  BY <1>1
<1>5. \A g \in Guid : batch[g] # NoSlot /\ entries[g] # NoSlot => entries[g] \in pending_free'
  BY <1>1
<1>6. \A s \in pending_free : s \in pending_free'
  BY <1>1
<1>7. \A g \in Guid : batch'[g] = NoSlot
  BY <1>2 DEF Nothing
<1>8. entries' \in [Guid -> Int]
  BY <1>1, Parts DEF Bounds
<1> HIDE DEF W
<1>9. Bounds'
  <2>1. \A g \in Guid : -1 <= entries'[g] /\ entries'[g] < next_slot
    BY <1>3, Parts DEF Bounds
  <2>2. \A s \in pending_free' : s \in Int /\ 0 <= s /\ s < next_slot
    BY <1>4, Parts DEF Bounds, NoSlot
  <2>3. batch' \in [Guid -> Int] /\ \A g \in Guid : -1 <= batch'[g] /\ batch'[g] < next_slot
    BY <1>2, Parts DEF Nothing, NoSlot, Bounds
  <2> QED BY <1>2, <1>8, <2>1, <2>2, <2>3, Parts DEF Bounds
<1>10. OneUse'
  <2>1. \A g, h \in Guid : g # h /\ entries'[g] = entries'[h] => entries'[g] = NoSlot
    BY <1>3, Parts DEF OneUse
  <2>2. \A g \in Guid : entries'[g] # NoSlot => entries'[g] \notin reusable /\ entries'[g] \notin pending_free'
    <3> SUFFICES ASSUME NEW g \in Guid, entries'[g] # NoSlot
                 PROVE  entries'[g] \notin reusable /\ entries'[g] \notin pending_free'
      OBVIOUS
    <3>1. entries'[g] \notin reusable /\ entries'[g] \notin pending_free
      BY <1>3, Parts DEF OneUse
    <3>2. ASSUME NEW h \in Guid, batch[h] # NoSlot, entries[h] = entries'[g] PROVE FALSE
      BY <1>3, <3>2, Parts DEF OneUse
    <3> QED BY <1>4, <3>1, <3>2
  <2>3. \A s \in reusable : s \notin pending_free'
    BY <1>4, Parts DEF OneUse
  <2> QED BY <1>2, <1>7, <2>1, <2>2, <2>3 DEF OneUse
<1>11. Phases'
  BY <1>2, Parts DEF Phases, PCs, Relocating, Publishing
<1>12. ReadersHold' /\ ReadIsOfResolvedFrame'
  <2>1. ASSUME NEW r \in Reader, rd[r].pc # "idle"
        PROVE  rd[r].slot \in pending_free' \/ \E g \in Guid : entries'[g] = rd[r].slot
    <3>1. rd[r].slot \in Slots
      BY <2>1, Parts DEF ReadersHold
    <3>2. rd[r].slot # NoSlot
      BY <3>1, StoreAssumption DEF Slots, NoSlot
    <3>3. rd[r].slot \in pending_free \/ \E g \in Guid : entries[g] = rd[r].slot
      BY <2>1, Parts DEF ReadersHold
    <3> QED BY <1>3, <1>5, <1>6, <3>2, <3>3
  <2> QED BY <1>2, <2>1, Parts DEF ReadersHold, ReadIsOfResolvedFrame
<1>13. image' \in [Guid -> Int]
  BY <1>2 DEF NoImage, EMPTY
<1> QED BY <1>2, <1>9, <1>10, <1>11, <1>12, <1>13, Parts, Assemble DEF PCs

\* delete_blob parks the slot of the deleted blob.
LEMMA DeleteIInv ==
    ASSUME IInv, NEW g \in Guid, DeleteBlob(g)
    PROVE  IInv'
<1> USE DEF manifest, files, logs, work
<1>1. /\ UNCHANGED <<next_slot, reusable, data, integ, ddata, dinteg, pc, job, batch, image,
                     plan, backup, rd, writes>>
      /\ pc = "idle" /\ entries[g] # NoSlot /\ manifest_dirty' = TRUE
      /\ entries' = [entries EXCEPT ![g] = NoSlot]
      /\ pending_free' = pending_free \cup {entries[g]}
  BY DEF DeleteBlob
<1>2. /\ entries' \in [Guid -> Int] /\ entries'[g] = NoSlot
      /\ \A h \in Guid : h # g => entries'[h] = entries[h]
  BY <1>1, Parts DEF Bounds, NoSlot
<1>3. Bounds'
  <2>1. \A h \in Guid : -1 <= entries'[h] /\ entries'[h] < next_slot
    BY <1>2, Parts DEF Bounds, NoSlot
  <2>2. \A s \in pending_free' : s \in Int /\ 0 <= s /\ s < next_slot
    BY <1>1, Parts DEF Bounds, NoSlot
  <2> QED BY <1>1, <1>2, <2>1, <2>2, Parts DEF Bounds
<1>4. OneUse'
  BY <1>1, <1>2, Parts DEF OneUse
<1>5. Phases'
  BY <1>1, Parts DEF Phases, PCs, Relocating, Publishing
<1>6. ReadersHold' /\ ReadIsOfResolvedFrame'
  BY <1>1, <1>2, Parts DEF ReadersHold, ReadIsOfResolvedFrame
<1> QED BY <1>1, <1>3, <1>4, <1>5, <1>6, Parts, Assemble

\* The fence of a flush hands the parked slots out once their readers are gone.
LEMMA FenceIInv ==
    ASSUME IInv, Fence
    PROVE  IInv'
<1> USE DEF manifest, files, logs, work
<1>1. /\ UNCHANGED <<entries, next_slot, data, integ, ddata, dinteg, job, batch, image, plan,
                     backup, rd, writes, manifest_dirty>>
      /\ pc = "f_fence" /\ pc' \in {"idle", "v_enter"} /\ NoReaders
      /\ reusable' = reusable \cup pending_free /\ pending_free' = {}
  BY DEF Fence, Flushed
<1>2. Bounds' /\ OneUse'
  BY <1>1, Parts DEF Bounds, OneUse
<1>3. Phases'
  BY <1>1, Parts DEF Phases, PCs, Relocating, Publishing
<1>4. ReadersHold' /\ ReadIsOfResolvedFrame'
  BY <1>1, Parts, Zenon DEF ReadersHold, ReadIsOfResolvedFrame, NoReaders
<1> QED BY <1>1, <1>2, <1>3, <1>4, Parts, Assemble DEF PCs

=============================================================================
