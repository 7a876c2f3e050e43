----------------------------- MODULE GateProofs -----------------------------
(* Proofs about the admission gate, for every finite set of threads and every *)
(* width of the count field.                                                  *)
EXTENDS Gate, FiniteSetTheorems, TLAPS

(* What makes mutual exclusion inductive: the bit is set exactly while one    *)
(* thread is draining or exclusive, that thread is unique, the count is       *)
(* exact, and an exclusive thread has seen it reach zero.                     *)
IInv == /\ TypeOK
        /\ CountIsExact
        /\ \A t \in Threads : pc[t] \in {"draining", "exclusive"} => write_bit
        /\ \A t, u \in Threads : /\ pc[t] \in {"draining", "exclusive"}
                                 /\ pc[u] \in {"draining", "exclusive"}
                                 => t = u
        /\ \A t \in Threads : pc[t] = "exclusive" => count = 0

(* The shared holders form a finite set, so counting them makes sense.        *)
LEMMA HoldersFinite == IsFiniteSet(Holders("shared"))
  BY GateAssumption, FS_Subset DEF Holders

(* A count of zero means that no GateReadGuard is alive.                      *)
LEMMA ZeroMeansNone ==
  ASSUME CountIsExact, count = 0
  PROVE  Holders("shared") = {}
  BY HoldersFinite, FS_EmptySet DEF CountIsExact

(* The gate starts open and empty.                                            *)
LEMMA InitIInv == Init => IInv
  <1> SUFFICES ASSUME Init PROVE IInv
    OBVIOUS
  <1>1. Holders("shared") = {}
    BY DEF Init, Holders
  <1>2. Cardinality(Holders("shared")) = 0
    BY <1>1, FS_EmptySet
  <1>3. TypeOK
    <2>1. count \in 0..COUNT_MASK
      BY GateAssumption DEF Init
    <2>2. pc \in [Threads -> Places]
      BY DEF Init, Places
    <2> QED
      BY <2>1, <2>2, Zenon DEF Init, TypeOK
  <1>4. \A t \in Threads : pc[t] = "outside"
    BY DEF Init
  <1> QED
    BY <1>2, <1>3, <1>4 DEF Init, IInv, CountIsExact

(* One more shared guard raises the count by one.                             *)
LEMMA EnterSharedIInv ==
  ASSUME IInv, NEW t \in Threads, EnterShared(t)
  PROVE  IInv'
  <1>1. Holders("shared")' = Holders("shared") \cup {t}
    BY DEF EnterShared, Holders, IInv, TypeOK
  <1>2. t \notin Holders("shared")
    BY DEF EnterShared, Holders
  <1>3. Cardinality(Holders("shared")') = Cardinality(Holders("shared")) + 1
    BY <1>1, <1>2, HoldersFinite, FS_AddElement
  <1> QED
    BY <1>3, GateAssumption DEF EnterShared, IInv, TypeOK, CountIsExact, Places

(* One shared guard less lowers the count by one, and it was not zero.        *)
LEMMA LeaveSharedIInv ==
  ASSUME IInv, NEW t \in Threads, LeaveShared(t)
  PROVE  IInv'
  <1>1. t \in Holders("shared") /\ Holders("shared")' = Holders("shared") \ {t}
    BY DEF LeaveShared, Holders, IInv, TypeOK
  <1>2. Cardinality(Holders("shared")') = Cardinality(Holders("shared")) - 1
    BY <1>1, HoldersFinite, FS_RemoveElement
  <1>3. count # 0
    BY <1>1, ZeroMeansNone DEF IInv
  <1> QED
    BY <1>2, <1>3, GateAssumption DEF LeaveShared, IInv, TypeOK, CountIsExact, Places

(* Setting the bit, draining and leaving exclusively touch no shared guard.   *)
LEMMA ExclusiveIInv ==
  ASSUME IInv, NEW t \in Threads,
         SetWriteBit(t) \/ Drained(t) \/ LeaveExclusive(t)
  PROVE  IInv'
  <1>1. Holders("shared")' = Holders("shared")
    BY DEF SetWriteBit, Drained, LeaveExclusive, Holders, IInv, TypeOK
  <1>2. CASE SetWriteBit(t)
    BY <1>1, <1>2 DEF SetWriteBit, IInv, TypeOK, CountIsExact, Places
  <1>3. CASE Drained(t)
    BY <1>1, <1>3 DEF Drained, IInv, TypeOK, CountIsExact, Places
  <1>4. CASE LeaveExclusive(t)
    BY <1>1, <1>4, GateAssumption DEF LeaveExclusive, IInv, TypeOK, CountIsExact, Places
  <1> QED
    BY <1>2, <1>3, <1>4

(* Every reachable state of the gate satisfies the inductive invariant.       *)
THEOREM GateInvariant == Spec => []IInv
  <1>1. IInv /\ [Next]_vars => IInv'
    <2> SUFFICES ASSUME IInv, [Next]_vars PROVE IInv'
      OBVIOUS
    <2>1. CASE UNCHANGED vars
      BY <2>1 DEF vars, IInv, TypeOK, CountIsExact, Holders
    <2>2. ASSUME NEW t \in Threads, EnterShared(t) PROVE IInv'
      BY <2>2, EnterSharedIInv
    <2>3. ASSUME NEW t \in Threads, LeaveShared(t) PROVE IInv'
      BY <2>3, LeaveSharedIInv
    <2>4. ASSUME NEW t \in Threads,
                 SetWriteBit(t) \/ Drained(t) \/ LeaveExclusive(t)
          PROVE  IInv'
      BY <2>4, ExclusiveIInv
    <2> QED
      BY <2>1, <2>2, <2>3, <2>4 DEF Next
  <1> QED
    BY InitIInv, <1>1, PTL DEF Spec

(* The word and the positions of the threads keep their types.                *)
THEOREM GateTyping == Spec => []TypeOK
  BY GateInvariant, PTL DEF IInv

(* No thread holds any guard of the gate while another holds an exclusive or  *)
(* batch guard: enter_exclusive's drain really is a barrier.                  *)
THEOREM GateMutualExclusion == Spec => []MutualExclusion
  <1>1. IInv => MutualExclusion
    BY ZeroMeansNone DEF IInv, MutualExclusion, Holders, TypeOK
  <1> QED
    BY GateInvariant, <1>1, PTL

(* leave_exclusive's store of 0 never forgets a live shared guard.            *)
THEOREM GateCountIsExact == Spec => []CountIsExact
  BY GateInvariant, PTL DEF IInv

=============================================================================
