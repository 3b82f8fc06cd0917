------------------------ MODULE DestinationLock_proofs ------------------------
(***************************************************************************)
(* For any number of processes, threads, guards and paths: the type        *)
(* invariant, the separation of the trees of two guards, the ownership of  *)
(* every writer, the safety of the idle clean-up, that it runs once, and   *)
(* that the guards implement the abstract ownership of Ownership.tla. The  *)
(* inductive invariant adds what the code relies on silently: who holds    *)
(* the mutexes, that the lease counter is the number of leases, that a     *)
(* path is locked after its ancestors, and that a roll-back only takes     *)
(* back its own keys.                                                      *)
(***************************************************************************)
EXTENDS DestinationLock, FiniteSetTheorems, TLAPS

CloseLabels == {"closeParent", "cleanup", "idleParent", "idleOwn", "idleCheck",
                "closeLeaveParent", "closeLeave"}
CloseParentLabels == {"cleanup", "idleParent", "idleOwn", "idleCheck", "closeLeaveParent"}
ParentLabels == {"addParent", "enter", "leaveParent", "closeParent", "idleParent",
                 "closeLeaveParent"}

\* A thread inside a call or an operation body is about a guard of its process.
OnInv ==
    \A t \in Thread :
        /\ pc[t] # "ready" \/ depth[t] > 0 =>
              on[t] \in Guard /\ GuardProc[on[t]] = ThreadProc[t]
        /\ pc[t] \in ParentLabels => HasParent(on[t])
        /\ pc[t] = "leave" => depth[t] > 0
        /\ pc[t] = "enter" => depth[t] < MaxNest

\* The long sections own their mutexes; while add_paths locks keys, no close
\* has begun on its guards.
MutexInv ==
    \A t \in Thread :
        /\ pc[t] \in {"addParent", "lock", "idleCheck"} => mutex[on[t]] = t
        /\ pc[t] \in {"lock", "idleCheck"} => mutex[Root(on[t])] = t
        /\ pc[t] = "idleOwn" /\ HasParent(on[t]) => mutex[Parent[on[t]]] = t
        /\ pc[t] = "lock" => ~closing[Root(on[t])]

\* Lease i of thread t counts in guard g: i is its i-th nested operation (a
\* parent's lease is taken earlier and left later), 0 the lease of a close.
HoldsLease(t, i, g) ==
    \/ on[t] = g /\ i \in 1..depth[t]
    \/ /\ on[t] \in Guard /\ HasParent(on[t]) /\ Parent[on[t]] = g
       /\ i \in 1..(IF pc[t] \in {"enter", "leaveParent"} THEN depth[t] + 1 ELSE depth[t])
    \/ i = 0 /\ on[t] = g /\ pc[t] \in CloseLabels
    \/ i = 0 /\ on[t] \in Guard /\ HasParent(on[t]) /\ Parent[on[t]] = g /\ pc[t] \in CloseParentLabels

Leases(g) == {l \in Thread \X (0..(MaxNest + 1)) : HoldsLease(l[1], l[2], g)}

\* _active is the number of leases.
CountInv == \A g \in Guard : active[g] = Cardinality(Leases(g))

\* The kernel's rule, and the order of the keys in add_paths.
KernelInv ==
    \A g, h \in Guard : g # h => \A k \in exclusive[g] : k \notin Held(h)

AncestorInv == \A g \in Guard : \A p \in exclusive[g] : Above[p] \subseteq Held(g)

\* What a roll-back takes back is neither claimed nor needed by older paths.
AcquiredInv ==
    \A t \in Thread :
        /\ pc[t] # "lock" => acquired[t] = {}
        /\ pc[t] = "lock" =>
              /\ \A p \in exclusive[Root(on[t])] \ acquired[t] : Above[p] \cap acquired[t] = {}
              /\ \A g \in Guard : Root(g) = Root(on[t]) => claimed[g] \cap acquired[t] = {}

\* Granted paths stay locked until the root's last leave.
ClaimInv ==
    \A g \in Guard : \/ closing[Root(g)] /\ active[Root(g)] = 0
                     \/ claimed[g] \subseteq exclusive[Root(g)]

WriteInv ==
    \A t \in Thread : writing[t] # NoPath =>
        /\ pc[t] = "ready" /\ depth[t] > 0
        /\ writing[t] \in claimed[on[t]]

IInv == /\ TypeOK /\ OnInv /\ MutexInv /\ CountInv /\ KernelInv /\ AncestorInv
        /\ AcquiredInv /\ ClaimInv /\ WriteInv /\ WriterKeepsState

-----------------------------------------------------------------------------
(* Guards of threads, and the lease counter *)

\* The guard of a busy thread, and the guard that holds its lock files.
LEMMA BusyGuard ==
    ASSUME TypeOK, OnInv, NEW t \in Thread, pc[t] # "ready" \/ depth[t] > 0
    PROVE  /\ on[t] \in Guard /\ Root(on[t]) \in Guard
           /\ GuardProc[on[t]] = ThreadProc[t]
           /\ GuardProc[Root(on[t])] = ThreadProc[t]
           /\ HasParent(on[t]) => Parent[on[t]] = Root(on[t])
           /\ pc[t] \in ParentLabels => HasParent(on[t])
  BY ConstantsAssumption DEF TypeOK, OnInv, Root, HasParent

\* A parent is a root: its own root is itself.
LEMMA RootFacts ==
    ASSUME NEW g \in Guard
    PROVE  /\ Root(g) \in Guard /\ ~HasParent(Root(g)) /\ Root(Root(g)) = Root(g)
           /\ GuardProc[Root(g)] = GuardProc[g]
           /\ HasParent(g) => Parent[g] = Root(g) /\ Root(g) # g
           /\ ~HasParent(g) => Root(g) = g
  BY ConstantsAssumption DEF Root, HasParent

\* A guard has finitely many leases, and none exactly when their number is 0.
LEMMA LeasesFinite ==
    ASSUME NEW g \in Guard
    PROVE  /\ IsFiniteSet(Leases(g))
           /\ Cardinality(Leases(g)) \in Nat
           /\ Cardinality(Leases(g)) = 0 <=> Leases(g) = {}
<1>1. IsFiniteSet(Thread \X (0..(MaxNest + 1)))
  <2>1. 0 \in Int /\ MaxNest + 1 \in Int
    BY ConstantsAssumption
  <2>2. IsFiniteSet(0..(MaxNest + 1))
    BY <2>1, FS_Interval
  <2> QED
    BY <2>2, FS_Product, ConstantsAssumption
<1>2. IsFiniteSet(Leases(g))
  BY <1>1, FS_Subset DEF Leases
<1> QED
  BY <1>2, FS_CardinalityType, FS_EmptySet

\* A guard somebody has a lease of is active.
LEMMA LeaseActive ==
    ASSUME TypeOK, CountInv, NEW g \in Guard, NEW t \in Thread,
           NEW i \in 0..(MaxNest + 1), HoldsLease(t, i, g)
    PROVE  active[g] \in Nat /\ active[g] > 0
<1>1. <<t, i>> \in Leases(g)
  BY DEF Leases
<1> QED
  BY <1>1, LeasesFinite DEF CountInv, TypeOK

\* The leases given back by the four leaving steps are counted.
LEMMA LeavingActive ==
    ASSUME TypeOK, OnInv, CountInv, NEW t \in Thread
    PROVE  /\ pc[t] \in {"leave", "closeLeave"} => active[on[t]] > 0
           /\ pc[t] \in {"leaveParent", "closeLeaveParent"} => active[Parent[on[t]]] > 0
<1>1. CASE pc[t] = "leave"
  <2>1. HoldsLease(t, 1, on[t]) /\ 1 \in 0..(MaxNest + 1)
    BY <1>1, ConstantsAssumption DEF HoldsLease, OnInv, TypeOK
  <2> QED
    BY <1>1, <2>1, BusyGuard, LeaseActive
<1>2. CASE pc[t] = "closeLeave"
  <2>1. HoldsLease(t, 0, on[t]) /\ 0 \in 0..(MaxNest + 1)
    BY <1>2, ConstantsAssumption DEF HoldsLease, CloseLabels
  <2> QED
    BY <1>2, <2>1, BusyGuard, LeaseActive
<1>3. CASE pc[t] = "leaveParent"
  <2>1. HoldsLease(t, depth[t] + 1, Parent[on[t]]) /\ depth[t] + 1 \in 0..(MaxNest + 1)
    BY <1>3, BusyGuard, ConstantsAssumption DEF HoldsLease, TypeOK, ParentLabels
  <2> QED
    BY <1>3, <2>1, BusyGuard, LeaseActive DEF ParentLabels
<1>4. CASE pc[t] = "closeLeaveParent"
  <2>1. HoldsLease(t, 0, Parent[on[t]]) /\ 0 \in 0..(MaxNest + 1)
    BY <1>4, BusyGuard, ConstantsAssumption DEF HoldsLease, CloseParentLabels, ParentLabels
  <2> QED
    BY <1>4, <2>1, BusyGuard, LeaseActive DEF ParentLabels
<1> QED
  BY <1>1, <1>2, <1>3, <1>4

\* Two threads never lock keys for the same root at the same time.
LEMMA OneLocker ==
    ASSUME TypeOK, OnInv, MutexInv, NEW t \in Thread, NEW u \in Thread, u # t,
           pc[t] = "lock", pc[u] = "lock"
    PROVE  Root(on[u]) # Root(on[t])
  BY DEF MutexInv

\* One key is granted: the lowest that is pending, not yet held, no conflict.
LEMMA Granted ==
    ASSUME TypeOK, OnInv, NEW t \in Thread, LockKey(t)
    PROVE  \E k \in Path :
             /\ k \in Required(want[t]) /\ k \notin Held(Root(on[t]))
             /\ \A j \in Pending(t) : Rank[k] <= Rank[j]
             /\ \A h \in Guard \ {Root(on[t])} :
                   k \notin exclusive[h] /\ (k \in want[t] => k \notin shared[h])
             /\ shared' = [shared EXCEPT ![Root(on[t])] = IF k \in want[t] THEN @ ELSE @ \union {k}]
             /\ exclusive' = [exclusive EXCEPT ![Root(on[t])] = IF k \in want[t] THEN @ \union {k} ELSE @]
             /\ acquired' = [acquired EXCEPT ![t] = @ \union {k}]
<1>1. Required(want[t]) \subseteq Path
  BY ConstantsAssumption DEF Required, TypeOK
<1> QED
  BY <1>1 DEF LockKey, Pending, Conflict

-----------------------------------------------------------------------------
(* Type correctness *)

\* Every step is one of the module's actions.
LEMMA StepCases ==
    ASSUME Next, OnInv
    PROVE  \/ \E t \in Thread, g \in Guard, paths \in Requests : Construct(t, g, paths)
           \/ \E t \in Thread, g \in Guard, paths \in Requests : AddPaths(t, g, paths)
           \/ \E t \in Thread : AddPathsParent(t)
           \/ \E t \in Thread : AddPathsRefused(t)
           \/ \E t \in Thread : LockKey(t)
           \/ \E t \in Thread : LockRefused(t)
           \/ \E t \in Thread : LockDone(t)
           \/ \E t \in Thread, g \in Guard : OperationParent(t, g)
           \/ \E t \in Thread : OperationEnter(t)
           \/ \E t \in Thread : OperationRefused(t)
           \/ \E t \in Thread, g \in Guard : OperationRoot(t, g)
           \/ \E t \in Thread : FinishBody(t)
           \/ \E t \in Thread : OperationLeave(t)
           \/ \E t \in Thread : OperationLeaveParent(t)
           \/ \E t \in Thread, p \in Path : StartWrite(t, p)
           \/ \E t \in Thread : StopWrite(t)
           \/ \E t \in Thread, g \in Guard : Close(t, g)
           \/ \E t \in Thread : CloseParent(t)
           \/ \E t \in Thread : Cleanup(t)
           \/ \E t \in Thread : IdleParent(t)
           \/ \E t \in Thread : IdleOwn(t)
           \/ \E t \in Thread : RemoveState(t)
           \/ \E t \in Thread : CloseLeaveParent(t)
           \/ \E t \in Thread : CloseLeave(t)
           \/ \E p \in Process : Crash(p)
  BY DEF Next, Continue, Call, OnInv

\* The type invariant is preserved.
LEMMA TypeStep ==
    ASSUME IInv, Next
    PROVE  TypeOK'
<1>1. ASSUME NEW t \in Thread, NEW g \in Guard, NEW paths \in Requests, Construct(t, g, paths) PROVE TypeOK'
  BY <1>1, ConstantsAssumption DEF Construct, EnterAddPaths, IInv, TypeOK, OnInv, guardVars,
     Labels, Goto, HasParent, Root, ParentLabels
<1>2. ASSUME NEW t \in Thread, NEW g \in Guard, NEW paths \in Requests, AddPaths(t, g, paths) PROVE TypeOK'
  BY <1>2, ConstantsAssumption DEF AddPaths, EnterAddPaths, Caller, IInv, TypeOK, OnInv,
     guardVars, Labels, Goto, HasParent, Root, ParentLabels
<1>3. ASSUME NEW t \in Thread, AddPathsParent(t) PROVE TypeOK'
  BY <1>3, ConstantsAssumption DEF AddPathsParent, IInv, TypeOK, OnInv, guardVars, Labels, Goto,
     HasParent, Root, ParentLabels
<1>4. ASSUME NEW t \in Thread, AddPathsRefused(t) PROVE TypeOK'
  <2> USE DEF TypeOK, Labels, Goto, guardVars
  <2>1. on[t] \in Guard /\ Root(on[t]) \in Guard /\ (HasParent(on[t]) => Parent[on[t]] = Root(on[t]))
    BY <1>4, BusyGuard DEF AddPathsRefused, Return, IInv
  <2>2. /\ shared' \in [Guard -> SUBSET Path] /\ exclusive' \in [Guard -> SUBSET Path]
        /\ acquired' \in [Thread -> SUBSET Path] /\ want' \in [Thread -> SUBSET Path]
    BY <1>4, <2>1 DEF AddPathsRefused, Return, IInv
  <2>3. pc' \in [Thread -> Labels] /\ on' \in [Thread -> Guard \union {NoGuard}]
    BY <1>4, <2>1 DEF AddPathsRefused, Return, IInv
  <2>4. /\ active' \in [Guard -> Nat] /\ depth' \in [Thread -> 0..MaxNest]
        /\ mutex' \in [Guard -> Thread \union {NoThread}]
        BY <1>4, <2>1, LeavingActive, ConstantsAssumption DEF AddPathsRefused, Return, IInv,
       OnInv, ParentLabels
  <2> QED
    BY <1>4, <2>1, <2>2, <2>3, <2>4 DEF AddPathsRefused, Return, IInv
<1>5. ASSUME NEW t \in Thread, LockKey(t) PROVE TypeOK'
  <2>1. on[t] \in Guard /\ Root(on[t]) \in Guard
    BY <1>5, BusyGuard DEF LockKey, IInv
  <2>2. PICK k \in Pending(t) :
          /\ shared' = [shared EXCEPT ![Root(on[t])] = IF k \in want[t] THEN @ ELSE @ \union {k}]
          /\ exclusive' = [exclusive EXCEPT ![Root(on[t])] = IF k \in want[t] THEN @ \union {k} ELSE @]
          /\ acquired' = [acquired EXCEPT ![t] = @ \union {k}]
    BY <1>5 DEF LockKey
  <2>3. k \in Path
    BY <2>1, <2>2, ConstantsAssumption DEF Pending, Required, TypeOK, IInv
  <2>4. /\ shared' \in [Guard -> SUBSET Path] /\ exclusive' \in [Guard -> SUBSET Path]
        /\ acquired' \in [Thread -> SUBSET Path]
    BY <2>1, <2>2, <2>3 DEF TypeOK, IInv
  <2> QED
    BY <1>5, <2>4 DEF LockKey, TypeOK, Labels, IInv
<1>6. ASSUME NEW t \in Thread, LockRefused(t) PROVE TypeOK'
  <2> USE DEF TypeOK, Labels, Goto, guardVars
  <2>1. on[t] \in Guard /\ Root(on[t]) \in Guard /\ (HasParent(on[t]) => Parent[on[t]] = Root(on[t]))
    BY <1>6, BusyGuard DEF LockRefused, Fail, ReleaseMutexes, Return, IInv
  <2>2. /\ shared' \in [Guard -> SUBSET Path] /\ exclusive' \in [Guard -> SUBSET Path]
        /\ acquired' \in [Thread -> SUBSET Path] /\ want' \in [Thread -> SUBSET Path]
    BY <1>6, <2>1 DEF LockRefused, Fail, ReleaseMutexes, Return, IInv
  <2>3. pc' \in [Thread -> Labels] /\ on' \in [Thread -> Guard \union {NoGuard}]
    BY <1>6, <2>1 DEF LockRefused, Fail, ReleaseMutexes, Return, IInv
  <2>4. /\ active' \in [Guard -> Nat] /\ depth' \in [Thread -> 0..MaxNest]
        /\ mutex' \in [Guard -> Thread \union {NoThread}]
        BY <1>6, <2>1, LeavingActive, ConstantsAssumption DEF LockRefused, Fail, ReleaseMutexes,
       Return, IInv, OnInv, ParentLabels
  <2> QED
    BY <1>6, <2>1, <2>2, <2>3, <2>4 DEF LockRefused, Fail, ReleaseMutexes, Return, IInv
<1>7. ASSUME NEW t \in Thread, LockDone(t) PROVE TypeOK'
  BY <1>7, ConstantsAssumption DEF LockDone, ReleaseMutexes, Return, IInv, TypeOK, OnInv,
     guardVars, Labels, Goto, HasParent, Root, ParentLabels
<1>8. ASSUME NEW t \in Thread, NEW g \in Guard, OperationParent(t, g) PROVE TypeOK'
  <2>1. Parent[g] \in Guard
    BY <1>8, RootFacts DEF OperationParent
  <2> QED
    BY <1>8, <2>1 DEF OperationParent, Goto, TypeOK, Labels, IInv
<1>9. ASSUME NEW t \in Thread, OperationEnter(t) PROVE TypeOK'
  <2> USE DEF TypeOK, Labels, Goto, guardVars
  <2>1. on[t] \in Guard /\ Root(on[t]) \in Guard /\ (HasParent(on[t]) => Parent[on[t]] = Root(on[t]))
    BY <1>9, BusyGuard DEF OperationEnter, IInv
  <2>2. /\ shared' \in [Guard -> SUBSET Path] /\ exclusive' \in [Guard -> SUBSET Path]
        /\ acquired' \in [Thread -> SUBSET Path] /\ want' \in [Thread -> SUBSET Path]
    BY <1>9, <2>1 DEF OperationEnter, IInv
  <2>3. pc' \in [Thread -> Labels] /\ on' \in [Thread -> Guard \union {NoGuard}]
    BY <1>9, <2>1 DEF OperationEnter, IInv
  <2>4. /\ active' \in [Guard -> Nat] /\ depth' \in [Thread -> 0..MaxNest]
        /\ mutex' \in [Guard -> Thread \union {NoThread}]
    BY <1>9, <2>1, LeavingActive, ConstantsAssumption DEF OperationEnter, IInv, OnInv, ParentLabels
  <2> QED
    BY <1>9, <2>1, <2>2, <2>3, <2>4 DEF OperationEnter, IInv
<1>10. ASSUME NEW t \in Thread, OperationRefused(t) PROVE TypeOK'
  BY <1>10, ConstantsAssumption DEF OperationRefused, IInv, TypeOK, OnInv, guardVars, Labels,
     Goto, HasParent, Root, ParentLabels
<1>11. ASSUME NEW t \in Thread, NEW g \in Guard, OperationRoot(t, g) PROVE TypeOK'
  BY <1>11, ConstantsAssumption DEF OperationRoot, Caller, IInv, TypeOK, OnInv, guardVars, Labels,
     Goto, HasParent, Root, ParentLabels
<1>12. ASSUME NEW t \in Thread, FinishBody(t) PROVE TypeOK'
  BY <1>12, ConstantsAssumption DEF FinishBody, IInv, TypeOK, OnInv, guardVars, Labels, Goto,
     HasParent, Root, ParentLabels
<1>13. ASSUME NEW t \in Thread, OperationLeave(t) PROVE TypeOK'
  <2> USE DEF TypeOK, Labels, Goto, guardVars
  <2>1. on[t] \in Guard /\ Root(on[t]) \in Guard /\ (HasParent(on[t]) => Parent[on[t]] = Root(on[t]))
    BY <1>13, BusyGuard DEF OperationLeave, Leave, Return, IInv
  <2>2. /\ shared' \in [Guard -> SUBSET Path] /\ exclusive' \in [Guard -> SUBSET Path]
        /\ acquired' \in [Thread -> SUBSET Path] /\ want' \in [Thread -> SUBSET Path]
    BY <1>13, <2>1 DEF OperationLeave, Leave, Return, IInv
  <2>3. pc' \in [Thread -> Labels] /\ on' \in [Thread -> Guard \union {NoGuard}]
    BY <1>13, <2>1 DEF OperationLeave, Leave, Return, IInv
  <2>4. /\ active' \in [Guard -> Nat] /\ depth' \in [Thread -> 0..MaxNest]
        /\ mutex' \in [Guard -> Thread \union {NoThread}]
        BY <1>13, <2>1, LeavingActive, ConstantsAssumption DEF OperationLeave, Leave, Return,
       IInv, OnInv, ParentLabels
  <2> QED
    BY <1>13, <2>1, <2>2, <2>3, <2>4 DEF OperationLeave, Leave, Return, IInv
<1>14. ASSUME NEW t \in Thread, OperationLeaveParent(t) PROVE TypeOK'
  <2> USE DEF TypeOK, Labels, Goto, guardVars
  <2>1. on[t] \in Guard /\ Root(on[t]) \in Guard /\ (HasParent(on[t]) => Parent[on[t]] = Root(on[t]))
    BY <1>14, BusyGuard DEF OperationLeaveParent, Leave, Return, IInv
  <2>2. /\ shared' \in [Guard -> SUBSET Path] /\ exclusive' \in [Guard -> SUBSET Path]
        /\ acquired' \in [Thread -> SUBSET Path] /\ want' \in [Thread -> SUBSET Path]
    BY <1>14, <2>1 DEF OperationLeaveParent, Leave, Return, IInv
  <2>3. pc' \in [Thread -> Labels] /\ on' \in [Thread -> Guard \union {NoGuard}]
    BY <1>14, <2>1 DEF OperationLeaveParent, Leave, Return, IInv
  <2>4. /\ active' \in [Guard -> Nat] /\ depth' \in [Thread -> 0..MaxNest]
        /\ mutex' \in [Guard -> Thread \union {NoThread}]
        BY <1>14, <2>1, LeavingActive, ConstantsAssumption DEF OperationLeaveParent, Leave,
       Return, IInv, OnInv, ParentLabels
  <2> QED
    BY <1>14, <2>1, <2>2, <2>3, <2>4 DEF OperationLeaveParent, Leave, Return, IInv
<1>15. ASSUME NEW t \in Thread, NEW p \in Path, StartWrite(t, p) PROVE TypeOK'
  BY <1>15, ConstantsAssumption DEF StartWrite, IInv, TypeOK, OnInv, guardVars, Labels, Goto,
     HasParent, Root, ParentLabels
<1>16. ASSUME NEW t \in Thread, StopWrite(t) PROVE TypeOK'
  BY <1>16, ConstantsAssumption DEF StopWrite, IInv, TypeOK, OnInv, guardVars, Labels, Goto,
     HasParent, Root, ParentLabels
<1>17. ASSUME NEW t \in Thread, NEW g \in Guard, Close(t, g) PROVE TypeOK'
  BY <1>17, ConstantsAssumption DEF Close, Caller, IInv, TypeOK, OnInv, guardVars, Labels, Goto,
     HasParent, Root, ParentLabels
<1>18. ASSUME NEW t \in Thread, CloseParent(t) PROVE TypeOK'
  <2> USE DEF TypeOK, Labels, Goto, guardVars
  <2>1. on[t] \in Guard /\ Root(on[t]) \in Guard /\ (HasParent(on[t]) => Parent[on[t]] = Root(on[t]))
    BY <1>18, BusyGuard DEF CloseParent, IInv
  <2>2. /\ shared' \in [Guard -> SUBSET Path] /\ exclusive' \in [Guard -> SUBSET Path]
        /\ acquired' \in [Thread -> SUBSET Path] /\ want' \in [Thread -> SUBSET Path]
    BY <1>18, <2>1 DEF CloseParent, IInv
  <2>3. pc' \in [Thread -> Labels] /\ on' \in [Thread -> Guard \union {NoGuard}]
    BY <1>18, <2>1 DEF CloseParent, IInv
  <2>4. /\ active' \in [Guard -> Nat] /\ depth' \in [Thread -> 0..MaxNest]
        /\ mutex' \in [Guard -> Thread \union {NoThread}]
        BY <1>18, <2>1, LeavingActive, ConstantsAssumption, SMTT(30) DEF CloseParent, IInv, OnInv,
       ParentLabels, CloseParentLabels
  <2> QED
    BY <1>18, <2>1, <2>2, <2>3, <2>4 DEF CloseParent, IInv
<1>19. ASSUME NEW t \in Thread, Cleanup(t) PROVE TypeOK'
  BY <1>19, ConstantsAssumption DEF Cleanup, AfterCleanup, IInv, TypeOK, OnInv, guardVars, Labels,
     Goto, HasParent, Root, ParentLabels
<1>20. ASSUME NEW t \in Thread, IdleParent(t) PROVE TypeOK'
  BY <1>20, ConstantsAssumption DEF IdleParent, IInv, TypeOK, OnInv, guardVars, Labels, Goto,
     HasParent, Root, ParentLabels
<1>21. ASSUME NEW t \in Thread, IdleOwn(t) PROVE TypeOK'
  BY <1>21, ConstantsAssumption DEF IdleOwn, IInv, TypeOK, OnInv, guardVars, Labels, Goto,
     HasParent, Root, ParentLabels
<1>22. ASSUME NEW t \in Thread, RemoveState(t) PROVE TypeOK'
  <2> USE DEF TypeOK, Labels, Goto, guardVars
  <2>1. on[t] \in Guard /\ Root(on[t]) \in Guard /\ (HasParent(on[t]) => Parent[on[t]] = Root(on[t]))
    BY <1>22, BusyGuard DEF RemoveState, ReleaseMutexes, AfterCleanup, Idle, IInv
  <2>2. /\ shared' \in [Guard -> SUBSET Path] /\ exclusive' \in [Guard -> SUBSET Path]
        /\ acquired' \in [Thread -> SUBSET Path] /\ want' \in [Thread -> SUBSET Path]
    BY <1>22, <2>1 DEF RemoveState, ReleaseMutexes, AfterCleanup, Idle, IInv
  <2>3. pc' \in [Thread -> Labels] /\ on' \in [Thread -> Guard \union {NoGuard}]
    BY <1>22, <2>1 DEF RemoveState, ReleaseMutexes, AfterCleanup, Idle, IInv
  <2>4. /\ active' \in [Guard -> Nat] /\ depth' \in [Thread -> 0..MaxNest]
        /\ mutex' \in [Guard -> Thread \union {NoThread}]
        BY <1>22, <2>1, LeavingActive, ConstantsAssumption DEF RemoveState, ReleaseMutexes,
       AfterCleanup, Idle, IInv, OnInv, ParentLabels
  <2>5. stateDir' \in [Guard -> BOOLEAN]
    BY <1>22, <2>1 DEF RemoveState, IInv
  <2> QED
    BY <1>22, <2>1, <2>2, <2>3, <2>4, <2>5 DEF RemoveState, ReleaseMutexes, AfterCleanup, Idle, IInv
<1>23. ASSUME NEW t \in Thread, CloseLeaveParent(t) PROVE TypeOK'
  <2> USE DEF TypeOK, Labels, Goto, guardVars
  <2>1. on[t] \in Guard /\ Root(on[t]) \in Guard /\ (HasParent(on[t]) => Parent[on[t]] = Root(on[t]))
    BY <1>23, BusyGuard DEF CloseLeaveParent, Leave, IInv
  <2>2. /\ shared' \in [Guard -> SUBSET Path] /\ exclusive' \in [Guard -> SUBSET Path]
        /\ acquired' \in [Thread -> SUBSET Path] /\ want' \in [Thread -> SUBSET Path]
    BY <1>23, <2>1 DEF CloseLeaveParent, Leave, IInv
  <2>3. pc' \in [Thread -> Labels] /\ on' \in [Thread -> Guard \union {NoGuard}]
    BY <1>23, <2>1 DEF CloseLeaveParent, Leave, IInv
  <2>4. /\ active' \in [Guard -> Nat] /\ depth' \in [Thread -> 0..MaxNest]
        /\ mutex' \in [Guard -> Thread \union {NoThread}]
        BY <1>23, <2>1, LeavingActive, ConstantsAssumption DEF CloseLeaveParent, Leave, IInv,
       OnInv, ParentLabels
  <2> QED
    BY <1>23, <2>1, <2>2, <2>3, <2>4 DEF CloseLeaveParent, Leave, IInv
<1>24. ASSUME NEW t \in Thread, CloseLeave(t) PROVE TypeOK'
  <2> USE DEF TypeOK, Labels, Goto, guardVars
  <2>1. on[t] \in Guard /\ Root(on[t]) \in Guard /\ (HasParent(on[t]) => Parent[on[t]] = Root(on[t]))
    BY <1>24, BusyGuard DEF CloseLeave, Leave, Return, IInv
  <2>2. /\ shared' \in [Guard -> SUBSET Path] /\ exclusive' \in [Guard -> SUBSET Path]
        /\ acquired' \in [Thread -> SUBSET Path] /\ want' \in [Thread -> SUBSET Path]
    BY <1>24, <2>1 DEF CloseLeave, Leave, Return, IInv
  <2>3. pc' \in [Thread -> Labels] /\ on' \in [Thread -> Guard \union {NoGuard}]
    BY <1>24, <2>1 DEF CloseLeave, Leave, Return, IInv
  <2>4. /\ active' \in [Guard -> Nat] /\ depth' \in [Thread -> 0..MaxNest]
        /\ mutex' \in [Guard -> Thread \union {NoThread}]
        BY <1>24, <2>1, LeavingActive, ConstantsAssumption DEF CloseLeave, Leave, Return, IInv,
       OnInv, ParentLabels
  <2> QED
    BY <1>24, <2>1, <2>2, <2>3, <2>4 DEF CloseLeave, Leave, Return, IInv
<1>25. ASSUME NEW p \in Process, Crash(p) PROVE TypeOK'
  <2> USE DEF TypeOK, Labels, Crash, IInv
  <2>1. /\ status' \in [Guard -> {"new", "init", "live", "dead"}]
        /\ shared' \in [Guard -> SUBSET Path] /\ exclusive' \in [Guard -> SUBSET Path]
        /\ active' \in [Guard -> Nat] /\ closing' \in [Guard -> BOOLEAN]
    BY <1>25
  <2>2. /\ mutex' \in [Guard -> Thread \union {NoThread}]
        /\ claimed' \in [Guard -> SUBSET Path] /\ cleaned' \in [Guard -> Nat]
        /\ stateDir' \in [Guard -> BOOLEAN]
    BY <1>25
  <2>3. /\ pc' \in [Thread -> Labels] /\ on' \in [Thread -> Guard \union {NoGuard}]
        /\ want' \in [Thread -> SUBSET Path] /\ acquired' \in [Thread -> SUBSET Path]
    BY <1>25
  <2>4. depth' \in [Thread -> 0..MaxNest] /\ writing' \in [Thread -> Path \union {NoPath}]
    BY <1>25, ConstantsAssumption
  <2> QED
    BY <2>1, <2>2, <2>3, <2>4
<1> QED
    BY <1>1, <1>2, <1>3, <1>4, <1>5, <1>6, <1>7, <1>8, <1>9, <1>10, <1>11, <1>12, <1>13, <1>14,
     <1>15, <1>16, <1>17, <1>18, <1>19, <1>20, <1>21, <1>22, <1>23, <1>24, <1>25, StepCases DEF
     IInv

-----------------------------------------------------------------------------
(* Threads, guards and mutexes *)

\* Threads stay with guards of their process.
LEMMA OnStep ==
    ASSUME IInv, Next
    PROVE  OnInv'
<1>1. ASSUME NEW t \in Thread, NEW g \in Guard, NEW paths \in Requests, Construct(t, g, paths) PROVE OnInv'
  BY <1>1, ConstantsAssumption DEF Construct, EnterAddPaths, IInv, TypeOK, OnInv, Goto, HasParent,
     ParentLabels
<1>2. ASSUME NEW t \in Thread, NEW g \in Guard, NEW paths \in Requests, AddPaths(t, g, paths) PROVE OnInv'
  BY <1>2, ConstantsAssumption DEF AddPaths, EnterAddPaths, Caller, IInv, TypeOK, OnInv, Goto,
     HasParent, ParentLabels
<1>3. ASSUME NEW t \in Thread, AddPathsParent(t) PROVE OnInv'
  BY <1>3, ConstantsAssumption DEF AddPathsParent, IInv, TypeOK, OnInv, Goto, HasParent,
     ParentLabels
<1>4. ASSUME NEW t \in Thread, AddPathsRefused(t) PROVE OnInv'
  BY <1>4, ConstantsAssumption DEF AddPathsRefused, Return, IInv, TypeOK, OnInv, Goto, HasParent,
     ParentLabels
<1>5. ASSUME NEW t \in Thread, LockKey(t) PROVE OnInv'
  BY <1>5, ConstantsAssumption DEF LockKey, Pending, Required, IInv, TypeOK, OnInv, Goto,
     HasParent, ParentLabels
<1>6. ASSUME NEW t \in Thread, LockRefused(t) PROVE OnInv'
  BY <1>6, ConstantsAssumption DEF LockRefused, Fail, ReleaseMutexes, Return, IInv, TypeOK, OnInv,
     Goto, HasParent, ParentLabels
<1>7. ASSUME NEW t \in Thread, LockDone(t) PROVE OnInv'
  BY <1>7, ConstantsAssumption DEF LockDone, ReleaseMutexes, Return, IInv, TypeOK, OnInv, Goto,
     HasParent, ParentLabels
<1>8. ASSUME NEW t \in Thread, NEW g \in Guard, OperationParent(t, g) PROVE OnInv'
  BY <1>8, ConstantsAssumption DEF OperationParent, Caller, IInv, TypeOK, OnInv, Goto, HasParent,
     ParentLabels
<1>9. ASSUME NEW t \in Thread, OperationEnter(t) PROVE OnInv'
  BY <1>9, ConstantsAssumption DEF OperationEnter, IInv, TypeOK, OnInv, Goto, HasParent,
     ParentLabels
<1>10. ASSUME NEW t \in Thread, OperationRefused(t) PROVE OnInv'
  BY <1>10, ConstantsAssumption DEF OperationRefused, IInv, TypeOK, OnInv, Goto, HasParent,
     ParentLabels
<1>11. ASSUME NEW t \in Thread, NEW g \in Guard, OperationRoot(t, g) PROVE OnInv'
  BY <1>11, ConstantsAssumption DEF OperationRoot, Caller, IInv, TypeOK, OnInv, Goto, HasParent,
     ParentLabels
<1>12. ASSUME NEW t \in Thread, FinishBody(t) PROVE OnInv'
  BY <1>12, ConstantsAssumption DEF FinishBody, IInv, TypeOK, OnInv, Goto, HasParent, ParentLabels
<1>13. ASSUME NEW t \in Thread, OperationLeave(t) PROVE OnInv'
  BY <1>13, ConstantsAssumption DEF OperationLeave, Leave, Return, IInv, TypeOK, OnInv, Goto,
     HasParent, ParentLabels
<1>14. ASSUME NEW t \in Thread, OperationLeaveParent(t) PROVE OnInv'
  BY <1>14, ConstantsAssumption DEF OperationLeaveParent, Leave, Return, IInv, TypeOK, OnInv,
     Goto, HasParent, ParentLabels
<1>15. ASSUME NEW t \in Thread, NEW p \in Path, StartWrite(t, p) PROVE OnInv'
  BY <1>15, ConstantsAssumption DEF StartWrite, IInv, TypeOK, OnInv, Goto, HasParent, ParentLabels
<1>16. ASSUME NEW t \in Thread, StopWrite(t) PROVE OnInv'
  BY <1>16, ConstantsAssumption DEF StopWrite, IInv, TypeOK, OnInv, Goto, HasParent, ParentLabels
<1>17. ASSUME NEW t \in Thread, NEW g \in Guard, Close(t, g) PROVE OnInv'
  BY <1>17, ConstantsAssumption DEF Close, Caller, IInv, TypeOK, OnInv, Goto, HasParent,
     ParentLabels
<1>18. ASSUME NEW t \in Thread, CloseParent(t) PROVE OnInv'
  BY <1>18, ConstantsAssumption DEF CloseParent, IInv, TypeOK, OnInv, Goto, HasParent, ParentLabels
<1>19. ASSUME NEW t \in Thread, Cleanup(t) PROVE OnInv'
  BY <1>19, ConstantsAssumption DEF Cleanup, AfterCleanup, IInv, TypeOK, OnInv, Goto, HasParent,
     ParentLabels
<1>20. ASSUME NEW t \in Thread, IdleParent(t) PROVE OnInv'
  BY <1>20, ConstantsAssumption DEF IdleParent, IInv, TypeOK, OnInv, Goto, HasParent, ParentLabels
<1>21. ASSUME NEW t \in Thread, IdleOwn(t) PROVE OnInv'
  BY <1>21, ConstantsAssumption DEF IdleOwn, IInv, TypeOK, OnInv, Goto, HasParent, ParentLabels
<1>22. ASSUME NEW t \in Thread, RemoveState(t) PROVE OnInv'
  BY <1>22, ConstantsAssumption DEF RemoveState, ReleaseMutexes, AfterCleanup, Idle, IInv, TypeOK,
     OnInv, Goto, HasParent, ParentLabels
<1>23. ASSUME NEW t \in Thread, CloseLeaveParent(t) PROVE OnInv'
  BY <1>23, ConstantsAssumption DEF CloseLeaveParent, Leave, IInv, TypeOK, OnInv, Goto, HasParent,
     ParentLabels
<1>24. ASSUME NEW t \in Thread, CloseLeave(t) PROVE OnInv'
  BY <1>24, ConstantsAssumption DEF CloseLeave, Leave, Return, IInv, TypeOK, OnInv, Goto,
     HasParent, ParentLabels
<1>25. ASSUME NEW p \in Process, Crash(p) PROVE OnInv'
  BY <1>25, ConstantsAssumption DEF Crash, IInv, TypeOK, OnInv, Goto, HasParent, ParentLabels
<1> QED
    BY <1>1, <1>2, <1>3, <1>4, <1>5, <1>6, <1>7, <1>8, <1>9, <1>10, <1>11, <1>12, <1>13, <1>14,
     <1>15, <1>16, <1>17, <1>18, <1>19, <1>20, <1>21, <1>22, <1>23, <1>24, <1>25, StepCases DEF
     IInv

\* Only the owner of a mutex releases it, and no close slips into add_paths.
LEMMA MutexStep ==
    ASSUME IInv, Next
    PROVE  MutexInv'
<1>1. ASSUME NEW t \in Thread, NEW g \in Guard, NEW paths \in Requests, Construct(t, g, paths) PROVE MutexInv'
  BY <1>1, BusyGuard, RootFacts, ConstantsAssumption DEF Construct, EnterAddPaths, IInv, TypeOK,
     OnInv, MutexInv, guardVars, Goto, Free
<1>2. ASSUME NEW t \in Thread, NEW g \in Guard, NEW paths \in Requests, AddPaths(t, g, paths) PROVE MutexInv'
  BY <1>2, BusyGuard, RootFacts, ConstantsAssumption DEF AddPaths, EnterAddPaths, Caller, IInv,
     TypeOK, OnInv, MutexInv, guardVars, Goto, Free
<1>3. ASSUME NEW t \in Thread, AddPathsParent(t) PROVE MutexInv'
  <2>1. /\ on[t] \in Guard /\ Parent[on[t]] = Root(on[t]) /\ Root(on[t]) \in Guard
        /\ mutex[Root(on[t])] = NoThread /\ ~closing[Root(on[t])] /\ mutex[on[t]] = t
        /\ mutex' = [mutex EXCEPT ![Root(on[t])] = t] /\ pc' = [pc EXCEPT ![t] = "lock"]
        /\ on' = on /\ closing' = closing
    BY <1>3, BusyGuard DEF AddPathsParent, Free, Goto, guardVars, MutexInv, IInv, ParentLabels
  <2>2. ASSUME NEW u \in Thread, u # t
        PROVE  /\ pc'[u] = pc[u]
               /\ \A g \in Guard : mutex[g] = u => mutex'[g] = u
    BY <2>1, <2>2, ConstantsAssumption DEF TypeOK, IInv
  <2>3. ASSUME NEW u \in Thread, u # t, pc[u] \in {"addParent", "lock", "idleCheck", "idleOwn"}
        PROVE  on[u] \in Guard /\ Root(on[u]) \in Guard /\ (HasParent(on[u]) => Parent[on[u]] \in Guard)
    BY <2>3, BusyGuard DEF IInv
  <2>4. mutex'[on[t]] = t /\ mutex'[Root(on[t])] = t /\ pc'[t] = "lock"
    BY <2>1 DEF TypeOK, IInv
  <2> QED
    BY <2>1, <2>2, <2>3, <2>4 DEF MutexInv, IInv
<1>4. ASSUME NEW t \in Thread, AddPathsRefused(t) PROVE MutexInv'
  BY <1>4, BusyGuard, RootFacts, ConstantsAssumption DEF AddPathsRefused, Return, IInv, TypeOK,
     OnInv, MutexInv, guardVars, Goto, Free
<1>5. ASSUME NEW t \in Thread, LockKey(t) PROVE MutexInv'
  BY <1>5, BusyGuard, RootFacts, ConstantsAssumption DEF LockKey, Pending, Required, IInv, TypeOK,
     OnInv, MutexInv, guardVars, Goto, Free
<1>6. ASSUME NEW t \in Thread, LockRefused(t) PROVE MutexInv'
  BY <1>6, BusyGuard, RootFacts, ConstantsAssumption DEF LockRefused, Fail, ReleaseMutexes,
     Return, IInv, TypeOK, OnInv, MutexInv, guardVars, Goto, Free
<1>7. ASSUME NEW t \in Thread, LockDone(t) PROVE MutexInv'
  BY <1>7, BusyGuard, RootFacts, ConstantsAssumption DEF LockDone, ReleaseMutexes, Return, IInv,
     TypeOK, OnInv, MutexInv, guardVars, Goto, Free
<1>8. ASSUME NEW t \in Thread, NEW g \in Guard, OperationParent(t, g) PROVE MutexInv'
  BY <1>8, BusyGuard, RootFacts, ConstantsAssumption DEF OperationParent, Caller, IInv, TypeOK,
     OnInv, MutexInv, guardVars, Goto, Free
<1>9. ASSUME NEW t \in Thread, OperationEnter(t) PROVE MutexInv'
  BY <1>9, BusyGuard, RootFacts, ConstantsAssumption DEF OperationEnter, IInv, TypeOK, OnInv,
     MutexInv, guardVars, Goto, Free
<1>10. ASSUME NEW t \in Thread, OperationRefused(t) PROVE MutexInv'
  BY <1>10, BusyGuard, RootFacts, ConstantsAssumption DEF OperationRefused, IInv, TypeOK, OnInv,
     MutexInv, guardVars, Goto, Free
<1>11. ASSUME NEW t \in Thread, NEW g \in Guard, OperationRoot(t, g) PROVE MutexInv'
  BY <1>11, BusyGuard, RootFacts, ConstantsAssumption DEF OperationRoot, Caller, IInv, TypeOK,
     OnInv, MutexInv, guardVars, Goto, Free
<1>12. ASSUME NEW t \in Thread, FinishBody(t) PROVE MutexInv'
  BY <1>12, BusyGuard, RootFacts, ConstantsAssumption DEF FinishBody, IInv, TypeOK, OnInv,
     MutexInv, guardVars, Goto, Free
<1>13. ASSUME NEW t \in Thread, OperationLeave(t) PROVE MutexInv'
  BY <1>13, BusyGuard, RootFacts, ConstantsAssumption DEF OperationLeave, Leave, Return, IInv,
     TypeOK, OnInv, MutexInv, guardVars, Goto, Free
<1>14. ASSUME NEW t \in Thread, OperationLeaveParent(t) PROVE MutexInv'
  BY <1>14, BusyGuard, RootFacts, ConstantsAssumption DEF OperationLeaveParent, Leave, Return,
     IInv, TypeOK, OnInv, MutexInv, guardVars, Goto, Free
<1>15. ASSUME NEW t \in Thread, NEW p \in Path, StartWrite(t, p) PROVE MutexInv'
  BY <1>15, BusyGuard, RootFacts, ConstantsAssumption DEF StartWrite, IInv, TypeOK, OnInv,
     MutexInv, guardVars, Goto, Free
<1>16. ASSUME NEW t \in Thread, StopWrite(t) PROVE MutexInv'
  BY <1>16, BusyGuard, RootFacts, ConstantsAssumption DEF StopWrite, IInv, TypeOK, OnInv,
     MutexInv, guardVars, Goto, Free
<1>17. ASSUME NEW t \in Thread, NEW g \in Guard, Close(t, g) PROVE MutexInv'
  BY <1>17, BusyGuard, RootFacts, ConstantsAssumption DEF Close, Caller, IInv, TypeOK, OnInv,
     MutexInv, guardVars, Goto, Free
<1>18. ASSUME NEW t \in Thread, CloseParent(t) PROVE MutexInv'
  BY <1>18, BusyGuard, RootFacts, ConstantsAssumption DEF CloseParent, IInv, TypeOK, OnInv,
     MutexInv, guardVars, Goto, Free
<1>19. ASSUME NEW t \in Thread, Cleanup(t) PROVE MutexInv'
  BY <1>19, BusyGuard, RootFacts, ConstantsAssumption DEF Cleanup, AfterCleanup, IInv, TypeOK,
     OnInv, MutexInv, guardVars, Goto, Free
<1>20. ASSUME NEW t \in Thread, IdleParent(t) PROVE MutexInv'
  BY <1>20, BusyGuard, RootFacts, ConstantsAssumption DEF IdleParent, IInv, TypeOK, OnInv,
     MutexInv, guardVars, Goto, Free
<1>21. ASSUME NEW t \in Thread, IdleOwn(t) PROVE MutexInv'
  BY <1>21, BusyGuard, RootFacts, ConstantsAssumption DEF IdleOwn, IInv, TypeOK, OnInv, MutexInv,
     guardVars, Goto, Free
<1>22. ASSUME NEW t \in Thread, RemoveState(t) PROVE MutexInv'
  BY <1>22, BusyGuard, RootFacts, ConstantsAssumption DEF RemoveState, ReleaseMutexes,
     AfterCleanup, Idle, IInv, TypeOK, OnInv, MutexInv, guardVars, Goto, Free
<1>23. ASSUME NEW t \in Thread, CloseLeaveParent(t) PROVE MutexInv'
  BY <1>23, BusyGuard, RootFacts, ConstantsAssumption DEF CloseLeaveParent, Leave, IInv, TypeOK,
     OnInv, MutexInv, guardVars, Goto, Free
<1>24. ASSUME NEW t \in Thread, CloseLeave(t) PROVE MutexInv'
  BY <1>24, BusyGuard, RootFacts, ConstantsAssumption DEF CloseLeave, Leave, Return, IInv, TypeOK,
     OnInv, MutexInv, guardVars, Goto, Free
<1>25. ASSUME NEW p \in Process, Crash(p) PROVE MutexInv'
  BY <1>25, BusyGuard, RootFacts, ConstantsAssumption DEF Crash, IInv, TypeOK, OnInv, MutexInv,
     guardVars, Goto, Free
<1> QED
    BY <1>1, <1>2, <1>3, <1>4, <1>5, <1>6, <1>7, <1>8, <1>9, <1>10, <1>11, <1>12, <1>13, <1>14,
     <1>15, <1>16, <1>17, <1>18, <1>19, <1>20, <1>21, <1>22, <1>23, <1>24, <1>25, StepCases DEF
     IInv

-----------------------------------------------------------------------------
(* Lock files *)

\* The kernel never grants a key twice against its modes.
LEMMA KernelStep ==
    ASSUME IInv, Next
    PROVE  KernelInv'
<1>1. ASSUME NEW t \in Thread, NEW g \in Guard, NEW paths \in Requests, Construct(t, g, paths) PROVE KernelInv'
  BY <1>1 DEF Construct, EnterAddPaths, IInv, TypeOK, KernelInv, Held, guardVars
<1>2. ASSUME NEW t \in Thread, NEW g \in Guard, NEW paths \in Requests, AddPaths(t, g, paths) PROVE KernelInv'
  BY <1>2 DEF AddPaths, EnterAddPaths, Caller, IInv, TypeOK, KernelInv, Held, guardVars
<1>3. ASSUME NEW t \in Thread, AddPathsParent(t) PROVE KernelInv'
  BY <1>3 DEF AddPathsParent, IInv, TypeOK, KernelInv, Held, guardVars
<1>4. ASSUME NEW t \in Thread, AddPathsRefused(t) PROVE KernelInv'
  BY <1>4 DEF AddPathsRefused, Return, IInv, TypeOK, KernelInv, Held, guardVars
<1>5. ASSUME NEW t \in Thread, LockKey(t) PROVE KernelInv'
  <2>1. on[t] \in Guard /\ Root(on[t]) \in Guard
    BY <1>5, BusyGuard DEF LockKey, IInv
  <2> DEFINE r == Root(on[t])
  <2>2. PICK k \in Path :
          /\ k \notin Held(r)
          /\ \A h \in Guard \ {r} : k \notin exclusive[h] /\ (k \in want[t] => k \notin shared[h])
          /\ shared' = [shared EXCEPT ![r] = IF k \in want[t] THEN @ ELSE @ \union {k}]
          /\ exclusive' = [exclusive EXCEPT ![r] = IF k \in want[t] THEN @ \union {k} ELSE @]
    BY <1>5, Granted DEF IInv
  <2> HIDE DEF r
  <2>3. CASE k \in want[t]
    BY <2>1, <2>2, <2>3 DEF KernelInv, Held, TypeOK, IInv
  <2>4. CASE k \notin want[t]
    BY <2>1, <2>2, <2>4 DEF KernelInv, Held, TypeOK, IInv
  <2> QED
    BY <2>3, <2>4
<1>6. ASSUME NEW t \in Thread, LockRefused(t) PROVE KernelInv'
  BY <1>6 DEF LockRefused, Fail, ReleaseMutexes, Return, IInv, TypeOK, KernelInv, Held, guardVars
<1>7. ASSUME NEW t \in Thread, LockDone(t) PROVE KernelInv'
  BY <1>7 DEF LockDone, ReleaseMutexes, Return, IInv, TypeOK, KernelInv, Held, guardVars
<1>8. ASSUME NEW t \in Thread, NEW g \in Guard, OperationParent(t, g) PROVE KernelInv'
  BY <1>8 DEF OperationParent, Caller, IInv, TypeOK, KernelInv, Held, guardVars
<1>9. ASSUME NEW t \in Thread, OperationEnter(t) PROVE KernelInv'
  BY <1>9 DEF OperationEnter, IInv, TypeOK, KernelInv, Held, guardVars
<1>10. ASSUME NEW t \in Thread, OperationRefused(t) PROVE KernelInv'
  BY <1>10 DEF OperationRefused, IInv, TypeOK, KernelInv, Held, guardVars
<1>11. ASSUME NEW t \in Thread, NEW g \in Guard, OperationRoot(t, g) PROVE KernelInv'
  BY <1>11 DEF OperationRoot, Caller, IInv, TypeOK, KernelInv, Held, guardVars
<1>12. ASSUME NEW t \in Thread, FinishBody(t) PROVE KernelInv'
  BY <1>12 DEF FinishBody, IInv, TypeOK, KernelInv, Held, guardVars
<1>13. ASSUME NEW t \in Thread, OperationLeave(t) PROVE KernelInv'
  BY <1>13 DEF OperationLeave, Leave, Return, IInv, TypeOK, KernelInv, Held, guardVars
<1>14. ASSUME NEW t \in Thread, OperationLeaveParent(t) PROVE KernelInv'
  BY <1>14 DEF OperationLeaveParent, Leave, Return, IInv, TypeOK, KernelInv, Held, guardVars
<1>15. ASSUME NEW t \in Thread, NEW p \in Path, StartWrite(t, p) PROVE KernelInv'
  BY <1>15 DEF StartWrite, IInv, TypeOK, KernelInv, Held, guardVars
<1>16. ASSUME NEW t \in Thread, StopWrite(t) PROVE KernelInv'
  BY <1>16 DEF StopWrite, IInv, TypeOK, KernelInv, Held, guardVars
<1>17. ASSUME NEW t \in Thread, NEW g \in Guard, Close(t, g) PROVE KernelInv'
  BY <1>17 DEF Close, Caller, IInv, TypeOK, KernelInv, Held, guardVars
<1>18. ASSUME NEW t \in Thread, CloseParent(t) PROVE KernelInv'
  BY <1>18 DEF CloseParent, IInv, TypeOK, KernelInv, Held, guardVars
<1>19. ASSUME NEW t \in Thread, Cleanup(t) PROVE KernelInv'
  BY <1>19 DEF Cleanup, AfterCleanup, IInv, TypeOK, KernelInv, Held, guardVars
<1>20. ASSUME NEW t \in Thread, IdleParent(t) PROVE KernelInv'
  BY <1>20 DEF IdleParent, IInv, TypeOK, KernelInv, Held, guardVars
<1>21. ASSUME NEW t \in Thread, IdleOwn(t) PROVE KernelInv'
  BY <1>21 DEF IdleOwn, IInv, TypeOK, KernelInv, Held, guardVars
<1>22. ASSUME NEW t \in Thread, RemoveState(t) PROVE KernelInv'
  BY <1>22 DEF RemoveState, ReleaseMutexes, AfterCleanup, Idle, IInv, TypeOK, KernelInv, Held,
     guardVars
<1>23. ASSUME NEW t \in Thread, CloseLeaveParent(t) PROVE KernelInv'
  BY <1>23 DEF CloseLeaveParent, Leave, IInv, TypeOK, KernelInv, Held, guardVars
<1>24. ASSUME NEW t \in Thread, CloseLeave(t) PROVE KernelInv'
  BY <1>24 DEF CloseLeave, Leave, Return, IInv, TypeOK, KernelInv, Held, guardVars
<1>25. ASSUME NEW p \in Process, Crash(p) PROVE KernelInv'
  BY <1>25 DEF Crash, IInv, TypeOK, KernelInv, Held, guardVars
<1> QED
    BY <1>1, <1>2, <1>3, <1>4, <1>5, <1>6, <1>7, <1>8, <1>9, <1>10, <1>11, <1>12, <1>13, <1>14,
     <1>15, <1>16, <1>17, <1>18, <1>19, <1>20, <1>21, <1>22, <1>23, <1>24, <1>25, StepCases DEF
     IInv

\* A path is locked after its ancestors and given back before or with them.
LEMMA AncestorStep ==
    ASSUME IInv, Next
    PROVE  AncestorInv'
<1>1. ASSUME NEW t \in Thread, NEW g \in Guard, NEW paths \in Requests, Construct(t, g, paths) PROVE AncestorInv'
  BY <1>1 DEF Construct, EnterAddPaths, IInv, TypeOK, AncestorInv, Held, guardVars
<1>2. ASSUME NEW t \in Thread, NEW g \in Guard, NEW paths \in Requests, AddPaths(t, g, paths) PROVE AncestorInv'
  BY <1>2 DEF AddPaths, EnterAddPaths, Caller, IInv, TypeOK, AncestorInv, Held, guardVars
<1>3. ASSUME NEW t \in Thread, AddPathsParent(t) PROVE AncestorInv'
  BY <1>3 DEF AddPathsParent, IInv, TypeOK, AncestorInv, Held, guardVars
<1>4. ASSUME NEW t \in Thread, AddPathsRefused(t) PROVE AncestorInv'
  BY <1>4 DEF AddPathsRefused, Return, IInv, TypeOK, AncestorInv, Held, guardVars
<1>5. ASSUME NEW t \in Thread, LockKey(t) PROVE AncestorInv'
  <2>1. on[t] \in Guard /\ Root(on[t]) \in Guard
    BY <1>5, BusyGuard DEF LockKey, IInv
  <2>2. PICK k \in Path :
          /\ k \in Required(want[t]) /\ k \notin Held(Root(on[t]))
          /\ \A j \in Pending(t) : Rank[k] <= Rank[j]
          /\ shared' = [shared EXCEPT ![Root(on[t])] = IF k \in want[t] THEN @ ELSE @ \union {k}]
          /\ exclusive' = [exclusive EXCEPT ![Root(on[t])] = IF k \in want[t] THEN @ \union {k} ELSE @]
    BY <1>5, Granted DEF IInv
  <2>3. ASSUME k \in want[t] PROVE Above[k] \subseteq Held(Root(on[t]))
    <3>1. \A a \in Above[k] : a \in Path /\ Rank[a] < Rank[k] /\ Rank[a] \in Nat /\ Rank[k] \in Nat
      BY ConstantsAssumption
    <3>2. \A a \in Above[k] : a \in Required(want[t])
      BY <2>3 DEF Required
    <3>3. \A a \in Above[k] : a \notin Pending(t)
      BY <2>2, <3>1
    <3> QED
      BY <3>2, <3>3 DEF Pending
  <2> QED
    BY <2>1, <2>2, <2>3 DEF AncestorInv, Held, TypeOK, IInv
<1>6. ASSUME NEW t \in Thread, LockRefused(t) PROVE AncestorInv'
  <2>1. /\ on[t] \in Guard /\ Root(on[t]) \in Guard /\ pc[t] = "lock"
        /\ shared' = [shared EXCEPT ![Root(on[t])] = @ \ acquired[t]]
        /\ exclusive' = [exclusive EXCEPT ![Root(on[t])] = @ \ acquired[t]]
    BY <1>6, BusyGuard DEF LockRefused, Fail, IInv
  <2>2. \A p \in exclusive[Root(on[t])] \ acquired[t] : Above[p] \cap acquired[t] = {}
    BY <2>1 DEF AcquiredInv, IInv
  <2> QED
    BY <2>1, <2>2 DEF AncestorInv, Held, TypeOK, IInv
<1>7. ASSUME NEW t \in Thread, LockDone(t) PROVE AncestorInv'
  BY <1>7 DEF LockDone, ReleaseMutexes, Return, IInv, TypeOK, AncestorInv, Held, guardVars
<1>8. ASSUME NEW t \in Thread, NEW g \in Guard, OperationParent(t, g) PROVE AncestorInv'
  BY <1>8 DEF OperationParent, Caller, IInv, TypeOK, AncestorInv, Held, guardVars
<1>9. ASSUME NEW t \in Thread, OperationEnter(t) PROVE AncestorInv'
  BY <1>9 DEF OperationEnter, IInv, TypeOK, AncestorInv, Held, guardVars
<1>10. ASSUME NEW t \in Thread, OperationRefused(t) PROVE AncestorInv'
  BY <1>10 DEF OperationRefused, IInv, TypeOK, AncestorInv, Held, guardVars
<1>11. ASSUME NEW t \in Thread, NEW g \in Guard, OperationRoot(t, g) PROVE AncestorInv'
  BY <1>11 DEF OperationRoot, Caller, IInv, TypeOK, AncestorInv, Held, guardVars
<1>12. ASSUME NEW t \in Thread, FinishBody(t) PROVE AncestorInv'
  BY <1>12 DEF FinishBody, IInv, TypeOK, AncestorInv, Held, guardVars
<1>13. ASSUME NEW t \in Thread, OperationLeave(t) PROVE AncestorInv'
  BY <1>13 DEF OperationLeave, Leave, Return, IInv, TypeOK, AncestorInv, Held, guardVars
<1>14. ASSUME NEW t \in Thread, OperationLeaveParent(t) PROVE AncestorInv'
  BY <1>14 DEF OperationLeaveParent, Leave, Return, IInv, TypeOK, AncestorInv, Held, guardVars
<1>15. ASSUME NEW t \in Thread, NEW p \in Path, StartWrite(t, p) PROVE AncestorInv'
  BY <1>15 DEF StartWrite, IInv, TypeOK, AncestorInv, Held, guardVars
<1>16. ASSUME NEW t \in Thread, StopWrite(t) PROVE AncestorInv'
  BY <1>16 DEF StopWrite, IInv, TypeOK, AncestorInv, Held, guardVars
<1>17. ASSUME NEW t \in Thread, NEW g \in Guard, Close(t, g) PROVE AncestorInv'
  BY <1>17 DEF Close, Caller, IInv, TypeOK, AncestorInv, Held, guardVars
<1>18. ASSUME NEW t \in Thread, CloseParent(t) PROVE AncestorInv'
  BY <1>18 DEF CloseParent, IInv, TypeOK, AncestorInv, Held, guardVars
<1>19. ASSUME NEW t \in Thread, Cleanup(t) PROVE AncestorInv'
  BY <1>19 DEF Cleanup, AfterCleanup, IInv, TypeOK, AncestorInv, Held, guardVars
<1>20. ASSUME NEW t \in Thread, IdleParent(t) PROVE AncestorInv'
  BY <1>20 DEF IdleParent, IInv, TypeOK, AncestorInv, Held, guardVars
<1>21. ASSUME NEW t \in Thread, IdleOwn(t) PROVE AncestorInv'
  BY <1>21 DEF IdleOwn, IInv, TypeOK, AncestorInv, Held, guardVars
<1>22. ASSUME NEW t \in Thread, RemoveState(t) PROVE AncestorInv'
  BY <1>22 DEF RemoveState, ReleaseMutexes, AfterCleanup, Idle, IInv, TypeOK, AncestorInv, Held,
     guardVars
<1>23. ASSUME NEW t \in Thread, CloseLeaveParent(t) PROVE AncestorInv'
  BY <1>23 DEF CloseLeaveParent, Leave, IInv, TypeOK, AncestorInv, Held, guardVars
<1>24. ASSUME NEW t \in Thread, CloseLeave(t) PROVE AncestorInv'
  BY <1>24 DEF CloseLeave, Leave, Return, IInv, TypeOK, AncestorInv, Held, guardVars
<1>25. ASSUME NEW p \in Process, Crash(p) PROVE AncestorInv'
  BY <1>25 DEF Crash, IInv, TypeOK, AncestorInv, Held, guardVars
<1> QED
    BY <1>1, <1>2, <1>3, <1>4, <1>5, <1>6, <1>7, <1>8, <1>9, <1>10, <1>11, <1>12, <1>13, <1>14,
     <1>15, <1>16, <1>17, <1>18, <1>19, <1>20, <1>21, <1>22, <1>23, <1>24, <1>25, StepCases DEF
     IInv

\* A roll-back never takes back a granted path or an ancestor of one.
LEMMA AcquiredStep ==
    ASSUME IInv, Next
    PROVE  AcquiredInv'
<1>1. ASSUME NEW t \in Thread, NEW g \in Guard, NEW paths \in Requests, Construct(t, g, paths) PROVE AcquiredInv'
  BY <1>1, BusyGuard, RootFacts DEF Construct, EnterAddPaths, IInv, TypeOK, OnInv, AcquiredInv,
     guardVars, Goto
<1>2. ASSUME NEW t \in Thread, NEW g \in Guard, NEW paths \in Requests, AddPaths(t, g, paths) PROVE AcquiredInv'
  BY <1>2, BusyGuard, RootFacts DEF AddPaths, EnterAddPaths, Caller, IInv, TypeOK, OnInv,
     AcquiredInv, guardVars, Goto
<1>3. ASSUME NEW t \in Thread, AddPathsParent(t) PROVE AcquiredInv'
  BY <1>3, BusyGuard, RootFacts DEF AddPathsParent, IInv, TypeOK, OnInv, AcquiredInv, guardVars,
     Goto
<1>4. ASSUME NEW t \in Thread, AddPathsRefused(t) PROVE AcquiredInv'
  BY <1>4, BusyGuard, RootFacts, SMTT(30) DEF AddPathsRefused, Return, IInv, TypeOK, OnInv, AcquiredInv,
     guardVars, Goto
<1>5. ASSUME NEW t \in Thread, LockKey(t) PROVE AcquiredInv'
  <2>1. on[t] \in Guard /\ Root(on[t]) \in Guard /\ pc[t] = "lock"
    BY <1>5, BusyGuard DEF LockKey, IInv
  <2>2. PICK k \in Path :
          /\ k \notin Held(Root(on[t]))
          /\ exclusive' = [exclusive EXCEPT ![Root(on[t])] = IF k \in want[t] THEN @ \union {k} ELSE @]
          /\ acquired' = [acquired EXCEPT ![t] = @ \union {k}]
    BY <1>5, Granted DEF IInv
  <2>3. pc' = pc /\ on' = on /\ claimed' = claimed
    BY <1>5 DEF LockKey
  <2>4. \A p \in exclusive[Root(on[t])] : k \notin Above[p]
    BY <2>1, <2>2 DEF AncestorInv, IInv
  <2>5. \A g \in Guard : Root(g) = Root(on[t]) => k \notin claimed[g]
    BY <2>1, <2>2 DEF ClaimInv, MutexInv, Held, IInv
  <2>6. ASSUME NEW u \in Thread, u # t, pc[u] = "lock"
        PROVE  acquired'[u] = acquired[u] /\ exclusive'[Root(on[u])] = exclusive[Root(on[u])]
    BY <2>1, <2>2, <2>6, OneLocker, BusyGuard DEF TypeOK, IInv
  <2>7. /\ acquired'[t] = acquired[t] \union {k}
        /\ exclusive'[Root(on[t])] \subseteq exclusive[Root(on[t])] \union {k}
    BY <2>1, <2>2 DEF TypeOK, IInv
  <2>8. \A u \in Thread : pc[u] # "lock" => acquired'[u] = {}
    BY <2>1, <2>2 DEF AcquiredInv, TypeOK, IInv
  <2> QED
    BY <2>1, <2>3, <2>4, <2>5, <2>6, <2>7, <2>8 DEF AcquiredInv, Root, HasParent, IInv
<1>6. ASSUME NEW t \in Thread, LockRefused(t) PROVE AcquiredInv'
  BY <1>6, BusyGuard, RootFacts DEF LockRefused, Fail, ReleaseMutexes, Return, IInv, TypeOK,
     OnInv, AcquiredInv, guardVars, Goto
<1>7. ASSUME NEW t \in Thread, LockDone(t) PROVE AcquiredInv'
  <2>1. /\ on[t] \in Guard /\ pc[t] = "lock" /\ exclusive' = exclusive
        /\ claimed' = [claimed EXCEPT ![on[t]] = @ \union want[t]]
        /\ pc' = [pc EXCEPT ![t] = "ready"] /\ acquired' = [acquired EXCEPT ![t] = {}]
        /\ on' = [on EXCEPT ![t] = IF depth[t] = 0 THEN NoGuard ELSE @]
    BY <1>7, BusyGuard DEF LockDone, Return, Goto, IInv
  <2>2. ASSUME NEW u \in Thread, u # t, pc[u] = "lock"
        PROVE  /\ acquired'[u] = acquired[u] /\ on'[u] = on[u] /\ pc'[u] = "lock"
               /\ \A g \in Guard : Root(g) = Root(on[u]) => claimed'[g] = claimed[g]
    BY <2>1, <2>2, OneLocker DEF TypeOK, IInv
  <2>3. \A u \in Thread : u # t => pc'[u] = pc[u] /\ acquired'[u] = acquired[u]
    BY <2>1 DEF TypeOK, IInv
  <2>4. pc'[t] = "ready" /\ acquired'[t] = {}
    BY <2>1 DEF TypeOK, IInv
  <2> QED
    BY <2>1, <2>2, <2>3, <2>4 DEF AcquiredInv, Root, HasParent, IInv
<1>8. ASSUME NEW t \in Thread, NEW g \in Guard, OperationParent(t, g) PROVE AcquiredInv'
  BY <1>8, BusyGuard, RootFacts DEF OperationParent, Caller, IInv, TypeOK, OnInv, AcquiredInv,
     guardVars, Goto
<1>9. ASSUME NEW t \in Thread, OperationEnter(t) PROVE AcquiredInv'
  BY <1>9, BusyGuard, RootFacts DEF OperationEnter, IInv, TypeOK, OnInv, AcquiredInv, guardVars,
     Goto
<1>10. ASSUME NEW t \in Thread, OperationRefused(t) PROVE AcquiredInv'
  BY <1>10, BusyGuard, RootFacts DEF OperationRefused, IInv, TypeOK, OnInv, AcquiredInv,
     guardVars, Goto
<1>11. ASSUME NEW t \in Thread, NEW g \in Guard, OperationRoot(t, g) PROVE AcquiredInv'
  BY <1>11, BusyGuard, RootFacts DEF OperationRoot, Caller, IInv, TypeOK, OnInv, AcquiredInv,
     guardVars, Goto
<1>12. ASSUME NEW t \in Thread, FinishBody(t) PROVE AcquiredInv'
  BY <1>12, BusyGuard, RootFacts DEF FinishBody, IInv, TypeOK, OnInv, AcquiredInv, guardVars, Goto
<1>13. ASSUME NEW t \in Thread, OperationLeave(t) PROVE AcquiredInv'
  BY <1>13, BusyGuard, RootFacts DEF OperationLeave, Leave, Return, IInv, TypeOK, OnInv,
     AcquiredInv, guardVars, Goto
<1>14. ASSUME NEW t \in Thread, OperationLeaveParent(t) PROVE AcquiredInv'
  BY <1>14, BusyGuard, RootFacts DEF OperationLeaveParent, Leave, Return, IInv, TypeOK, OnInv,
     AcquiredInv, guardVars, Goto
<1>15. ASSUME NEW t \in Thread, NEW p \in Path, StartWrite(t, p) PROVE AcquiredInv'
  BY <1>15, BusyGuard, RootFacts DEF StartWrite, IInv, TypeOK, OnInv, AcquiredInv, guardVars, Goto
<1>16. ASSUME NEW t \in Thread, StopWrite(t) PROVE AcquiredInv'
  BY <1>16, BusyGuard, RootFacts DEF StopWrite, IInv, TypeOK, OnInv, AcquiredInv, guardVars, Goto
<1>17. ASSUME NEW t \in Thread, NEW g \in Guard, Close(t, g) PROVE AcquiredInv'
  BY <1>17, BusyGuard, RootFacts DEF Close, Caller, IInv, TypeOK, OnInv, AcquiredInv, guardVars,
     Goto
<1>18. ASSUME NEW t \in Thread, CloseParent(t) PROVE AcquiredInv'
  BY <1>18, BusyGuard, RootFacts DEF CloseParent, IInv, TypeOK, OnInv, AcquiredInv, guardVars, Goto
<1>19. ASSUME NEW t \in Thread, Cleanup(t) PROVE AcquiredInv'
  BY <1>19, BusyGuard, RootFacts DEF Cleanup, AfterCleanup, IInv, TypeOK, OnInv, AcquiredInv,
     guardVars, Goto
<1>20. ASSUME NEW t \in Thread, IdleParent(t) PROVE AcquiredInv'
  BY <1>20, BusyGuard, RootFacts DEF IdleParent, IInv, TypeOK, OnInv, AcquiredInv, guardVars, Goto
<1>21. ASSUME NEW t \in Thread, IdleOwn(t) PROVE AcquiredInv'
  BY <1>21, BusyGuard, RootFacts DEF IdleOwn, IInv, TypeOK, OnInv, AcquiredInv, guardVars, Goto
<1>22. ASSUME NEW t \in Thread, RemoveState(t) PROVE AcquiredInv'
  BY <1>22, BusyGuard, RootFacts DEF RemoveState, ReleaseMutexes, AfterCleanup, Idle, IInv,
     TypeOK, OnInv, AcquiredInv, guardVars, Goto
<1>23. ASSUME NEW t \in Thread, CloseLeaveParent(t) PROVE AcquiredInv'
  BY <1>23, BusyGuard, RootFacts DEF CloseLeaveParent, Leave, IInv, TypeOK, OnInv, AcquiredInv,
     guardVars, Goto
<1>24. ASSUME NEW t \in Thread, CloseLeave(t) PROVE AcquiredInv'
  BY <1>24, BusyGuard, RootFacts DEF CloseLeave, Leave, Return, IInv, TypeOK, OnInv, AcquiredInv,
     guardVars, Goto
<1>25. ASSUME NEW p \in Process, Crash(p) PROVE AcquiredInv'
  BY <1>25, BusyGuard, RootFacts DEF Crash, IInv, TypeOK, OnInv, AcquiredInv, guardVars, Goto
<1> QED
    BY <1>1, <1>2, <1>3, <1>4, <1>5, <1>6, <1>7, <1>8, <1>9, <1>10, <1>11, <1>12, <1>13, <1>14,
     <1>15, <1>16, <1>17, <1>18, <1>19, <1>20, <1>21, <1>22, <1>23, <1>24, <1>25, StepCases DEF
     IInv

\* What add_paths granted stays locked until the root's last leave.
LEMMA ClaimStep ==
    ASSUME IInv, Next
    PROVE  ClaimInv'
<1>1. ASSUME NEW t \in Thread, NEW g \in Guard, NEW paths \in Requests, Construct(t, g, paths) PROVE ClaimInv'
  BY <1>1, BusyGuard, RootFacts, LeavingActive DEF Construct, EnterAddPaths, IInv, TypeOK,
     ClaimInv, guardVars, Goto
<1>2. ASSUME NEW t \in Thread, NEW g \in Guard, NEW paths \in Requests, AddPaths(t, g, paths) PROVE ClaimInv'
  BY <1>2, BusyGuard, RootFacts, LeavingActive DEF AddPaths, EnterAddPaths, Caller, IInv, TypeOK,
     ClaimInv, guardVars, Goto
<1>3. ASSUME NEW t \in Thread, AddPathsParent(t) PROVE ClaimInv'
  BY <1>3, BusyGuard, RootFacts, LeavingActive DEF AddPathsParent, IInv, TypeOK, ClaimInv,
     guardVars, Goto
<1>4. ASSUME NEW t \in Thread, AddPathsRefused(t) PROVE ClaimInv'
  BY <1>4, BusyGuard, RootFacts, LeavingActive DEF AddPathsRefused, Return, IInv, TypeOK,
     ClaimInv, guardVars, Goto
<1>5. ASSUME NEW t \in Thread, LockKey(t) PROVE ClaimInv'
  BY <1>5, BusyGuard, RootFacts, LeavingActive DEF LockKey, Pending, Required, IInv, TypeOK,
     ClaimInv, guardVars, Goto
<1>6. ASSUME NEW t \in Thread, LockRefused(t) PROVE ClaimInv'
  <2>1. /\ on[t] \in Guard /\ Root(on[t]) \in Guard /\ pc[t] = "lock"
        /\ exclusive' = [exclusive EXCEPT ![Root(on[t])] = @ \ acquired[t]]
        /\ claimed' = claimed /\ closing' = closing /\ active' = active
    BY <1>6, BusyGuard DEF LockRefused, Fail, IInv
  <2>2. \A g \in Guard : Root(g) = Root(on[t]) => claimed[g] \cap acquired[t] = {}
    BY <2>1 DEF AcquiredInv, IInv
  <2> QED
    BY <2>1, <2>2, RootFacts DEF ClaimInv, TypeOK, IInv
<1>7. ASSUME NEW t \in Thread, LockDone(t) PROVE ClaimInv'
  <2>1. /\ on[t] \in Guard /\ Root(on[t]) \in Guard /\ Pending(t) = {} /\ exclusive' = exclusive
        /\ claimed' = [claimed EXCEPT ![on[t]] = @ \union want[t]]
        /\ closing' = closing /\ active' = active
    BY <1>7, BusyGuard DEF LockDone, IInv
  <2>2. want[t] \subseteq exclusive[Root(on[t])]
    BY <2>1 DEF Pending, Required
  <2>3. ~closing[Root(on[t])]
    BY <1>7 DEF LockDone, MutexInv, IInv
  <2> QED
    BY <2>1, <2>2, <2>3 DEF ClaimInv, TypeOK, IInv
<1>8. ASSUME NEW t \in Thread, NEW g \in Guard, OperationParent(t, g) PROVE ClaimInv'
  BY <1>8, BusyGuard, RootFacts, LeavingActive DEF OperationParent, Caller, IInv, TypeOK,
     ClaimInv, guardVars, Goto
<1>9. ASSUME NEW t \in Thread, OperationEnter(t) PROVE ClaimInv'
  BY <1>9, BusyGuard, RootFacts, LeavingActive DEF OperationEnter, IInv, TypeOK, ClaimInv,
     guardVars, Goto
<1>10. ASSUME NEW t \in Thread, OperationRefused(t) PROVE ClaimInv'
  BY <1>10, BusyGuard, RootFacts, LeavingActive DEF OperationRefused, IInv, TypeOK, ClaimInv,
     guardVars, Goto
<1>11. ASSUME NEW t \in Thread, NEW g \in Guard, OperationRoot(t, g) PROVE ClaimInv'
  BY <1>11, BusyGuard, RootFacts, LeavingActive DEF OperationRoot, Caller, IInv, TypeOK, ClaimInv,
     guardVars, Goto
<1>12. ASSUME NEW t \in Thread, FinishBody(t) PROVE ClaimInv'
  BY <1>12, BusyGuard, RootFacts, LeavingActive DEF FinishBody, IInv, TypeOK, ClaimInv, guardVars,
     Goto
<1>13. ASSUME NEW t \in Thread, OperationLeave(t) PROVE ClaimInv'
  BY <1>13, BusyGuard, RootFacts, LeavingActive DEF OperationLeave, Leave, Return, IInv, TypeOK,
     ClaimInv, guardVars, Goto
<1>14. ASSUME NEW t \in Thread, OperationLeaveParent(t) PROVE ClaimInv'
  BY <1>14, BusyGuard, RootFacts, LeavingActive DEF OperationLeaveParent, Leave, Return, IInv,
     TypeOK, ClaimInv, guardVars, Goto
<1>15. ASSUME NEW t \in Thread, NEW p \in Path, StartWrite(t, p) PROVE ClaimInv'
  BY <1>15, BusyGuard, RootFacts, LeavingActive DEF StartWrite, IInv, TypeOK, ClaimInv, guardVars,
     Goto
<1>16. ASSUME NEW t \in Thread, StopWrite(t) PROVE ClaimInv'
  BY <1>16, BusyGuard, RootFacts, LeavingActive DEF StopWrite, IInv, TypeOK, ClaimInv, guardVars,
     Goto
<1>17. ASSUME NEW t \in Thread, NEW g \in Guard, Close(t, g) PROVE ClaimInv'
  BY <1>17, BusyGuard, RootFacts, LeavingActive DEF Close, Caller, IInv, TypeOK, ClaimInv,
     guardVars, Goto
<1>18. ASSUME NEW t \in Thread, CloseParent(t) PROVE ClaimInv'
  BY <1>18, BusyGuard, RootFacts, LeavingActive DEF CloseParent, IInv, TypeOK, ClaimInv,
     guardVars, Goto
<1>19. ASSUME NEW t \in Thread, Cleanup(t) PROVE ClaimInv'
  BY <1>19, BusyGuard, RootFacts, LeavingActive DEF Cleanup, AfterCleanup, IInv, TypeOK, ClaimInv,
     guardVars, Goto
<1>20. ASSUME NEW t \in Thread, IdleParent(t) PROVE ClaimInv'
  BY <1>20, BusyGuard, RootFacts, LeavingActive DEF IdleParent, IInv, TypeOK, ClaimInv, guardVars,
     Goto
<1>21. ASSUME NEW t \in Thread, IdleOwn(t) PROVE ClaimInv'
  BY <1>21, BusyGuard, RootFacts, LeavingActive DEF IdleOwn, IInv, TypeOK, ClaimInv, guardVars, Goto
<1>22. ASSUME NEW t \in Thread, RemoveState(t) PROVE ClaimInv'
  BY <1>22, BusyGuard, RootFacts, LeavingActive DEF RemoveState, ReleaseMutexes, AfterCleanup,
     Idle, IInv, TypeOK, ClaimInv, guardVars, Goto
<1>23. ASSUME NEW t \in Thread, CloseLeaveParent(t) PROVE ClaimInv'
  BY <1>23, BusyGuard, RootFacts, LeavingActive DEF CloseLeaveParent, Leave, IInv, TypeOK,
     ClaimInv, guardVars, Goto
<1>24. ASSUME NEW t \in Thread, CloseLeave(t) PROVE ClaimInv'
  BY <1>24, BusyGuard, RootFacts, LeavingActive DEF CloseLeave, Leave, Return, IInv, TypeOK,
     ClaimInv, guardVars, Goto
<1>25. ASSUME NEW p \in Process, Crash(p) PROVE ClaimInv'
  BY <1>25, BusyGuard, RootFacts, LeavingActive DEF Crash, IInv, TypeOK, ClaimInv, guardVars, Goto
<1> QED
    BY <1>1, <1>2, <1>3, <1>4, <1>5, <1>6, <1>7, <1>8, <1>9, <1>10, <1>11, <1>12, <1>13, <1>14,
     <1>15, <1>16, <1>17, <1>18, <1>19, <1>20, <1>21, <1>22, <1>23, <1>24, <1>25, StepCases DEF
     IInv

\* A writer stays inside its operation and in a granted tree.
LEMMA WriteStep ==
    ASSUME IInv, Next
    PROVE  WriteInv'
<1>1. ASSUME NEW t \in Thread, NEW g \in Guard, NEW paths \in Requests, Construct(t, g, paths) PROVE WriteInv'
  BY <1>1, BusyGuard DEF Construct, EnterAddPaths, IInv, TypeOK, OnInv, WriteInv, guardVars, Goto
<1>2. ASSUME NEW t \in Thread, NEW g \in Guard, NEW paths \in Requests, AddPaths(t, g, paths) PROVE WriteInv'
  BY <1>2, BusyGuard DEF AddPaths, EnterAddPaths, Caller, IInv, TypeOK, OnInv, WriteInv,
     guardVars, Goto
<1>3. ASSUME NEW t \in Thread, AddPathsParent(t) PROVE WriteInv'
  BY <1>3, BusyGuard DEF AddPathsParent, IInv, TypeOK, OnInv, WriteInv, guardVars, Goto
<1>4. ASSUME NEW t \in Thread, AddPathsRefused(t) PROVE WriteInv'
  BY <1>4, BusyGuard DEF AddPathsRefused, Return, IInv, TypeOK, OnInv, WriteInv, guardVars, Goto
<1>5. ASSUME NEW t \in Thread, LockKey(t) PROVE WriteInv'
  BY <1>5, BusyGuard DEF LockKey, Pending, Required, IInv, TypeOK, OnInv, WriteInv, guardVars, Goto
<1>6. ASSUME NEW t \in Thread, LockRefused(t) PROVE WriteInv'
  BY <1>6, BusyGuard DEF LockRefused, Fail, ReleaseMutexes, Return, IInv, TypeOK, OnInv, WriteInv,
     guardVars, Goto
<1>7. ASSUME NEW t \in Thread, LockDone(t) PROVE WriteInv'
  BY <1>7, BusyGuard DEF LockDone, ReleaseMutexes, Return, IInv, TypeOK, OnInv, WriteInv,
     guardVars, Goto
<1>8. ASSUME NEW t \in Thread, NEW g \in Guard, OperationParent(t, g) PROVE WriteInv'
  BY <1>8, BusyGuard DEF OperationParent, Caller, IInv, TypeOK, OnInv, WriteInv, guardVars, Goto
<1>9. ASSUME NEW t \in Thread, OperationEnter(t) PROVE WriteInv'
  BY <1>9, BusyGuard DEF OperationEnter, IInv, TypeOK, OnInv, WriteInv, guardVars, Goto
<1>10. ASSUME NEW t \in Thread, OperationRefused(t) PROVE WriteInv'
  BY <1>10, BusyGuard DEF OperationRefused, IInv, TypeOK, OnInv, WriteInv, guardVars, Goto
<1>11. ASSUME NEW t \in Thread, NEW g \in Guard, OperationRoot(t, g) PROVE WriteInv'
  BY <1>11, BusyGuard DEF OperationRoot, Caller, IInv, TypeOK, OnInv, WriteInv, guardVars, Goto
<1>12. ASSUME NEW t \in Thread, FinishBody(t) PROVE WriteInv'
  BY <1>12, BusyGuard DEF FinishBody, IInv, TypeOK, OnInv, WriteInv, guardVars, Goto
<1>13. ASSUME NEW t \in Thread, OperationLeave(t) PROVE WriteInv'
  BY <1>13, BusyGuard DEF OperationLeave, Leave, Return, IInv, TypeOK, OnInv, WriteInv, guardVars,
     Goto
<1>14. ASSUME NEW t \in Thread, OperationLeaveParent(t) PROVE WriteInv'
  BY <1>14, BusyGuard DEF OperationLeaveParent, Leave, Return, IInv, TypeOK, OnInv, WriteInv,
     guardVars, Goto
<1>15. ASSUME NEW t \in Thread, NEW p \in Path, StartWrite(t, p) PROVE WriteInv'
  BY <1>15, BusyGuard DEF StartWrite, IInv, TypeOK, OnInv, WriteInv, guardVars, Goto
<1>16. ASSUME NEW t \in Thread, StopWrite(t) PROVE WriteInv'
  BY <1>16, BusyGuard DEF StopWrite, IInv, TypeOK, OnInv, WriteInv, guardVars, Goto
<1>17. ASSUME NEW t \in Thread, NEW g \in Guard, Close(t, g) PROVE WriteInv'
  BY <1>17, BusyGuard DEF Close, Caller, IInv, TypeOK, OnInv, WriteInv, guardVars, Goto
<1>18. ASSUME NEW t \in Thread, CloseParent(t) PROVE WriteInv'
  BY <1>18, BusyGuard DEF CloseParent, IInv, TypeOK, OnInv, WriteInv, guardVars, Goto
<1>19. ASSUME NEW t \in Thread, Cleanup(t) PROVE WriteInv'
  BY <1>19, BusyGuard DEF Cleanup, AfterCleanup, IInv, TypeOK, OnInv, WriteInv, guardVars, Goto
<1>20. ASSUME NEW t \in Thread, IdleParent(t) PROVE WriteInv'
  BY <1>20, BusyGuard DEF IdleParent, IInv, TypeOK, OnInv, WriteInv, guardVars, Goto
<1>21. ASSUME NEW t \in Thread, IdleOwn(t) PROVE WriteInv'
  BY <1>21, BusyGuard DEF IdleOwn, IInv, TypeOK, OnInv, WriteInv, guardVars, Goto
<1>22. ASSUME NEW t \in Thread, RemoveState(t) PROVE WriteInv'
  BY <1>22, BusyGuard DEF RemoveState, ReleaseMutexes, AfterCleanup, Idle, IInv, TypeOK, OnInv,
     WriteInv, guardVars, Goto
<1>23. ASSUME NEW t \in Thread, CloseLeaveParent(t) PROVE WriteInv'
  BY <1>23, BusyGuard DEF CloseLeaveParent, Leave, IInv, TypeOK, OnInv, WriteInv, guardVars, Goto
<1>24. ASSUME NEW t \in Thread, CloseLeave(t) PROVE WriteInv'
  BY <1>24, BusyGuard DEF CloseLeave, Leave, Return, IInv, TypeOK, OnInv, WriteInv, guardVars, Goto
<1>25. ASSUME NEW p \in Process, Crash(p) PROVE WriteInv'
  BY <1>25, BusyGuard DEF Crash, IInv, TypeOK, OnInv, WriteInv, guardVars, Goto
<1> QED
    BY <1>1, <1>2, <1>3, <1>4, <1>5, <1>6, <1>7, <1>8, <1>9, <1>10, <1>11, <1>12, <1>13, <1>14,
     <1>15, <1>16, <1>17, <1>18, <1>19, <1>20, <1>21, <1>22, <1>23, <1>24, <1>25, StepCases DEF
     IInv

-----------------------------------------------------------------------------
(* The lease counter *)

LeaseIds == 0..(MaxNest + 1)

\* The leases of a thread depend on its own place only.
LEMMA LeaseLocal ==
    ASSUME NEW u \in Thread, pc'[u] = pc[u], on'[u] = on[u], depth'[u] = depth[u],
           NEW i, NEW h
    PROVE  HoldsLease(u, i, h)' <=> HoldsLease(u, i, h)
  BY DEF HoldsLease

\* No lease changes hands.
LEMMA CountSame ==
    ASSUME CountInv, active' = active,
           \A u \in Thread, i \in LeaseIds, g \in Guard :
              HoldsLease(u, i, g)' <=> HoldsLease(u, i, g)
    PROVE  CountInv'
<1>1. ASSUME NEW g \in Guard PROVE Leases(g)' = Leases(g)
  BY DEF Leases, LeaseIds
<1> QED
  BY <1>1 DEF CountInv

\* One lease of guard h is taken.
LEMMA CountAdd ==
    ASSUME TypeOK, CountInv, NEW h \in Guard, NEW t \in Thread, NEW j \in LeaseIds,
           ~HoldsLease(t, j, h), HoldsLease(t, j, h)',
           active' = [active EXCEPT ![h] = @ + 1],
           \A u \in Thread, i \in LeaseIds, g \in Guard :
              <<u, i, g>> # <<t, j, h>> => (HoldsLease(u, i, g)' <=> HoldsLease(u, i, g))
    PROVE  CountInv'
<1>1. Leases(h)' = Leases(h) \union {<<t, j>>} /\ <<t, j>> \notin Leases(h)
  BY DEF Leases, LeaseIds
<1>2. Cardinality(Leases(h)') = Cardinality(Leases(h)) + 1
  BY <1>1, FS_AddElement, LeasesFinite
<1>3. ASSUME NEW g \in Guard, g # h PROVE Leases(g)' = Leases(g)
  BY <1>3 DEF Leases, LeaseIds
<1> QED
  BY <1>2, <1>3 DEF CountInv, TypeOK

\* One lease of guard h is given back.
LEMMA CountRemove ==
    ASSUME TypeOK, CountInv, NEW h \in Guard, NEW t \in Thread, NEW j \in LeaseIds,
           HoldsLease(t, j, h), ~HoldsLease(t, j, h)',
           active' = [active EXCEPT ![h] = @ - 1],
           \A u \in Thread, i \in LeaseIds, g \in Guard :
              <<u, i, g>> # <<t, j, h>> => (HoldsLease(u, i, g)' <=> HoldsLease(u, i, g))
    PROVE  CountInv'
<1>1. Leases(h)' = Leases(h) \ {<<t, j>>} /\ <<t, j>> \in Leases(h)
  BY DEF Leases, LeaseIds
<1>2. Cardinality(Leases(h)') = Cardinality(Leases(h)) - 1
  BY <1>1, FS_RemoveElement, LeasesFinite
<1>3. ASSUME NEW g \in Guard, g # h PROVE Leases(g)' = Leases(g)
  BY <1>3 DEF Leases, LeaseIds
<1> QED
  BY <1>2, <1>3 DEF CountInv, TypeOK

\* _active counts the leases.
LEMMA CountStep ==
    ASSUME IInv, Next
    PROVE  CountInv'
<1>1. ASSUME NEW t \in Thread, NEW g \in Guard, NEW paths \in Requests, Construct(t, g, paths) PROVE CountInv'
  <2>1. active' = active
    BY <1>1 DEF Construct, EnterAddPaths, guardVars
  <2>2. ASSUME NEW u \in Thread, NEW i \in LeaseIds, NEW h \in Guard
        PROVE  HoldsLease(u, i, h)' <=> HoldsLease(u, i, h)
        BY <1>1, ConstantsAssumption DEF Construct, EnterAddPaths, Goto, HasParent, HoldsLease,
       CloseLabels, CloseParentLabels, ParentLabels, LeaseIds, TypeOK, OnInv, IInv
  <2> QED
    BY <2>1, <2>2, CountSame DEF IInv
<1>2. ASSUME NEW t \in Thread, NEW g \in Guard, NEW paths \in Requests, AddPaths(t, g, paths) PROVE CountInv'
  <2>1. active' = active
    BY <1>2 DEF AddPaths, EnterAddPaths, Caller, guardVars
  <2>2. ASSUME NEW u \in Thread, NEW i \in LeaseIds, NEW h \in Guard
        PROVE  HoldsLease(u, i, h)' <=> HoldsLease(u, i, h)
        BY <1>2, ConstantsAssumption DEF AddPaths, EnterAddPaths, Caller, Goto, HasParent,
       HoldsLease, CloseLabels, CloseParentLabels, ParentLabels, LeaseIds, TypeOK, OnInv, IInv
  <2> QED
    BY <2>1, <2>2, CountSame DEF IInv
<1>3. ASSUME NEW t \in Thread, AddPathsParent(t) PROVE CountInv'
  <2>1. active' = active
    BY <1>3 DEF AddPathsParent, guardVars
  <2>2. ASSUME NEW u \in Thread, NEW i \in LeaseIds, NEW h \in Guard
        PROVE  HoldsLease(u, i, h)' <=> HoldsLease(u, i, h)
        BY <1>3, ConstantsAssumption DEF AddPathsParent, Goto, HasParent, HoldsLease, CloseLabels,
       CloseParentLabels, ParentLabels, LeaseIds, TypeOK, OnInv, IInv
  <2> QED
    BY <2>1, <2>2, CountSame DEF IInv
<1>4. ASSUME NEW t \in Thread, AddPathsRefused(t) PROVE CountInv'
  <2>1. active' = active
    BY <1>4 DEF AddPathsRefused, Return, guardVars
  <2>2. ASSUME NEW u \in Thread, NEW i \in LeaseIds, NEW h \in Guard
        PROVE  HoldsLease(u, i, h)' <=> HoldsLease(u, i, h)
    <3>1. CASE u # t
      <4>1. pc'[u] = pc[u] /\ on'[u] = on[u] /\ depth'[u] = depth[u]
        BY <1>4, <2>2, <3>1 DEF AddPathsRefused, Return, Goto, TypeOK, IInv
      <4> QED
        BY <4>1, LeaseLocal
    <3>2. CASE u = t
      <4>1. /\ pc[t] = "addParent"
            /\ pc'[t] \in {"ready", "initFailed"}
            /\ depth'[t] = depth[t]
            /\ (on'[t] = on[t] \/ (depth'[t] = 0 /\ on'[t] = NoGuard))
        BY <1>4 DEF AddPathsRefused, Return, Goto, TypeOK, OnInv, IInv
      <4>2. depth[t] \in Nat /\ depth'[t] \in Nat
        BY <1>4, <4>1, ConstantsAssumption DEF TypeOK, OnInv, IInv
      <4> QED
                BY <1>4, <2>2, <3>2, <4>1, <4>2, BusyGuard, ConstantsAssumption DEF HoldsLease,
           CloseLabels, CloseParentLabels, ParentLabels, LeaseIds, HasParent, IInv
    <3> QED
      BY <3>1, <3>2
  <2> QED
    BY <2>1, <2>2, CountSame DEF IInv
<1>5. ASSUME NEW t \in Thread, LockKey(t) PROVE CountInv'
  <2>1. active' = active
    BY <1>5 DEF LockKey, Pending, Required, guardVars
  <2>2. ASSUME NEW u \in Thread, NEW i \in LeaseIds, NEW h \in Guard
        PROVE  HoldsLease(u, i, h)' <=> HoldsLease(u, i, h)
        BY <1>5, ConstantsAssumption DEF LockKey, Pending, Required, Goto, HasParent, HoldsLease,
       CloseLabels, CloseParentLabels, ParentLabels, LeaseIds, TypeOK, OnInv, IInv
  <2> QED
    BY <2>1, <2>2, CountSame DEF IInv
<1>6. ASSUME NEW t \in Thread, LockRefused(t) PROVE CountInv'
  <2>1. active' = active
    BY <1>6 DEF LockRefused, Fail, ReleaseMutexes, Return, guardVars
  <2>2. ASSUME NEW u \in Thread, NEW i \in LeaseIds, NEW h \in Guard
        PROVE  HoldsLease(u, i, h)' <=> HoldsLease(u, i, h)
        BY <1>6, ConstantsAssumption, SMTT(30) DEF LockRefused, Fail, ReleaseMutexes, Return, Goto,
       HasParent, HoldsLease, CloseLabels, CloseParentLabels, ParentLabels, LeaseIds, TypeOK,
       OnInv, IInv
  <2> QED
    BY <2>1, <2>2, CountSame DEF IInv
<1>7. ASSUME NEW t \in Thread, LockDone(t) PROVE CountInv'
  <2>1. active' = active
    BY <1>7 DEF LockDone, ReleaseMutexes, Return, guardVars
  <2>2. ASSUME NEW u \in Thread, NEW i \in LeaseIds, NEW h \in Guard
        PROVE  HoldsLease(u, i, h)' <=> HoldsLease(u, i, h)
        BY <1>7, ConstantsAssumption DEF LockDone, ReleaseMutexes, Return, Goto, HasParent,
       HoldsLease, CloseLabels, CloseParentLabels, ParentLabels, LeaseIds, TypeOK, OnInv, IInv
  <2> QED
    BY <2>1, <2>2, CountSame DEF IInv
<1>8. ASSUME NEW t \in Thread, NEW g \in Guard, OperationParent(t, g) PROVE CountInv'
  <2>1. PICK r \in Guard, j \in LeaseIds :
          r = Parent[g] /\ j = depth[t] + 1 /\ active' = [active EXCEPT ![r] = @ + 1]
    <3>1. Parent[g] \in Guard /\ depth[t] + 1 \in LeaseIds /\ active' = [active EXCEPT ![Parent[g]] = @ + 1]
      BY <1>8, BusyGuard, RootFacts, ConstantsAssumption
         DEF OperationParent, Caller, guardVars, LeaseIds, ParentLabels, TypeOK, OnInv, IInv
    <3> QED
      BY <3>1
  <2>2. ~HoldsLease(t, j, r) /\ HoldsLease(t, j, r)'
        BY <1>8, <2>1, BusyGuard, RootFacts DEF OperationParent, Caller, Goto, HoldsLease,
       CloseLabels, CloseParentLabels, ParentLabels, LeaseIds, TypeOK, OnInv, IInv
  <2>3. ASSUME NEW u \in Thread, NEW i \in LeaseIds, NEW h \in Guard,
               <<u, i, h>> # <<t, j, r>>
        PROVE  HoldsLease(u, i, h)' <=> HoldsLease(u, i, h)
    <3>1. CASE u # t
      <4>1. pc'[u] = pc[u] /\ on'[u] = on[u] /\ depth'[u] = depth[u]
        BY <1>8, <2>1, <2>3, <3>1 DEF OperationParent, Caller, Goto, TypeOK, IInv
      <4> QED
        BY <4>1, LeaseLocal
    <3>2. CASE u = t
      <4>1. /\ pc[t] = "ready"
            /\ pc'[t] = "enter"
            /\ depth'[t] = depth[t]
            /\ (depth[t] = 0 \/ on[t] = g)
            /\ on'[t] = g
        BY <1>8 DEF OperationParent, Caller, Goto, TypeOK, OnInv, IInv
      <4>2. depth[t] \in Nat /\ depth'[t] \in Nat
        BY <1>8, <4>1, ConstantsAssumption DEF TypeOK, OnInv, IInv
      <4> QED
                BY <1>8, <2>1, <2>3, <3>2, <4>1, <4>2, BusyGuard, RootFacts, ConstantsAssumption
           DEF HoldsLease, CloseLabels, CloseParentLabels, ParentLabels, LeaseIds, HasParent, IInv
    <3> QED
      BY <3>1, <3>2
  <2> QED
    BY <2>1, <2>2, <2>3, CountAdd DEF IInv
<1>9. ASSUME NEW t \in Thread, OperationEnter(t) PROVE CountInv'
  <2>1. PICK r \in Guard, j \in LeaseIds :
          r = on[t] /\ j = depth[t] + 1 /\ active' = [active EXCEPT ![r] = @ + 1]
    <3>1. on[t] \in Guard /\ depth[t] + 1 \in LeaseIds /\ active' = [active EXCEPT ![on[t]] = @ + 1]
      BY <1>9, BusyGuard, RootFacts, ConstantsAssumption
         DEF OperationEnter, guardVars, LeaseIds, ParentLabels, TypeOK, OnInv, IInv
    <3> QED
      BY <3>1
  <2>2. ~HoldsLease(t, j, r) /\ HoldsLease(t, j, r)'
        BY <1>9, <2>1, BusyGuard, RootFacts DEF OperationEnter, Goto, HoldsLease, CloseLabels,
       CloseParentLabels, ParentLabels, LeaseIds, TypeOK, OnInv, IInv
  <2>3. ASSUME NEW u \in Thread, NEW i \in LeaseIds, NEW h \in Guard,
               <<u, i, h>> # <<t, j, r>>
        PROVE  HoldsLease(u, i, h)' <=> HoldsLease(u, i, h)
    <3>1. CASE u # t
      <4>1. pc'[u] = pc[u] /\ on'[u] = on[u] /\ depth'[u] = depth[u]
        BY <1>9, <2>1, <2>3, <3>1 DEF OperationEnter, Goto, TypeOK, IInv
      <4> QED
        BY <4>1, LeaseLocal
    <3>2. CASE u = t
      <4>1. /\ pc[t] = "enter"
            /\ pc'[t] = "ready"
            /\ depth'[t] = depth[t] + 1
            /\ on'[t] = on[t]
        BY <1>9 DEF OperationEnter, Goto, TypeOK, OnInv, IInv
      <4>2. depth[t] \in Nat /\ depth'[t] \in Nat
        BY <1>9, <4>1, ConstantsAssumption DEF TypeOK, OnInv, IInv
      <4> QED
                BY <1>9, <2>1, <2>3, <3>2, <4>1, <4>2, BusyGuard, RootFacts, ConstantsAssumption
           DEF HoldsLease, CloseLabels, CloseParentLabels, ParentLabels, LeaseIds, HasParent, IInv
    <3> QED
      BY <3>1, <3>2
  <2> QED
    BY <2>1, <2>2, <2>3, CountAdd DEF IInv
<1>10. ASSUME NEW t \in Thread, OperationRefused(t) PROVE CountInv'
  <2>1. active' = active
    BY <1>10 DEF OperationRefused, guardVars
  <2>2. ASSUME NEW u \in Thread, NEW i \in LeaseIds, NEW h \in Guard
        PROVE  HoldsLease(u, i, h)' <=> HoldsLease(u, i, h)
        BY <1>10, ConstantsAssumption DEF OperationRefused, Goto, HasParent, HoldsLease,
       CloseLabels, CloseParentLabels, ParentLabels, LeaseIds, TypeOK, OnInv, IInv
  <2> QED
    BY <2>1, <2>2, CountSame DEF IInv
<1>11. ASSUME NEW t \in Thread, NEW g \in Guard, OperationRoot(t, g) PROVE CountInv'
  <2>1. PICK r \in Guard, j \in LeaseIds :
          r = g /\ j = depth[t] + 1 /\ active' = [active EXCEPT ![r] = @ + 1]
    <3>1. g \in Guard /\ depth[t] + 1 \in LeaseIds /\ active' = [active EXCEPT ![g] = @ + 1]
      BY <1>11, BusyGuard, RootFacts, ConstantsAssumption
         DEF OperationRoot, Caller, guardVars, LeaseIds, ParentLabels, TypeOK, OnInv, IInv
    <3> QED
      BY <3>1
  <2>2. ~HoldsLease(t, j, r) /\ HoldsLease(t, j, r)'
        BY <1>11, <2>1, BusyGuard, RootFacts DEF OperationRoot, Caller, Goto, HoldsLease,
       CloseLabels, CloseParentLabels, ParentLabels, LeaseIds, TypeOK, OnInv, IInv
  <2>3. ASSUME NEW u \in Thread, NEW i \in LeaseIds, NEW h \in Guard,
               <<u, i, h>> # <<t, j, r>>
        PROVE  HoldsLease(u, i, h)' <=> HoldsLease(u, i, h)
    <3>1. CASE u # t
      <4>1. pc'[u] = pc[u] /\ on'[u] = on[u] /\ depth'[u] = depth[u]
        BY <1>11, <2>1, <2>3, <3>1 DEF OperationRoot, Caller, Goto, TypeOK, IInv
      <4> QED
        BY <4>1, LeaseLocal
    <3>2. CASE u = t
      <4>1. /\ pc[t] = "ready"
            /\ pc'[t] = "ready"
            /\ depth'[t] = depth[t] + 1
            /\ ~HasParent(g)
            /\ (depth[t] = 0 \/ on[t] = g)
            /\ on'[t] = g
        BY <1>11 DEF OperationRoot, Caller, Goto, TypeOK, OnInv, IInv
      <4>2. depth[t] \in Nat /\ depth'[t] \in Nat
        BY <1>11, <4>1, ConstantsAssumption DEF TypeOK, OnInv, IInv
      <4> QED
                BY <1>11, <2>1, <2>3, <3>2, <4>1, <4>2, BusyGuard, RootFacts, ConstantsAssumption
           DEF HoldsLease, CloseLabels, CloseParentLabels, ParentLabels, LeaseIds, HasParent, IInv
    <3> QED
      BY <3>1, <3>2
  <2> QED
    BY <2>1, <2>2, <2>3, CountAdd DEF IInv
<1>12. ASSUME NEW t \in Thread, FinishBody(t) PROVE CountInv'
  <2>1. active' = active
    BY <1>12 DEF FinishBody, guardVars
  <2>2. ASSUME NEW u \in Thread, NEW i \in LeaseIds, NEW h \in Guard
        PROVE  HoldsLease(u, i, h)' <=> HoldsLease(u, i, h)
        BY <1>12, ConstantsAssumption DEF FinishBody, Goto, HasParent, HoldsLease, CloseLabels,
       CloseParentLabels, ParentLabels, LeaseIds, TypeOK, OnInv, IInv
  <2> QED
    BY <2>1, <2>2, CountSame DEF IInv
<1>13. ASSUME NEW t \in Thread, OperationLeave(t) PROVE CountInv'
  <2>1. PICK r \in Guard, j \in LeaseIds :
          r = on[t] /\ j = depth[t] /\ active' = [active EXCEPT ![r] = @ - 1]
    <3>1. on[t] \in Guard /\ depth[t] \in LeaseIds /\ active' = [active EXCEPT ![on[t]] = @ - 1]
      BY <1>13, BusyGuard, RootFacts, ConstantsAssumption
         DEF OperationLeave, Leave, Return, guardVars, LeaseIds, ParentLabels, TypeOK, OnInv, IInv
    <3> QED
      BY <3>1
  <2>2. HoldsLease(t, j, r) /\ ~HoldsLease(t, j, r)'
        BY <1>13, <2>1, BusyGuard, RootFacts DEF OperationLeave, Leave, Return, Goto, HoldsLease,
       CloseLabels, CloseParentLabels, ParentLabels, LeaseIds, TypeOK, OnInv, IInv
  <2>3. ASSUME NEW u \in Thread, NEW i \in LeaseIds, NEW h \in Guard,
               <<u, i, h>> # <<t, j, r>>
        PROVE  HoldsLease(u, i, h)' <=> HoldsLease(u, i, h)
    <3>1. CASE u # t
      <4>1. pc'[u] = pc[u] /\ on'[u] = on[u] /\ depth'[u] = depth[u]
        BY <1>13, <2>1, <2>3, <3>1 DEF OperationLeave, Leave, Return, Goto, TypeOK, IInv
      <4> QED
        BY <4>1, LeaseLocal
    <3>2. CASE u = t
      <4>1. /\ pc[t] = "leave"
            /\ depth'[t] = depth[t] - 1
            /\ (pc'[t] = IF HasParent(on[t]) THEN "leaveParent" ELSE "ready")
            /\ (on'[t] = on[t] \/ (~HasParent(on[t]) /\ depth'[t] = 0 /\ on'[t] = NoGuard))
        BY <1>13 DEF OperationLeave, Leave, Return, Goto, TypeOK, OnInv, IInv
      <4>2. depth[t] \in Nat /\ depth'[t] \in Nat
        BY <1>13, <4>1, ConstantsAssumption DEF TypeOK, OnInv, IInv
      <4> QED
                BY <1>13, <2>1, <2>3, <3>2, <4>1, <4>2, BusyGuard, RootFacts, ConstantsAssumption
           DEF HoldsLease, CloseLabels, CloseParentLabels, ParentLabels, LeaseIds, HasParent, IInv
    <3> QED
      BY <3>1, <3>2
  <2> QED
    BY <2>1, <2>2, <2>3, CountRemove DEF IInv
<1>14. ASSUME NEW t \in Thread, OperationLeaveParent(t) PROVE CountInv'
  <2>1. PICK r \in Guard, j \in LeaseIds :
          r = Parent[on[t]] /\ j = depth[t] + 1 /\ active' = [active EXCEPT ![r] = @ - 1]
    <3>1. Parent[on[t]] \in Guard /\ depth[t] + 1 \in LeaseIds /\ active' = [active EXCEPT ![Parent[on[t]]] = @ - 1]
      BY <1>14, BusyGuard, RootFacts, ConstantsAssumption
         DEF OperationLeaveParent, Leave, Return, guardVars, LeaseIds, ParentLabels, TypeOK, OnInv, IInv
    <3> QED
      BY <3>1
  <2>2. HoldsLease(t, j, r) /\ ~HoldsLease(t, j, r)'
        BY <1>14, <2>1, BusyGuard, RootFacts DEF OperationLeaveParent, Leave, Return, Goto,
       HoldsLease, CloseLabels, CloseParentLabels, ParentLabels, LeaseIds, TypeOK, OnInv, IInv
  <2>3. ASSUME NEW u \in Thread, NEW i \in LeaseIds, NEW h \in Guard,
               <<u, i, h>> # <<t, j, r>>
        PROVE  HoldsLease(u, i, h)' <=> HoldsLease(u, i, h)
    <3>1. CASE u # t
      <4>1. pc'[u] = pc[u] /\ on'[u] = on[u] /\ depth'[u] = depth[u]
        BY <1>14, <2>1, <2>3, <3>1 DEF OperationLeaveParent, Leave, Return, Goto, TypeOK, IInv
      <4> QED
        BY <4>1, LeaseLocal
    <3>2. CASE u = t
      <4>1. /\ pc[t] = "leaveParent"
            /\ pc'[t] = "ready"
            /\ depth'[t] = depth[t]
            /\ (on'[t] = on[t] \/ (depth'[t] = 0 /\ on'[t] = NoGuard))
        BY <1>14 DEF OperationLeaveParent, Leave, Return, Goto, TypeOK, OnInv, IInv
      <4>2. depth[t] \in Nat /\ depth'[t] \in Nat
        BY <1>14, <4>1, ConstantsAssumption DEF TypeOK, OnInv, IInv
      <4> QED
                BY <1>14, <2>1, <2>3, <3>2, <4>1, <4>2, BusyGuard, RootFacts, ConstantsAssumption
           DEF HoldsLease, CloseLabels, CloseParentLabels, ParentLabels, LeaseIds, HasParent, IInv
    <3> QED
      BY <3>1, <3>2
  <2> QED
    BY <2>1, <2>2, <2>3, CountRemove DEF IInv
<1>15. ASSUME NEW t \in Thread, NEW p \in Path, StartWrite(t, p) PROVE CountInv'
  <2>1. active' = active
    BY <1>15 DEF StartWrite, guardVars
  <2>2. ASSUME NEW u \in Thread, NEW i \in LeaseIds, NEW h \in Guard
        PROVE  HoldsLease(u, i, h)' <=> HoldsLease(u, i, h)
        BY <1>15, ConstantsAssumption DEF StartWrite, Goto, HasParent, HoldsLease, CloseLabels,
       CloseParentLabels, ParentLabels, LeaseIds, TypeOK, OnInv, IInv
  <2> QED
    BY <2>1, <2>2, CountSame DEF IInv
<1>16. ASSUME NEW t \in Thread, StopWrite(t) PROVE CountInv'
  <2>1. active' = active
    BY <1>16 DEF StopWrite, guardVars
  <2>2. ASSUME NEW u \in Thread, NEW i \in LeaseIds, NEW h \in Guard
        PROVE  HoldsLease(u, i, h)' <=> HoldsLease(u, i, h)
        BY <1>16, ConstantsAssumption DEF StopWrite, Goto, HasParent, HoldsLease, CloseLabels,
       CloseParentLabels, ParentLabels, LeaseIds, TypeOK, OnInv, IInv
  <2> QED
    BY <2>1, <2>2, CountSame DEF IInv
<1>17. ASSUME NEW t \in Thread, NEW g \in Guard, Close(t, g) PROVE CountInv'
  <2>1. PICK r \in Guard, j \in LeaseIds :
          r = g /\ j = 0 /\ active' = [active EXCEPT ![r] = @ + 1]
    <3>1. g \in Guard /\ 0 \in LeaseIds /\ active' = [active EXCEPT ![g] = @ + 1]
      BY <1>17, BusyGuard, RootFacts, ConstantsAssumption
         DEF Close, Caller, guardVars, LeaseIds, ParentLabels, TypeOK, OnInv, IInv
    <3> QED
      BY <3>1
  <2>2. ~HoldsLease(t, j, r) /\ HoldsLease(t, j, r)'
        BY <1>17, <2>1, BusyGuard, RootFacts DEF Close, Caller, Goto, HoldsLease, CloseLabels,
       CloseParentLabels, ParentLabels, LeaseIds, TypeOK, OnInv, IInv
  <2>3. ASSUME NEW u \in Thread, NEW i \in LeaseIds, NEW h \in Guard,
               <<u, i, h>> # <<t, j, r>>
        PROVE  HoldsLease(u, i, h)' <=> HoldsLease(u, i, h)
        BY <1>17, <2>1, <2>3, BusyGuard, RootFacts DEF Close, Caller, Goto, HoldsLease,
       CloseLabels, CloseParentLabels, ParentLabels, LeaseIds, TypeOK, OnInv, IInv
  <2> QED
    BY <2>1, <2>2, <2>3, CountAdd DEF IInv
<1>18. ASSUME NEW t \in Thread, CloseParent(t) PROVE CountInv'
  <2>1. CASE closing[Parent[on[t]]]
    <3>1. active' = active
      BY <1>18, <2>1 DEF CloseParent, guardVars
    <3>2. ASSUME NEW u \in Thread, NEW i \in LeaseIds, NEW h \in Guard
          PROVE  HoldsLease(u, i, h)' <=> HoldsLease(u, i, h)
            BY <1>18, <2>1, ConstantsAssumption DEF CloseParent, Goto, HasParent, HoldsLease,
         CloseLabels, CloseParentLabels, ParentLabels, LeaseIds, TypeOK, OnInv, IInv
    <3> QED
      BY <3>1, <3>2, CountSame DEF IInv
  <2>2. CASE ~closing[Parent[on[t]]]
    <3>1. PICK r \in Guard, j \in LeaseIds :
            r = Parent[on[t]] /\ j = 0 /\ active' = [active EXCEPT ![r] = @ + 1]
      <4>1. Parent[on[t]] \in Guard /\ 0 \in LeaseIds /\ active' = [active EXCEPT ![Parent[on[t]]] = @ + 1]
        BY <1>18, <2>2, BusyGuard, RootFacts, ConstantsAssumption
           DEF CloseParent, guardVars, LeaseIds, ParentLabels, TypeOK, OnInv, IInv
      <4> QED
        BY <4>1
    <3>2. ~HoldsLease(t, j, r) /\ HoldsLease(t, j, r)'
            BY <1>18, <2>2, <3>1, BusyGuard, RootFacts DEF CloseParent, Goto, HoldsLease,
         CloseLabels, CloseParentLabels, ParentLabels, LeaseIds, TypeOK, OnInv, IInv
    <3>3. ASSUME NEW u \in Thread, NEW i \in LeaseIds, NEW h \in Guard,
                 <<u, i, h>> # <<t, j, r>>
          PROVE  HoldsLease(u, i, h)' <=> HoldsLease(u, i, h)
            BY <1>18, <2>2, <3>1, <3>3, BusyGuard, RootFacts DEF CloseParent, Goto, HoldsLease,
         CloseLabels, CloseParentLabels, ParentLabels, LeaseIds, TypeOK, OnInv, IInv
    <3> QED
      BY <3>1, <3>2, <3>3, CountAdd DEF IInv
  <2> QED
    BY <2>1, <2>2
<1>19. ASSUME NEW t \in Thread, Cleanup(t) PROVE CountInv'
  <2>1. active' = active
    BY <1>19 DEF Cleanup, AfterCleanup, guardVars
  <2>2. ASSUME NEW u \in Thread, NEW i \in LeaseIds, NEW h \in Guard
        PROVE  HoldsLease(u, i, h)' <=> HoldsLease(u, i, h)
        BY <1>19, ConstantsAssumption DEF Cleanup, AfterCleanup, Goto, HasParent, HoldsLease,
       CloseLabels, CloseParentLabels, ParentLabels, LeaseIds, TypeOK, OnInv, IInv
  <2> QED
    BY <2>1, <2>2, CountSame DEF IInv
<1>20. ASSUME NEW t \in Thread, IdleParent(t) PROVE CountInv'
  <2>1. active' = active
    BY <1>20 DEF IdleParent, guardVars
  <2>2. ASSUME NEW u \in Thread, NEW i \in LeaseIds, NEW h \in Guard
        PROVE  HoldsLease(u, i, h)' <=> HoldsLease(u, i, h)
        BY <1>20, ConstantsAssumption DEF IdleParent, Goto, HasParent, HoldsLease, CloseLabels,
       CloseParentLabels, ParentLabels, LeaseIds, TypeOK, OnInv, IInv
  <2> QED
    BY <2>1, <2>2, CountSame DEF IInv
<1>21. ASSUME NEW t \in Thread, IdleOwn(t) PROVE CountInv'
  <2>1. active' = active
    BY <1>21 DEF IdleOwn, guardVars
  <2>2. ASSUME NEW u \in Thread, NEW i \in LeaseIds, NEW h \in Guard
        PROVE  HoldsLease(u, i, h)' <=> HoldsLease(u, i, h)
        BY <1>21, ConstantsAssumption DEF IdleOwn, Goto, HasParent, HoldsLease, CloseLabels,
       CloseParentLabels, ParentLabels, LeaseIds, TypeOK, OnInv, IInv
  <2> QED
    BY <2>1, <2>2, CountSame DEF IInv
<1>22. ASSUME NEW t \in Thread, RemoveState(t) PROVE CountInv'
  <2>1. active' = active
    BY <1>22 DEF RemoveState, ReleaseMutexes, AfterCleanup, Idle, guardVars
  <2>2. ASSUME NEW u \in Thread, NEW i \in LeaseIds, NEW h \in Guard
        PROVE  HoldsLease(u, i, h)' <=> HoldsLease(u, i, h)
        BY <1>22, ConstantsAssumption DEF RemoveState, ReleaseMutexes, AfterCleanup, Idle, Goto,
       HasParent, HoldsLease, CloseLabels, CloseParentLabels, ParentLabels, LeaseIds, TypeOK,
       OnInv, IInv
  <2> QED
    BY <2>1, <2>2, CountSame DEF IInv
<1>23. ASSUME NEW t \in Thread, CloseLeaveParent(t) PROVE CountInv'
  <2>1. PICK r \in Guard, j \in LeaseIds :
          r = Parent[on[t]] /\ j = 0 /\ active' = [active EXCEPT ![r] = @ - 1]
    <3>1. Parent[on[t]] \in Guard /\ 0 \in LeaseIds /\ active' = [active EXCEPT ![Parent[on[t]]] = @ - 1]
      BY <1>23, BusyGuard, RootFacts, ConstantsAssumption
         DEF CloseLeaveParent, Leave, guardVars, LeaseIds, ParentLabels, TypeOK, OnInv, IInv
    <3> QED
      BY <3>1
  <2>2. HoldsLease(t, j, r) /\ ~HoldsLease(t, j, r)'
        BY <1>23, <2>1, BusyGuard, RootFacts DEF CloseLeaveParent, Leave, Goto, HoldsLease,
       CloseLabels, CloseParentLabels, ParentLabels, LeaseIds, TypeOK, OnInv, IInv
  <2>3. ASSUME NEW u \in Thread, NEW i \in LeaseIds, NEW h \in Guard,
               <<u, i, h>> # <<t, j, r>>
        PROVE  HoldsLease(u, i, h)' <=> HoldsLease(u, i, h)
        BY <1>23, <2>1, <2>3, BusyGuard, RootFacts DEF CloseLeaveParent, Leave, Goto, HoldsLease,
       CloseLabels, CloseParentLabels, ParentLabels, LeaseIds, TypeOK, OnInv, IInv
  <2> QED
    BY <2>1, <2>2, <2>3, CountRemove DEF IInv
<1>24. ASSUME NEW t \in Thread, CloseLeave(t) PROVE CountInv'
  <2>1. PICK r \in Guard, j \in LeaseIds :
          r = on[t] /\ j = 0 /\ active' = [active EXCEPT ![r] = @ - 1]
    <3>1. on[t] \in Guard /\ 0 \in LeaseIds /\ active' = [active EXCEPT ![on[t]] = @ - 1]
      BY <1>24, BusyGuard, RootFacts, ConstantsAssumption
         DEF CloseLeave, Leave, Return, guardVars, LeaseIds, ParentLabels, TypeOK, OnInv, IInv
    <3> QED
      BY <3>1
  <2>2. HoldsLease(t, j, r) /\ ~HoldsLease(t, j, r)'
        BY <1>24, <2>1, BusyGuard, RootFacts DEF CloseLeave, Leave, Return, Goto, HoldsLease,
       CloseLabels, CloseParentLabels, ParentLabels, LeaseIds, TypeOK, OnInv, IInv
  <2>3. ASSUME NEW u \in Thread, NEW i \in LeaseIds, NEW h \in Guard,
               <<u, i, h>> # <<t, j, r>>
        PROVE  HoldsLease(u, i, h)' <=> HoldsLease(u, i, h)
        BY <1>24, <2>1, <2>3, BusyGuard, RootFacts DEF CloseLeave, Leave, Return, Goto,
       HoldsLease, CloseLabels, CloseParentLabels, ParentLabels, LeaseIds, TypeOK, OnInv, IInv
  <2> QED
    BY <2>1, <2>2, <2>3, CountRemove DEF IInv
<1>25. ASSUME NEW p \in Process, Crash(p) PROVE CountInv'
  <2>1. ASSUME NEW g \in Guard, GuardProc[g] = p
        PROVE  Leases(g)' = {} /\ active'[g] = 0
    <3>1. ASSUME NEW u \in Thread, NEW i \in LeaseIds PROVE ~HoldsLease(u, i, g)'
      <4>1. CASE ThreadProc[u] = p
                BY <1>25, <4>1, ConstantsAssumption DEF Crash, HoldsLease, CloseLabels,
           CloseParentLabels, LeaseIds
      <4>2. CASE ThreadProc[u] # p
        <5>1. ~HoldsLease(u, i, g)
          BY <2>1, <4>2, BusyGuard, RootFacts
             DEF HoldsLease, CloseLabels, CloseParentLabels, TypeOK, IInv
        <5> QED
          BY <1>25, <4>2, <5>1 DEF Crash, HoldsLease
      <4> QED
        BY <4>1, <4>2
    <3> QED
      BY <1>25, <2>1, <3>1 DEF Crash, Leases, LeaseIds
  <2>2. ASSUME NEW g \in Guard, GuardProc[g] # p
        PROVE  Leases(g)' = Leases(g) /\ active'[g] = active[g]
    <3>1. ASSUME NEW u \in Thread, NEW i \in LeaseIds
          PROVE  HoldsLease(u, i, g)' <=> HoldsLease(u, i, g)
      <4>1. CASE ThreadProc[u] = p
        <5>1. ~HoldsLease(u, i, g)
          BY <2>2, <4>1, BusyGuard, RootFacts
             DEF HoldsLease, CloseLabels, CloseParentLabels, TypeOK, IInv
        <5> QED
                    BY <1>25, <4>1, <5>1, ConstantsAssumption DEF Crash, HoldsLease, CloseLabels,
             CloseParentLabels, LeaseIds
      <4>2. CASE ThreadProc[u] # p
        BY <1>25, <4>2 DEF Crash, HoldsLease
      <4> QED
        BY <4>1, <4>2
    <3> QED
      BY <1>25, <2>2, <3>1 DEF Crash, Leases, LeaseIds
  <2> QED
    BY <2>1, <2>2, FS_EmptySet DEF CountInv, IInv
<1> QED
    BY <1>1, <1>2, <1>3, <1>4, <1>5, <1>6, <1>7, <1>8, <1>9, <1>10, <1>11, <1>12, <1>13, <1>14,
     <1>15, <1>16, <1>17, <1>18, <1>19, <1>20, <1>21, <1>22, <1>23, <1>24, <1>25, StepCases DEF
     IInv

-----------------------------------------------------------------------------
(* The state directory *)

\* An idle guard has no writer, so its state can go.
LEMMA StateStep ==
    ASSUME IInv, Next
    PROVE  WriterKeepsState'
<1>1. ASSUME NEW t \in Thread, NEW g \in Guard, NEW paths \in Requests, Construct(t, g, paths) PROVE WriterKeepsState'
  BY <1>1, BusyGuard DEF Construct, EnterAddPaths, IInv, TypeOK, OnInv, WriteInv,
     WriterKeepsState, guardVars, Goto
<1>2. ASSUME NEW t \in Thread, NEW g \in Guard, NEW paths \in Requests, AddPaths(t, g, paths) PROVE WriterKeepsState'
  BY <1>2, BusyGuard DEF AddPaths, EnterAddPaths, Caller, IInv, TypeOK, OnInv, WriteInv,
     WriterKeepsState, guardVars, Goto
<1>3. ASSUME NEW t \in Thread, AddPathsParent(t) PROVE WriterKeepsState'
  BY <1>3, BusyGuard DEF AddPathsParent, IInv, TypeOK, OnInv, WriteInv, WriterKeepsState,
     guardVars, Goto
<1>4. ASSUME NEW t \in Thread, AddPathsRefused(t) PROVE WriterKeepsState'
  BY <1>4, BusyGuard DEF AddPathsRefused, Return, IInv, TypeOK, OnInv, WriteInv, WriterKeepsState,
     guardVars, Goto
<1>5. ASSUME NEW t \in Thread, LockKey(t) PROVE WriterKeepsState'
  BY <1>5, BusyGuard DEF LockKey, Pending, Required, IInv, TypeOK, OnInv, WriteInv,
     WriterKeepsState, guardVars, Goto
<1>6. ASSUME NEW t \in Thread, LockRefused(t) PROVE WriterKeepsState'
  BY <1>6, BusyGuard DEF LockRefused, Fail, ReleaseMutexes, Return, IInv, TypeOK, OnInv, WriteInv,
     WriterKeepsState, guardVars, Goto
<1>7. ASSUME NEW t \in Thread, LockDone(t) PROVE WriterKeepsState'
  BY <1>7, BusyGuard DEF LockDone, ReleaseMutexes, Return, IInv, TypeOK, OnInv, WriteInv,
     WriterKeepsState, guardVars, Goto
<1>8. ASSUME NEW t \in Thread, NEW g \in Guard, OperationParent(t, g) PROVE WriterKeepsState'
  BY <1>8, BusyGuard DEF OperationParent, Caller, IInv, TypeOK, OnInv, WriteInv, WriterKeepsState,
     guardVars, Goto
<1>9. ASSUME NEW t \in Thread, OperationEnter(t) PROVE WriterKeepsState'
  BY <1>9, BusyGuard DEF OperationEnter, IInv, TypeOK, OnInv, WriteInv, WriterKeepsState,
     guardVars, Goto
<1>10. ASSUME NEW t \in Thread, OperationRefused(t) PROVE WriterKeepsState'
  BY <1>10, BusyGuard DEF OperationRefused, IInv, TypeOK, OnInv, WriteInv, WriterKeepsState,
     guardVars, Goto
<1>11. ASSUME NEW t \in Thread, NEW g \in Guard, OperationRoot(t, g) PROVE WriterKeepsState'
  BY <1>11, BusyGuard DEF OperationRoot, Caller, IInv, TypeOK, OnInv, WriteInv, WriterKeepsState,
     guardVars, Goto
<1>12. ASSUME NEW t \in Thread, FinishBody(t) PROVE WriterKeepsState'
  BY <1>12, BusyGuard DEF FinishBody, IInv, TypeOK, OnInv, WriteInv, WriterKeepsState, guardVars,
     Goto
<1>13. ASSUME NEW t \in Thread, OperationLeave(t) PROVE WriterKeepsState'
  BY <1>13, BusyGuard DEF OperationLeave, Leave, Return, IInv, TypeOK, OnInv, WriteInv,
     WriterKeepsState, guardVars, Goto
<1>14. ASSUME NEW t \in Thread, OperationLeaveParent(t) PROVE WriterKeepsState'
  BY <1>14, BusyGuard DEF OperationLeaveParent, Leave, Return, IInv, TypeOK, OnInv, WriteInv,
     WriterKeepsState, guardVars, Goto
<1>15. ASSUME NEW t \in Thread, NEW p \in Path, StartWrite(t, p) PROVE WriterKeepsState'
  BY <1>15, BusyGuard DEF StartWrite, IInv, TypeOK, OnInv, WriteInv, WriterKeepsState, guardVars,
     Goto
<1>16. ASSUME NEW t \in Thread, StopWrite(t) PROVE WriterKeepsState'
  BY <1>16, BusyGuard DEF StopWrite, IInv, TypeOK, OnInv, WriteInv, WriterKeepsState, guardVars,
     Goto
<1>17. ASSUME NEW t \in Thread, NEW g \in Guard, Close(t, g) PROVE WriterKeepsState'
  BY <1>17, BusyGuard DEF Close, Caller, IInv, TypeOK, OnInv, WriteInv, WriterKeepsState,
     guardVars, Goto
<1>18. ASSUME NEW t \in Thread, CloseParent(t) PROVE WriterKeepsState'
  BY <1>18, BusyGuard DEF CloseParent, IInv, TypeOK, OnInv, WriteInv, WriterKeepsState, guardVars,
     Goto
<1>19. ASSUME NEW t \in Thread, Cleanup(t) PROVE WriterKeepsState'
  BY <1>19, BusyGuard DEF Cleanup, AfterCleanup, IInv, TypeOK, OnInv, WriteInv, WriterKeepsState,
     guardVars, Goto
<1>20. ASSUME NEW t \in Thread, IdleParent(t) PROVE WriterKeepsState'
  BY <1>20, BusyGuard DEF IdleParent, IInv, TypeOK, OnInv, WriteInv, WriterKeepsState, guardVars,
     Goto
<1>21. ASSUME NEW t \in Thread, IdleOwn(t) PROVE WriterKeepsState'
  BY <1>21, BusyGuard DEF IdleOwn, IInv, TypeOK, OnInv, WriteInv, WriterKeepsState, guardVars, Goto
<1>22. ASSUME NEW t \in Thread, RemoveState(t) PROVE WriterKeepsState'
  <2>1. /\ on[t] \in Guard /\ pc[t] = "idleCheck" /\ writing' = writing /\ on' = on
        /\ stateDir' = stateDir \/ (active[on[t]] = 1 /\ stateDir' = [stateDir EXCEPT ![on[t]] = FALSE])
    BY <1>22, BusyGuard DEF RemoveState, Idle, IInv
  <2>2. ASSUME NEW u \in Thread, writing[u] # NoPath, on[u] = on[t]
        PROVE  active[on[t]] # 1
    <3>1. HoldsLease(u, 1, on[t]) /\ 1 \in 0..(MaxNest + 1)
      BY <2>2, ConstantsAssumption DEF HoldsLease, WriteInv, TypeOK, IInv
    <3>2. HoldsLease(t, 0, on[t]) /\ 0 \in 0..(MaxNest + 1)
      BY <2>1, ConstantsAssumption DEF HoldsLease, CloseLabels
    <3>3. <<u, 1>> \in Leases(on[t]) /\ <<t, 0>> \in Leases(on[t]) /\ <<u, 1>> # <<t, 0>>
      BY <3>1, <3>2 DEF Leases
    <3>4. IsFiniteSet(Leases(on[t])) /\ ~(\E x : Leases(on[t]) = {x})
      BY <2>1, <3>3, LeasesFinite
    <3> QED
      BY <2>1, <3>4, FS_Singleton DEF CountInv, IInv
  <2> QED
    BY <2>1, <2>2 DEF WriterKeepsState, WriteInv, TypeOK, OnInv, IInv
<1>23. ASSUME NEW t \in Thread, CloseLeaveParent(t) PROVE WriterKeepsState'
  BY <1>23, BusyGuard DEF CloseLeaveParent, Leave, IInv, TypeOK, OnInv, WriteInv,
     WriterKeepsState, guardVars, Goto
<1>24. ASSUME NEW t \in Thread, CloseLeave(t) PROVE WriterKeepsState'
  BY <1>24, BusyGuard DEF CloseLeave, Leave, Return, IInv, TypeOK, OnInv, WriteInv,
     WriterKeepsState, guardVars, Goto
<1>25. ASSUME NEW p \in Process, Crash(p) PROVE WriterKeepsState'
  BY <1>25, BusyGuard DEF Crash, IInv, TypeOK, OnInv, WriteInv, WriterKeepsState, guardVars, Goto
<1> QED
    BY <1>1, <1>2, <1>3, <1>4, <1>5, <1>6, <1>7, <1>8, <1>9, <1>10, <1>11, <1>12, <1>13, <1>14,
     <1>15, <1>16, <1>17, <1>18, <1>19, <1>20, <1>21, <1>22, <1>23, <1>24, <1>25, StepCases DEF
     IInv

-----------------------------------------------------------------------------
(* The theorems *)

\* The invariant holds of the empty system.
LEMMA InitIInv ==
    ASSUME Init
    PROVE  IInv
<1>1. TypeOK /\ OnInv /\ MutexInv
  BY ConstantsAssumption DEF Init, TypeOK, Labels, OnInv, MutexInv, ParentLabels
<1>2. CountInv
  <2>1. ASSUME NEW g \in Guard PROVE Leases(g) = {}
    <3>1. ASSUME NEW t \in Thread, NEW i \in 0..(MaxNest + 1) PROVE ~HoldsLease(t, i, g)
      BY ConstantsAssumption DEF Init, HoldsLease, CloseLabels, CloseParentLabels
    <3> QED
      BY <3>1 DEF Leases
  <2> QED
    BY <2>1, FS_EmptySet DEF CountInv, Init
<1>3. KernelInv /\ AncestorInv /\ AcquiredInv /\ ClaimInv /\ WriteInv /\ WriterKeepsState
  BY RootFacts DEF Init, KernelInv, AncestorInv, AcquiredInv, ClaimInv, WriteInv,
                   WriterKeepsState, Held
<1> QED
  BY <1>1, <1>2, <1>3 DEF IInv

\* Every step preserves it.
LEMMA StepIInv ==
    ASSUME IInv, [Next]_vars
    PROVE  IInv'
<1>1. CASE Next
  BY <1>1, TypeStep, OnStep, MutexStep, CountStep, KernelStep, AncestorStep, AcquiredStep,
     ClaimStep, WriteStep, StateStep DEF IInv
<1>2. CASE UNCHANGED vars
  <2>1. TypeOK' /\ OnInv' /\ MutexInv' /\ KernelInv' /\ AncestorInv'
    BY <1>2 DEF IInv, vars, guardVars, threadVars, TypeOK, OnInv, MutexInv, KernelInv,
                AncestorInv, Held
  <2>2. AcquiredInv' /\ ClaimInv' /\ WriteInv' /\ WriterKeepsState'
    BY <1>2 DEF IInv, vars, guardVars, threadVars, AcquiredInv, ClaimInv, WriteInv,
                WriterKeepsState
  <2>3. CountInv'
    BY <1>2 DEF IInv, vars, guardVars, threadVars, CountInv, Leases, HoldsLease
  <2> QED
    BY <2>1, <2>2, <2>3 DEF IInv
<1> QED
  BY <1>1, <1>2

\* The inductive invariant, from which the promises of the module follow.
THEOREM Invariance == Spec => []IInv
<1>1. Init => IInv
  BY InitIInv
<1>2. IInv /\ [Next]_vars => IInv'
  BY StepIInv
<1> QED
  BY <1>1, <1>2, PTL DEF Spec

\* The type invariant: in particular _active never becomes negative, so the
\* test "_active == 0" of _leave cannot be jumped over.
THEOREM TypeCorrect == Spec => []TypeOK
<1>1. IInv => TypeOK
  BY DEF IInv
<1> QED
  BY <1>1, Invariance, PTL

\* Two guards never own trees one of which contains the other.
THEOREM TreesApart == Spec => []ExclusiveTrees
<1>1. ASSUME IInv PROVE ExclusiveTrees
  BY <1>1 DEF IInv, KernelInv, AncestorInv, ExclusiveTrees, Overlap, Held
<1> QED
  BY <1>1, Invariance, PTL

\* A thread that writes has its tree locked by its run, however the close of
\* the mirror or of the run interleaves with its operation.
THEOREM WritersOwnTheirTrees == Spec => []WriterOwnsTree
<1>1. ASSUME IInv PROVE WriterOwnsTree
  <2>1. SUFFICES ASSUME NEW t \in Thread, writing[t] # NoPath
                 PROVE  writing[t] \in exclusive[Root(on[t])]
    BY DEF WriterOwnsTree
  <2>2. depth[t] > 0 /\ writing[t] \in claimed[on[t]] /\ 1 \in 0..(MaxNest + 1) /\ 1 \in 1..depth[t]
    BY <1>1, <2>1, ConstantsAssumption DEF IInv, WriteInv, TypeOK
  <2>3. /\ on[t] \in Guard /\ Root(on[t]) \in Guard
        /\ on[t] = Root(on[t]) \/ (HasParent(on[t]) /\ Parent[on[t]] = Root(on[t]))
    BY <1>1, <2>2, BusyGuard, RootFacts DEF IInv
  <2>4. HoldsLease(t, 1, Root(on[t]))
    BY <1>1, <2>2, <2>3, ConstantsAssumption DEF HoldsLease, IInv, TypeOK
  <2>5. active[Root(on[t])] > 0
    BY <1>1, <2>2, <2>3, <2>4, LeaseActive DEF IInv
  <2> QED
    BY <1>1, <2>2, <2>3, <2>5 DEF IInv, ClaimInv
<1> QED
  BY <1>1, Invariance, PTL

\* The idle clean-up never takes the state directory from under a writer.
THEOREM WritersKeepTheirState == Spec => []WriterKeepsState
<1>1. IInv => WriterKeepsState
  BY DEF IInv
<1> QED
  BY <1>1, Invariance, PTL

-----------------------------------------------------------------------------
(* The clean-up of close() *)

\* One close() of a guard goes past its first section, and its clean-up is
\* still to come while it waits for the parent or is about to call it.
CloseInv ==
    /\ \A g \in Guard : cleaned[g] <= 1 /\ (~closing[g] => cleaned[g] = 0)
    /\ \A t \in Thread : pc[t] \in CloseLabels =>
        /\ closing[on[t]]
        /\ pc[t] \in {"closeParent", "cleanup"} => cleaned[on[t]] = 0
        /\ \A u \in Thread \ {t} : pc[u] \in CloseLabels => on[u] # on[t]

\* What a step must leave alone for CloseInv not to see it.
CloseFrame ==
    /\ cleaned' = cleaned /\ closing' = closing
    /\ \A u \in Thread : pc'[u] \in CloseLabels =>
        /\ pc[u] \in CloseLabels /\ on'[u] = on[u]
        /\ pc'[u] \in {"closeParent", "cleanup"} => pc[u] \in {"closeParent", "cleanup"}

LEMMA CloseFrameKeeps ==
    ASSUME CloseInv, CloseFrame
    PROVE  CloseInv'
  BY DEF CloseInv, CloseFrame

LEMMA CloseStep ==
    ASSUME IInv, CloseInv, Next
    PROVE  CloseInv'
<1> USE DEF IInv, TypeOK, Goto, guardVars
<1>1. ASSUME NEW t \in Thread, NEW g \in Guard, NEW paths \in Requests,
             Construct(t, g, paths) \/ AddPaths(t, g, paths)
      PROVE  CloseFrame
  BY <1>1 DEF Construct, AddPaths, Caller, EnterAddPaths, CloseFrame, CloseLabels
<1>2. ASSUME NEW t \in Thread,
             AddPathsParent(t) \/ AddPathsRefused(t) \/ LockKey(t) \/ LockRefused(t) \/ LockDone(t)
      PROVE  CloseFrame
  BY <1>2 DEF AddPathsParent, AddPathsRefused, LockKey, LockRefused, LockDone, Fail, Return,
              CloseFrame, CloseLabels
<1>3. ASSUME NEW t \in Thread, NEW g \in Guard, OperationParent(t, g) \/ OperationRoot(t, g)
      PROVE  CloseFrame
  BY <1>3 DEF OperationParent, OperationRoot, Caller, CloseFrame, CloseLabels
<1>4. ASSUME NEW t \in Thread,
             OperationEnter(t) \/ OperationRefused(t) \/ FinishBody(t)
                \/ OperationLeave(t) \/ OperationLeaveParent(t)
      PROVE  CloseFrame
  BY <1>4 DEF OperationEnter, OperationRefused, FinishBody, OperationLeave, OperationLeaveParent,
              Return, CloseFrame, CloseLabels
<1>5. ASSUME NEW t \in Thread, NEW p \in Path, StartWrite(t, p)
      PROVE  CloseFrame
  BY <1>5 DEF StartWrite, CloseFrame
<1>6. ASSUME NEW t \in Thread, StopWrite(t)
      PROVE  CloseFrame
  BY <1>6 DEF StopWrite, CloseFrame
<1>7. ASSUME NEW t \in Thread,
             CloseParent(t) \/ IdleParent(t) \/ IdleOwn(t) \/ RemoveState(t)
                \/ CloseLeaveParent(t) \/ CloseLeave(t)
      PROVE  CloseFrame
  BY <1>7 DEF CloseParent, IdleParent, IdleOwn, RemoveState, CloseLeaveParent, CloseLeave,
              AfterCleanup, Return, CloseFrame, CloseLabels
<1>8. ASSUME NEW t \in Thread, NEW g \in Guard, Close(t, g)
      PROVE  CloseInv'
  <2>1. /\ ~ closing[g] /\ closing' = [closing EXCEPT ![g] = TRUE] /\ cleaned' = cleaned
        /\ pc' = [pc EXCEPT ![t] = pc'[t]] /\ on' = [on EXCEPT ![t] = g]
    BY <1>8 DEF Close
  <2>2. cleaned[g] = 0 /\ \A u \in Thread : pc[u] \in CloseLabels => on[u] # g
    BY <2>1 DEF CloseInv
  <2> QED
    BY <2>1, <2>2 DEF CloseInv
<1>9. ASSUME NEW t \in Thread, Cleanup(t)
      PROVE  CloseInv'
  <2>1. /\ on[t] \in Guard /\ pc[t] = "cleanup" /\ closing' = closing /\ on' = on
        /\ cleaned' = [cleaned EXCEPT ![on[t]] = @ + 1]
        /\ pc' = [pc EXCEPT ![t] = pc'[t]]
        /\ pc'[t] \in CloseLabels \ {"closeParent", "cleanup"}
    BY <1>9, BusyGuard DEF Cleanup, AfterCleanup, CloseLabels
  <2>2. /\ closing[on[t]] /\ cleaned[on[t]] = 0
        /\ \A u \in Thread \ {t} : pc[u] \in CloseLabels => on[u] # on[t]
    BY <2>1 DEF CloseInv, CloseLabels
  <2>3. \A u \in Thread : pc[u] \in CloseLabels => on[u] \in Guard
    BY BusyGuard DEF CloseLabels
  <2> QED
    BY <2>1, <2>2, <2>3 DEF CloseInv, CloseLabels
<1>10. ASSUME NEW p \in Process, Crash(p)
       PROVE  CloseInv'
  <2>1. \A u \in Thread : pc'[u] \in CloseLabels =>
            pc'[u] = pc[u] /\ on'[u] = on[u] /\ GuardProc[on[u]] # p /\ on[u] \in Guard
    BY <1>10, BusyGuard DEF Crash, CloseLabels
  <2>2. \A g \in Guard : IF GuardProc[g] = p THEN cleaned'[g] = 0 /\ closing'[g] = FALSE
                                             ELSE cleaned'[g] = cleaned[g] /\ closing'[g] = closing[g]
    BY <1>10 DEF Crash
  <2> QED
    BY <2>1, <2>2 DEF CloseInv
<1> QED
  BY <1>1, <1>2, <1>3, <1>4, <1>5, <1>6, <1>7, <1>8, <1>9, <1>10, StepCases, CloseFrameKeeps

\* close() runs its clean-up once, however many threads call it, and only while
\* the run still holds every tree the guard was granted.
THEOREM CleansUpOnce == Spec => []CleanupOnceAndOwned
<1>1. Init => CloseInv
  BY DEF Init, CloseInv, CloseLabels
<1>2. IInv /\ CloseInv /\ [Next]_vars => CloseInv'
  <2>1. UNCHANGED vars => CloseFrame
    BY DEF vars, guardVars, threadVars, CloseFrame
  <2> QED
    BY <2>1, CloseStep, CloseFrameKeeps
<1>3. ASSUME IInv, CloseInv PROVE CleanupOnceAndOwned
  <2>1. SUFFICES ASSUME NEW t \in Thread, pc[t] \in {"cleanup", "idleParent", "idleOwn", "idleCheck"}
                 PROVE  claimed[on[t]] \subseteq exclusive[Root(on[t])]
    BY <1>3 DEF CleanupOnceAndOwned, CloseInv
  <2>2. /\ on[t] \in Guard /\ Root(on[t]) \in Guard /\ 0 \in 0..(MaxNest + 1)
        /\ on[t] = Root(on[t]) \/ (HasParent(on[t]) /\ Parent[on[t]] = Root(on[t]))
    BY <1>3, <2>1, BusyGuard, RootFacts, ConstantsAssumption DEF IInv
  <2>3. HoldsLease(t, 0, Root(on[t]))
    BY <2>1, <2>2 DEF HoldsLease, CloseLabels, CloseParentLabels
  <2>4. active[Root(on[t])] > 0
    BY <1>3, <2>2, <2>3, LeaseActive DEF IInv
  <2> QED
    BY <1>3, <2>2, <2>4 DEF IInv, ClaimInv
<1> QED
  BY <1>1, <1>2, <1>3, Invariance, PTL DEF Spec

-----------------------------------------------------------------------------
(* The refinement of TreeOwnership *)

Owned == [g \in Roots |-> exclusive[g]]
Writes == [t \in Thread |-> IF writing[t] = NoPath THEN NoPath ELSE <<Root(on[t]), writing[t]>>]

\* What a worker writes in is never NoPath.
LEMMA PairNoPath ==
    ASSUME NEW g \in Guard, NEW p \in Path
    PROVE  <<g, p>> # NoPath
  BY ConstantsAssumption

\* A writer is in an operation body of a guard whose run holds its tree.
LEMMA WriterFacts ==
    ASSUME IInv, NEW t \in Thread, writing[t] # NoPath
    PROVE  /\ on[t] \in Guard /\ Root(on[t]) \in Roots /\ pc[t] = "ready" /\ depth[t] > 0
           /\ writing[t] \in Path /\ writing[t] \in claimed[on[t]]
           /\ Writes[t] = <<Root(on[t]), writing[t]>> /\ Writes[t] # NoPath
           /\ HoldsLease(t, 1, Root(on[t])) /\ 1 \in 0..(MaxNest + 1)
<1>1. /\ pc[t] = "ready" /\ depth[t] > 0 /\ writing[t] \in claimed[on[t]] /\ writing[t] \in Path
      /\ 1 \in 0..(MaxNest + 1) /\ 1 \in 1..depth[t]
  BY ConstantsAssumption DEF IInv, WriteInv, TypeOK
<1>2. /\ on[t] \in Guard /\ Root(on[t]) \in Guard /\ ~HasParent(Root(on[t]))
      /\ on[t] = Root(on[t]) \/ (HasParent(on[t]) /\ Parent[on[t]] = Root(on[t]))
  BY <1>1, BusyGuard, RootFacts DEF IInv
<1>3. HoldsLease(t, 1, Root(on[t]))
  BY <1>1, <1>2 DEF HoldsLease
<1> QED
  BY <1>1, <1>2, <1>3, ConstantsAssumption DEF Roots, Writes

\* The last lease of a closing guard is not a writer's.
LEMMA LastLeaveFree ==
    ASSUME IInv, NEW t \in Thread, NEW i \in 0..(MaxNest + 1), NEW g \in Guard,
           HoldsLease(t, i, g), pc[t] # "ready", active[g] = 1,
           NEW u \in Thread, writing[u] # NoPath
    PROVE  Root(on[u]) # g
<1> SUFFICES ASSUME Root(on[u]) = g
             PROVE  FALSE
  OBVIOUS
<1>1. <<u, 1>> \in Leases(g) /\ <<t, i>> \in Leases(g) /\ <<u, 1>> # <<t, i>>
  BY WriterFacts DEF Leases
<1>2. ~(\E x : Leases(g) = {x})
  BY <1>1
<1> QED
  BY <1>2, LeasesFinite, FS_Singleton DEF CountInv, IInv

\* What a step must leave alone to be a stutter of the promise.
Unseen ==
    /\ \A g \in Roots : exclusive'[g] = exclusive[g]
    /\ writing' = writing
    /\ \A u \in Thread : writing[u] # NoPath => on'[u] = on[u]

LEMMA UnseenStutters ==
    ASSUME Unseen
    PROVE  Owned' = Owned /\ Writes' = Writes
  BY DEF Unseen, Owned, Writes

\* Every step reserves, gives back, writes or dies as the promise allows.
LEMMA PromiseStep ==
    ASSUME IInv, IInv', Next
    PROVE  Promise!Next \/ Unseen
<1>0. KernelInv' /\ AncestorInv'
  BY DEF IInv
<1> USE DEF IInv, TypeOK, guardVars
<1>1. ASSUME NEW t \in Thread, NEW g \in Guard, NEW paths \in Requests,
             Construct(t, g, paths) \/ AddPaths(t, g, paths)
      PROVE  Unseen
  BY <1>1 DEF Construct, AddPaths, Caller, EnterAddPaths, Unseen, WriteInv
<1>2. ASSUME NEW t \in Thread, AddPathsParent(t) \/ AddPathsRefused(t) \/ LockDone(t)
      PROVE  Unseen
  BY <1>2 DEF AddPathsParent, AddPathsRefused, LockDone, Return, Unseen, WriteInv
<1>3. ASSUME NEW t \in Thread, LockKey(t)
      PROVE  Promise!Next \/ Unseen
  <2> DEFINE r == Root(on[t])
  <2>1. r \in Roots /\ r \in Guard
    BY <1>3, BusyGuard, RootFacts DEF LockKey, Roots
  <2>2. PICK k \in Path :
            exclusive' = [exclusive EXCEPT ![r] = IF k \in want[t] THEN @ \union {k} ELSE @]
    BY <1>3, Granted
  <2>3. writing' = writing /\ on' = on
    BY <1>3 DEF LockKey
  <2>4. CASE k \in want[t]
    <3>1. k \in exclusive'[r]
      BY <2>1, <2>2, <2>4
    <3>2. \A h \in Roots \ {r} : \A q \in exclusive[h] : ~Promise!Overlap(k, q)
      <4>1. ASSUME NEW h \in Roots \ {r}, NEW q \in exclusive[h] PROVE ~Overlap(k, q)
        <5>1. q \in exclusive'[h] /\ h \in Guard /\ h # r
          BY <2>1, <2>2, <4>1 DEF Roots
        <5>2. k \notin Held(h)' /\ q \notin Held(r)'
          BY <1>0, <2>1, <2>3, <3>1, <5>1 DEF KernelInv, Held
        <5>3. Above[k] \subseteq Held(r)' /\ Above[q] \subseteq Held(h)'
          BY <1>0, <2>1, <2>3, <3>1, <5>1 DEF AncestorInv, Held
        <5> QED
          BY <5>1, <5>2, <5>3 DEF Overlap, Held
      <4> QED
        BY <4>1 DEF Overlap, Promise!Overlap
    <3>3. Owned' = [Owned EXCEPT ![r] = @ \union {k}]
      BY <2>1, <2>2, <2>4 DEF Owned, Roots
    <3>4. Writes' = Writes
      BY <2>3 DEF Writes
    <3>5. Promise!Claim(r, k)
      BY <2>1, <3>2, <3>3, <3>4 DEF Promise!Claim, Owned, Writes
    <3> QED
      BY <2>1, <3>5 DEF Promise!Next
  <2>5. CASE k \notin want[t]
    BY <2>2, <2>3, <2>5 DEF Unseen, Roots
  <2> QED
    BY <2>4, <2>5
<1>4. ASSUME NEW t \in Thread, LockRefused(t)
      PROVE  Promise!Next
  <2> DEFINE r == Root(on[t])
             back == exclusive[r] \cap acquired[t]
  <2>1. /\ r \in Roots /\ r \in Guard /\ pc[t] = "lock"
        /\ exclusive' = [exclusive EXCEPT ![r] = @ \ acquired[t]]
        /\ writing' = writing /\ \A u \in Thread \ {t} : on'[u] = on[u]
    BY <1>4, BusyGuard, RootFacts DEF LockRefused, Fail, Return, Roots
  <2>2. writing[t] = NoPath
    BY <2>1 DEF WriteInv
  <2>3. Owned' = [Owned EXCEPT ![r] = @ \ back] /\ back \subseteq Owned[r] /\ back \in SUBSET Path
    BY <2>1 DEF Owned, Roots
  <2>4. Writes' = Writes
    BY <2>1, <2>2 DEF Writes
  <2>5. ASSUME NEW p \in back, NEW w \in Thread
        PROVE  Writes[w] # <<r, p>>
    <3>1. CASE writing[w] = NoPath
      BY <2>1, <2>3, <3>1, PairNoPath DEF Writes, Owned
    <3>2. CASE writing[w] # NoPath
      <4>1. SUFFICES ASSUME Root(on[w]) = r PROVE writing[w] # p
        BY <3>2, WriterFacts
      <4>2. claimed[on[w]] \cap acquired[t] = {}
        BY <2>1, <3>2, <4>1, WriterFacts DEF AcquiredInv
      <4> QED
        BY <3>2, <4>2, WriterFacts
    <3> QED
      BY <3>1, <3>2
  <2>6. PICK o \in Roots, trees \in SUBSET Path : o = r /\ trees = back
    BY <2>1, <2>3
  <2>7. Promise!GiveBack(o, trees)
    BY <2>3, <2>4, <2>5, <2>6 DEF Promise!GiveBack, Promise!WritesIn, Owned, Writes
  <2> QED
    BY <2>7 DEF Promise!Next
<1>5. ASSUME NEW t \in Thread, NEW g \in Guard, OperationParent(t, g) \/ OperationRoot(t, g) \/ Close(t, g)
      PROVE  Unseen
  BY <1>5 DEF OperationParent, OperationRoot, Close, Caller, Unseen, WriteInv
<1>6. ASSUME NEW t \in Thread,
             OperationEnter(t) \/ OperationRefused(t) \/ FinishBody(t) \/ CloseParent(t)
                \/ Cleanup(t) \/ IdleParent(t) \/ IdleOwn(t) \/ RemoveState(t)
      PROVE  Unseen
  BY <1>6 DEF OperationEnter, OperationRefused, FinishBody, CloseParent, Cleanup, IdleParent,
              IdleOwn, RemoveState, Unseen, WriteInv
<1>7. ASSUME NEW t \in Thread, NEW i \in 0..(MaxNest + 1), NEW g \in Guard,
             HoldsLease(t, i, g), pc[t] # "ready", Leave(g), writing' = writing,
             \A u \in Thread \ {t} : on'[u] = on[u]
      PROVE  Promise!Next \/ Unseen
  <2>1. writing[t] = NoPath
    BY <1>7 DEF WriteInv
  <2>2. CASE closing[g] /\ active[g] = 1 /\ g \in Roots
    <3>0. exclusive' = [exclusive EXCEPT ![g] = {}] /\ g \in Guard
      BY <1>7, <2>2 DEF Leave
    <3>1. /\ Owned' = [Owned EXCEPT ![g] = @ \ exclusive[g]] /\ exclusive[g] = Owned[g]
          /\ exclusive[g] \in SUBSET Path
      BY <2>2, <3>0 DEF Owned, Roots
    <3>2. Writes' = Writes
      BY <1>7, <2>1 DEF Writes
    <3>3. ASSUME NEW p \in exclusive[g], NEW w \in Thread
          PROVE  Writes[w] # <<g, p>>
      <4>1. CASE writing[w] = NoPath
        BY <3>1, <4>1, PairNoPath DEF Writes
      <4>2. CASE writing[w] # NoPath
        BY <1>7, <2>2, <4>2, WriterFacts, LastLeaveFree
      <4> QED
        BY <4>1, <4>2
    <3>4. PICK trees \in SUBSET Path : trees = exclusive[g]
      BY <3>1
    <3>5. Promise!GiveBack(g, trees)
      BY <3>1, <3>2, <3>3, <3>4 DEF Promise!GiveBack, Promise!WritesIn, Owned, Writes
    <3> QED
      BY <2>2, <3>5 DEF Promise!Next
  <2>3. CASE ~(closing[g] /\ active[g] = 1 /\ g \in Roots)
    BY <1>7, <2>1, <2>3 DEF Leave, Unseen, Roots
  <2> QED
    BY <2>2, <2>3
<1>8. ASSUME NEW t \in Thread, OperationLeave(t) \/ CloseLeave(t)
      PROVE  Promise!Next \/ Unseen
  <2>1. on[t] \in Guard /\ pc[t] # "ready" /\ Leave(on[t]) /\ writing' = writing
        /\ \A u \in Thread \ {t} : on'[u] = on[u]
    BY <1>8, BusyGuard DEF OperationLeave, CloseLeave, Return
  <2>2. \E i \in 0..(MaxNest + 1) : HoldsLease(t, i, on[t])
    <3>1. CASE OperationLeave(t)
      <4>1. HoldsLease(t, 1, on[t]) /\ 1 \in 0..(MaxNest + 1)
        BY <3>1, ConstantsAssumption DEF OperationLeave, HoldsLease, OnInv
      <4> QED
        BY <4>1
    <3>2. CASE CloseLeave(t)
      <4>1. HoldsLease(t, 0, on[t]) /\ 0 \in 0..(MaxNest + 1)
        BY <3>2, ConstantsAssumption DEF CloseLeave, HoldsLease, CloseLabels
      <4> QED
        BY <4>1
    <3> QED
      BY <1>8, <3>1, <3>2
  <2> QED
    BY <1>7, <2>1, <2>2
<1>9. ASSUME NEW t \in Thread, OperationLeaveParent(t) \/ CloseLeaveParent(t)
      PROVE  Promise!Next \/ Unseen
  <2>1. /\ on[t] \in Guard /\ HasParent(on[t]) /\ Parent[on[t]] \in Guard
        /\ pc[t] # "ready" /\ Leave(Parent[on[t]]) /\ writing' = writing
        /\ \A u \in Thread \ {t} : on'[u] = on[u]
    BY <1>9, BusyGuard DEF OperationLeaveParent, CloseLeaveParent, Return, ParentLabels
  <2>2. \E i \in 0..(MaxNest + 1) : HoldsLease(t, i, Parent[on[t]])
    <3>1. CASE OperationLeaveParent(t)
      <4>1. HoldsLease(t, depth[t] + 1, Parent[on[t]]) /\ depth[t] + 1 \in 0..(MaxNest + 1)
        BY <2>1, <3>1, ConstantsAssumption DEF OperationLeaveParent, HoldsLease
      <4> QED
        BY <4>1
    <3>2. CASE CloseLeaveParent(t)
      <4>1. HoldsLease(t, 0, Parent[on[t]]) /\ 0 \in 0..(MaxNest + 1)
        BY <2>1, <3>2, ConstantsAssumption DEF CloseLeaveParent, HoldsLease, CloseParentLabels
      <4> QED
        BY <4>1
    <3> QED
      BY <1>9, <3>1, <3>2
  <2> QED
    BY <1>7, <2>1, <2>2
<1>10. ASSUME NEW t \in Thread, NEW p \in Path, StartWrite(t, p)
       PROVE  Promise!Next
  <2> DEFINE r == Root(on[t])
  <2>1. /\ on'[t] = on[t] /\ exclusive' = exclusive /\ on' = on /\ writing[t] = NoPath
        /\ writing' = [writing EXCEPT ![t] = p] /\ p # NoPath
    BY <1>10, ConstantsAssumption DEF StartWrite
  <2>2. r \in Roots /\ r \in Guard /\ on[t] \in Guard
    BY <1>10, BusyGuard, RootFacts DEF StartWrite, Roots
  <2>3. active[r] > 0
    <3>1. depth[t] > 0 /\ 1 \in 1..depth[t] /\ 1 \in 0..(MaxNest + 1)
      BY <1>10, ConstantsAssumption DEF StartWrite
    <3>2. HoldsLease(t, 1, r)
      BY <2>2, <3>1, RootFacts DEF HoldsLease
    <3> QED
      BY <2>2, <3>1, <3>2, LeaseActive
  <2>4. p \in exclusive[r]
    BY <1>10, <2>2, <2>3 DEF StartWrite, ClaimInv
  <2>5. Writes[t] = NoPath /\ Owned' = Owned /\ Writes' = [Writes EXCEPT ![t] = <<r, p>>]
    BY <2>1 DEF Writes, Owned
  <2>6. Promise!StartWrite(t, r, p)
    BY <2>2, <2>4, <2>5 DEF Promise!StartWrite, Owned, Writes
  <2> QED
    BY <2>2, <2>6 DEF Promise!Next
<1>11. ASSUME NEW t \in Thread, StopWrite(t)
       PROVE  Promise!Next
  <2>1. /\ exclusive' = exclusive /\ on' = on /\ writing[t] # NoPath
        /\ writing' = [writing EXCEPT ![t] = NoPath]
    BY <1>11 DEF StopWrite
  <2>2. Writes[t] # NoPath
    BY <2>1, WriterFacts
  <2>3. Owned' = Owned /\ Writes' = [Writes EXCEPT ![t] = NoPath]
    BY <2>1 DEF Owned, Writes
  <2>4. Promise!StopWrite(t)
    BY <2>2, <2>3 DEF Promise!StopWrite, Owned, Writes
  <2> QED
    BY <2>4 DEF Promise!Next
<1>12. ASSUME NEW p \in Process, Crash(p)
       PROVE  Promise!Next
  <2> DEFINE owners == {g \in Roots : GuardProc[g] = p}
             workers == {t \in Thread : ThreadProc[t] = p}
  <2>1. Owned' = [g \in Roots |-> IF g \in owners THEN {} ELSE Owned[g]]
    BY <1>12 DEF Crash, Owned, Roots
  <2>2. Writes' = [w \in Thread |-> IF w \in workers THEN NoPath ELSE Writes[w]]
    BY <1>12 DEF Crash, Writes
  <2>3. ASSUME NEW w \in Thread, NEW o \in owners, NEW q \in Path, Writes[w] = <<o, q>>
        PROVE  w \in workers
    <3>1. writing[w] # NoPath
      BY <2>3, PairNoPath DEF Writes, Roots
    <3>2. Root(on[w]) = o
      BY <2>3, <3>1, WriterFacts
    <3> QED
      BY <3>1, <3>2, WriterFacts, BusyGuard
  <2>4. Promise!Die(owners, workers)
    BY <2>1, <2>2, <2>3 DEF Promise!Die, Owned, Writes
  <2> QED
    BY <2>4 DEF Promise!Next
<1> QED
  BY <1>1, <1>2, <1>3, <1>4, <1>5, <1>6, <1>8, <1>9, <1>10, <1>11, <1>12, StepCases

\* The guards implement the promise: trees of two owners never overlap, a tree
\* is given back only when nobody writes in it, and only its owner's threads
\* write (destination_lock.py).
THEOREM OwnershipImplemented == Spec => ImplementsTreeOwnership
<1>1. Init => Promise!Init
  BY DEF Init, Promise!Init, Roots
<1>2. IInv /\ IInv' /\ [Next]_vars => [Promise!Next]_Promise!vars
  <2>1. UNCHANGED vars => Unseen
    BY DEF vars, guardVars, threadVars, Unseen
  <2>2. Unseen => UNCHANGED Promise!vars
    BY UnseenStutters DEF Promise!vars, Owned, Writes
  <2> QED
    BY <2>1, <2>2, PromiseStep
<1> QED
  BY <1>1, <1>2, Invariance, PTL DEF Spec, ImplementsTreeOwnership, Promise!Spec
==============================================================================
