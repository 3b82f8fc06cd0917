--------------------------- MODULE DestinationLock ---------------------------
(***************************************************************************)
(* destination_lock.py: DestinationLock, used by several threads of several *)
(* processes, with the idle-owner clean-up of scratch.py that takes its    *)
(* mutexes.                                                                *)
(*                                                                         *)
(* A guard is one DestinationLock object. A CLI run owns a guard without a *)
(* parent; each MirrorURL of the run owns a guard whose parent is the      *)
(* run's, delegates add_paths to it and holds no lock file of its own. The *)
(* lock files are kernel locks, shared on the ancestors of a path and      *)
(* exclusive on the path: they are granted per open file, never waited     *)
(* for, and vanish with the process.                                       *)
(*                                                                         *)
(* A section under a guard's mutex that waits for nothing else is one      *)
(* action, enabled while the mutex is free. Only two sections wait inside: *)
(* add_paths (child mutex, then parent mutex, then one lock file at a      *)
(* time) and cleanup_empty_state (parent mutex, then child mutex); there   *)
(* the mutex is a variable. Giving lock files back is one step: what       *)
(* another process could see in between is a refusal, and LockRefused can  *)
(* happen at any time.                                                     *)
(***************************************************************************)
EXTENDS Naturals, FiniteSets

CONSTANTS
    Process,        \* operating-system processes
    Thread,         \* their threads
    Guard,          \* DestinationLock objects
    Path,           \* lock keys: resolved, normalised, case-folded paths
    ThreadProc,     \* ThreadProc[t], GuardProc[g]: the process of t, of g
    GuardProc,
    Parent,         \* Parent[g]: the run's guard, or NoGuard
    Above,          \* Above[p]: the proper ancestors of p
    Rank,           \* Rank[p]: position of p's key in sorted order
    Requests,       \* the path sets add_paths is called with
    MaxNest,        \* bound: nested operation() leases of one thread
    NoGuard, NoThread, NoPath

ASSUME ConstantsAssumption ==
    /\ IsFiniteSet(Thread)
    /\ ThreadProc \in [Thread -> Process]
    /\ GuardProc \in [Guard -> Process]
    /\ Parent \in [Guard -> Guard \union {NoGuard}]
    /\ NoGuard \notin Guard /\ NoThread \notin Thread
    /\ NoPath \notin Path \union (Guard \X Path)
    /\ \A g \in Guard : Parent[g] # NoGuard =>
          Parent[Parent[g]] = NoGuard /\ GuardProc[Parent[g]] = GuardProc[g]
    /\ Above \in [Path -> SUBSET Path]
    /\ Rank \in [Path -> Nat]
    /\ \A p \in Path : \A a \in Above[p] : Rank[a] < Rank[p]
    /\ \A p, q \in Path : Rank[p] = Rank[q] => p = q
    /\ Requests \subseteq SUBSET Path
    /\ MaxNest \in Nat \ {0}

VARIABLES
    status,         \* status[g]: "new", "init" (in __init__), "live" or "dead"
    shared,         \* shared[g]: the keys of _handles that _exclusive maps to False
    exclusive,      \* exclusive[g]: those it maps to True
    active,         \* _active
    closing,        \* _closing
    mutex,          \* the thread inside a long section of g, or NoThread
    pc, on,         \* where thread t is, and the guard its call is about
    want,           \* want[t]: the paths of the add_paths call in progress
    acquired,       \* acquired[t]: the keys it has locked so far
    depth,          \* depth[t]: nested operation() bodies t is inside
    writing,        \* writing[t]: the tree t is writing in, or NoPath
    claimed,        \* claimed[g]: the paths add_paths has granted to g's owner
    cleaned,        \* cleaned[g]: times close() has called its clean-up
    stateDir        \* stateDir[g]: the .mirror-url-state of g's target exists

guardVars == <<status, shared, exclusive, active, closing, claimed, cleaned, stateDir>>
threadVars == <<pc, on, want, acquired, depth, writing>>
vars == <<guardVars, mutex, threadVars>>

-----------------------------------------------------------------------------
(* Helpers *)

Root(g) == IF Parent[g] = NoGuard THEN g ELSE Parent[g]
HasParent(g) == Parent[g] # NoGuard
Held(g) == shared[g] \union exclusive[g]
Free(g) == mutex[g] = NoThread

\* _requirements: every ancestor shared, every path itself exclusive.
Required(paths) == paths \union UNION {Above[p] : p \in paths}

\* The keys of the sorted iteration that are not skipped by "already held".
Pending(t) ==
    LET r == Root(on[t])
    IN  {k \in Required(want[t]) : k \notin Held(r) \/ (k \in want[t] /\ k \notin exclusive[r])}

\* Variant: a shared lock file does not stop an exclusive request.
ConflictExclusiveOnly(g, k, mode) ==
    \E h \in Guard \ {g} : k \in exclusive[h]

\* What the kernel would refuse: another open file holds k incompatibly.
Conflict(g, k, mode) ==
    \E h \in Guard \ {g} : k \in exclusive[h] \/ (mode = "exclusive" /\ k \in shared[h])

\* Thread t of g's process makes a new call on a usable guard g; inside an
\* operation body it keeps using the same guard.
Caller(t, g) ==
    /\ pc[t] = "ready"
    /\ ThreadProc[t] = GuardProc[g]
    /\ status[g] = "live"
    /\ depth[t] > 0 => on[t] = g
    /\ writing[t] = NoPath

Goto(t, label) == pc' = [pc EXCEPT ![t] = label]

\* The call is over; outside every operation body (d = 0) t is about no guard.
Return(t, d) ==
    /\ Goto(t, "ready")
    /\ on' = [on EXCEPT ![t] = IF d = 0 THEN NoGuard ELSE @]
    /\ want' = [want EXCEPT ![t] = {}]
    /\ acquired' = [acquired EXCEPT ![t] = {}]

\* Both mutexes of a delegated section are released.
ReleaseMutexes(g) ==
    mutex' = [h \in Guard |-> IF h = g \/ h = Root(g) THEN NoThread ELSE mutex[h]]

\* Variant: a closing guard gives its lock files back although leases remain.
LeaveAnyLease(g) ==
    /\ Free(g)
    /\ active' = [active EXCEPT ![g] = @ - 1]
    /\ shared' = [shared EXCEPT ![g] = IF closing[g] THEN {} ELSE @]
    /\ exclusive' = [exclusive EXCEPT ![g] = IF closing[g] THEN {} ELSE @]

\* Variant: the lock files go when the counter is zero before the decrement.
LeaveOffByOne(g) ==
    LET last == closing[g] /\ active[g] = 0
    IN  /\ Free(g)
        /\ active' = [active EXCEPT ![g] = @ - 1]
        /\ shared' = [shared EXCEPT ![g] = IF last THEN {} ELSE @]
        /\ exclusive' = [exclusive EXCEPT ![g] = IF last THEN {} ELSE @]

\* _leave: the last leave of a closing guard closes every lock file.
Leave(g) ==
    LET last == closing[g] /\ active[g] = 1
    IN  /\ Free(g)
        /\ active' = [active EXCEPT ![g] = @ - 1]
        /\ shared' = [shared EXCEPT ![g] = IF last THEN {} ELSE @]
        /\ exclusive' = [exclusive EXCEPT ![g] = IF last THEN {} ELSE @]

-----------------------------------------------------------------------------
Init ==
    /\ status = [g \in Guard |-> "new"]
    /\ shared = [g \in Guard |-> {}]
    /\ exclusive = [g \in Guard |-> {}]
    /\ active = [g \in Guard |-> 0]
    /\ closing = [g \in Guard |-> FALSE]
    /\ mutex = [g \in Guard |-> NoThread]
    /\ pc = [t \in Thread |-> "ready"]
    /\ on = [t \in Thread |-> NoGuard]
    /\ want = [t \in Thread |-> {}]
    /\ acquired = [t \in Thread |-> {}]
    /\ depth = [t \in Thread |-> 0]
    /\ writing = [t \in Thread |-> NoPath]
    /\ claimed = [g \in Guard |-> {}]
    /\ cleaned = [g \in Guard |-> 0]
    /\ stateDir = [g \in Guard |-> FALSE]

-----------------------------------------------------------------------------
(* __init__ and add_paths *)

\* Variant: add_paths leaves the check of _closing to the parent.
EnterAddPathsUnchecked(t, g, paths) ==
    /\ Free(g)
    /\ mutex' = [mutex EXCEPT ![g] = t]
    /\ on' = [on EXCEPT ![t] = g]
    /\ want' = [want EXCEPT ![t] = paths]
    /\ Goto(t, IF HasParent(g) THEN "addParent" ELSE "lock")
    /\ UNCHANGED <<acquired, depth, writing, shared, exclusive, active, closing,
                   claimed, cleaned, stateDir>>

\* The body of add_paths up to the parent's mutex: own mutex, own _closing.
EnterAddPaths(t, g, paths) ==
    /\ Free(g)
    /\ ~closing[g]
    /\ mutex' = [mutex EXCEPT ![g] = t]
    /\ on' = [on EXCEPT ![t] = g]
    /\ want' = [want EXCEPT ![t] = paths]
    /\ Goto(t, IF HasParent(g) THEN "addParent" ELSE "lock")
    /\ UNCHANGED <<acquired, depth, writing, shared, exclusive, active, closing,
                   claimed, cleaned, stateDir>>

\* DestinationLock(paths, parent): until __init__ returns, only t knows g.
Construct(t, g, paths) ==
    /\ pc[t] = "ready" /\ depth[t] = 0
    /\ ThreadProc[t] = GuardProc[g]
    /\ status[g] = "new"
    /\ HasParent(g) => status[Parent[g]] = "live"
    /\ status' = [status EXCEPT ![g] = "init"]
    /\ EnterAddPaths(t, g, paths)

\* On a closed guard add_paths raises and changes nothing.
AddPaths(t, g, paths) ==
    /\ Caller(t, g)
    /\ EnterAddPaths(t, g, paths)
    /\ UNCHANGED status

AddPathsParent(t) ==
    /\ pc[t] = "addParent"
    /\ Free(Parent[on[t]])
    /\ ~closing[Parent[on[t]]]
    /\ mutex' = [mutex EXCEPT ![Parent[on[t]]] = t]
    /\ Goto(t, "lock")
    /\ UNCHANGED <<guardVars, on, want, acquired, depth, writing>>

\* Variant: the roll-back gives back every key of the request.
FailGivesAllBack(t) ==
    LET g == on[t]
        r == Root(g)
    IN  /\ shared' = [shared EXCEPT ![r] = @ \ Required(want[t])]
        /\ exclusive' = [exclusive EXCEPT ![r] = @ \ Required(want[t])]
        /\ ReleaseMutexes(g)
        /\ IF status[g] = "init"
           THEN /\ Goto(t, "initFailed")
                /\ want' = [want EXCEPT ![t] = {}]
                /\ acquired' = [acquired EXCEPT ![t] = {}]
                /\ UNCHANGED on
           ELSE Return(t, depth[t])
        /\ UNCHANGED <<status, active, closing, claimed, cleaned, stateDir, depth, writing>>

\* What add_paths does when it raises: the keys locked by this call are given
\* back, both mutexes are released; a failed __init__ goes on to self.close().
Fail(t) ==
    LET g == on[t]
        r == Root(g)
    IN  /\ shared' = [shared EXCEPT ![r] = @ \ acquired[t]]
        /\ exclusive' = [exclusive EXCEPT ![r] = @ \ acquired[t]]
        /\ ReleaseMutexes(g)
        /\ IF status[g] = "init"
           THEN /\ Goto(t, "initFailed")
                /\ want' = [want EXCEPT ![t] = {}]
                /\ acquired' = [acquired EXCEPT ![t] = {}]
                /\ UNCHANGED on
           ELSE Return(t, depth[t])
        /\ UNCHANGED <<status, active, closing, claimed, cleaned, stateDir, depth, writing>>

\* The parent is closing: its add_paths raises before it locks anything.
AddPathsRefused(t) ==
    /\ pc[t] = "addParent"
    /\ mutex[Parent[on[t]]] = NoThread
    /\ closing[Parent[on[t]]]
    /\ shared' = shared /\ exclusive' = exclusive
    /\ mutex' = [mutex EXCEPT ![on[t]] = NoThread]
    /\ IF status[on[t]] = "init"
       THEN /\ Goto(t, "initFailed")
            /\ want' = [want EXCEPT ![t] = {}]
            /\ UNCHANGED <<on, acquired>>
       ELSE Return(t, depth[t])
    /\ UNCHANGED <<status, active, closing, claimed, cleaned, stateDir, depth, writing>>

\* The next key in sorted order that is not held; the kernel grants it.
LockKey(t) ==
    LET r == Root(on[t])
    IN  /\ pc[t] = "lock"
        /\ \E k \in Pending(t) :
              LET mode == IF k \in want[t] THEN "exclusive" ELSE "shared"
              IN  /\ \A j \in Pending(t) : Rank[k] <= Rank[j]
                  /\ k \notin Held(r)
                  /\ ~Conflict(r, k, mode)
                  /\ shared' = [shared EXCEPT ![r] = IF mode = "shared" THEN @ \union {k} ELSE @]
                  /\ exclusive' = [exclusive EXCEPT ![r] = IF mode = "exclusive" THEN @ \union {k} ELSE @]
                  /\ acquired' = [acquired EXCEPT ![t] = @ \union {k}]
        /\ UNCHANGED <<status, active, closing, claimed, cleaned, stateDir,
                       mutex, pc, on, want, depth, writing>>

\* The next key is held in shared mode but wanted exclusively, the kernel
\* refuses it, or its lock file cannot be opened safely (any OSError).
LockRefused(t) ==
    /\ pc[t] = "lock"
    /\ Pending(t) # {}
    /\ Fail(t)

LockDone(t) ==
    LET g == on[t]
    IN  /\ pc[t] = "lock"
        /\ Pending(t) = {}
        /\ claimed' = [claimed EXCEPT ![g] = @ \union want[t]]
        /\ status' = [status EXCEPT ![g] = "live"]
        /\ ReleaseMutexes(g)
        /\ UNCHANGED <<depth, writing, shared, exclusive, active, closing, cleaned, stateDir>>
        /\ Return(t, depth[t])

-----------------------------------------------------------------------------
(* operation *)

\* The parent's lease is taken first. A closed guard raises: nothing changes.
OperationParent(t, g) ==
    /\ Caller(t, g) /\ depth[t] < MaxNest
    /\ HasParent(g) /\ Free(Parent[g]) /\ ~closing[Parent[g]]
    /\ active' = [active EXCEPT ![Parent[g]] = @ + 1]
    /\ on' = [on EXCEPT ![t] = g]
    /\ Goto(t, "enter")
    /\ UNCHANGED <<status, shared, exclusive, closing, claimed, cleaned, stateDir,
                   mutex, want, acquired, depth, writing>>

OperationEnter(t) ==
    /\ pc[t] = "enter" /\ Free(on[t]) /\ ~closing[on[t]]
    /\ active' = [active EXCEPT ![on[t]] = @ + 1]
    /\ depth' = [depth EXCEPT ![t] = @ + 1]
    /\ Goto(t, "ready")
    /\ UNCHANGED <<status, shared, exclusive, closing, claimed, cleaned, stateDir,
                   mutex, on, want, acquired, writing>>

\* Variant: a refused entry leaves the child too, which it never entered.
OperationRefusedLeavesBoth(t) ==
    /\ pc[t] = "enter" /\ Free(on[t]) /\ closing[on[t]]
    /\ Goto(t, "leave")
    /\ UNCHANGED <<guardVars, mutex, on, want, acquired, depth, writing>>

\* The guard closed since the parent's lease was taken: the lease is undone.
OperationRefused(t) ==
    /\ pc[t] = "enter" /\ Free(on[t]) /\ closing[on[t]]
    /\ Goto(t, "leaveParent")
    /\ UNCHANGED <<guardVars, mutex, on, want, acquired, depth, writing>>

\* operation() of a guard without a parent.
OperationRoot(t, g) ==
    /\ Caller(t, g) /\ depth[t] < MaxNest
    /\ ~HasParent(g) /\ Free(g) /\ ~closing[g]
    /\ active' = [active EXCEPT ![g] = @ + 1]
    /\ on' = [on EXCEPT ![t] = g]
    /\ depth' = [depth EXCEPT ![t] = @ + 1]
    /\ UNCHANGED <<status, shared, exclusive, closing, claimed, cleaned, stateDir,
                   mutex, pc, want, acquired, writing>>

\* The body of an operation ends, or raises.
FinishBody(t) ==
    /\ pc[t] = "ready" /\ depth[t] > 0 /\ writing[t] = NoPath
    /\ Goto(t, "leave")
    /\ UNCHANGED <<guardVars, mutex, on, want, acquired, depth, writing>>

\* Its finally: the own lease goes before the parent's.
OperationLeave(t) ==
    /\ pc[t] = "leave"
    /\ Leave(on[t])
    /\ depth' = [depth EXCEPT ![t] = @ - 1]
    /\ IF HasParent(on[t])
       THEN Goto(t, "leaveParent") /\ UNCHANGED <<on, want, acquired>>
       ELSE Return(t, depth[t] - 1)
    /\ UNCHANGED <<status, closing, claimed, cleaned, stateDir, mutex, writing>>

OperationLeaveParent(t) ==
    /\ pc[t] = "leaveParent"
    /\ Leave(Parent[on[t]])
    /\ UNCHANGED <<depth, status, closing, claimed, cleaned, stateDir, mutex, writing>>
    /\ Return(t, depth[t])

\* The body writes in a tree add_paths granted, which (re)creates the state
\* directory it publishes through. The end of the write leaves it in place.
StartWrite(t, p) ==
    /\ pc[t] = "ready" /\ depth[t] > 0 /\ writing[t] = NoPath
    /\ p \in claimed[on[t]]
    /\ writing' = [writing EXCEPT ![t] = p]
    /\ stateDir' = [stateDir EXCEPT ![on[t]] = TRUE]
    /\ UNCHANGED <<status, shared, exclusive, active, closing, claimed, cleaned,
                   mutex, pc, on, want, acquired, depth>>

StopWrite(t) ==
    /\ writing[t] # NoPath
    /\ writing' = [writing EXCEPT ![t] = NoPath]
    /\ UNCHANGED <<guardVars, mutex, pc, on, want, acquired, depth>>

-----------------------------------------------------------------------------
(* close, and the clean-up of an idle owner's state *)

\* Variant: a second close() goes through the clean-up again.
CloseAgain(t, g) ==
    /\ \/ Caller(t, g)
       \/ pc[t] = "initFailed" /\ on[t] = g
    /\ Free(g)
    /\ closing' = [closing EXCEPT ![g] = TRUE]
    /\ active' = [active EXCEPT ![g] = @ + 1]
    /\ on' = [on EXCEPT ![t] = g]
    /\ Goto(t, IF HasParent(g) THEN "closeParent"
               ELSE IF status[g] = "init" THEN "closeLeave" ELSE "cleanup")
    /\ UNCHANGED <<status, shared, exclusive, claimed, cleaned, stateDir,
                   mutex, want, acquired, depth, writing>>

\* The first close sets _closing and takes a lease; a second one returns at
\* once, which changes nothing. A failed __init__ closes without a clean-up.
Close(t, g) ==
    /\ \/ Caller(t, g)
       \/ pc[t] = "initFailed" /\ on[t] = g
    /\ Free(g) /\ ~closing[g]
    /\ closing' = [closing EXCEPT ![g] = TRUE]
    /\ active' = [active EXCEPT ![g] = @ + 1]
    /\ on' = [on EXCEPT ![t] = g]
    /\ Goto(t, IF HasParent(g) THEN "closeParent"
               ELSE IF status[g] = "init" THEN "closeLeave" ELSE "cleanup")
    /\ UNCHANGED <<status, shared, exclusive, claimed, cleaned, stateDir,
                   mutex, want, acquired, depth, writing>>

\* A parent that is already closing refuses the lease: no clean-up at all.
CloseParent(t) ==
    LET r == Parent[on[t]]
    IN  /\ pc[t] = "closeParent" /\ Free(r)
        /\ IF closing[r]
           THEN active' = active /\ Goto(t, "closeLeave")
           ELSE /\ active' = [active EXCEPT ![r] = @ + 1]
                /\ Goto(t, IF status[on[t]] = "init" THEN "closeLeaveParent" ELSE "cleanup")
        /\ UNCHANGED <<status, shared, exclusive, closing, claimed, cleaned, stateDir,
                       mutex, on, want, acquired, depth, writing>>

AfterCleanup(g) == IF HasParent(g) THEN "closeLeaveParent" ELSE "closeLeave"

\* cleanup(): only a mirror that deletes tries to remove its empty state.
Cleanup(t) ==
    LET g == on[t]
    IN  /\ pc[t] = "cleanup"
        /\ cleaned' = [cleaned EXCEPT ![g] = @ + 1]
        /\ \/ Goto(t, AfterCleanup(g))
           \/ Goto(t, IF HasParent(g) THEN "idleParent" ELSE "idleOwn")
        /\ UNCHANGED <<status, shared, exclusive, active, closing, claimed, stateDir,
                       mutex, on, want, acquired, depth, writing>>

\* cleanup_empty_state takes the mutexes in operation()'s order.
IdleParent(t) ==
    /\ pc[t] = "idleParent" /\ Free(Parent[on[t]])
    /\ mutex' = [mutex EXCEPT ![Parent[on[t]]] = t]
    /\ Goto(t, "idleOwn")
    /\ UNCHANGED <<guardVars, on, want, acquired, depth, writing>>

IdleOwn(t) ==
    /\ pc[t] = "idleOwn" /\ Free(on[t])
    /\ mutex' = [mutex EXCEPT ![on[t]] = t]
    /\ Goto(t, "idleCheck")
    /\ UNCHANGED <<guardVars, on, want, acquired, depth, writing>>

\* Variant: idle means closing, whoever still holds a lease.
IdleOnceClosing(g) == closing[g]

Idle(g) == closing[g] /\ active[g] = 1 /\ active[Root(g)] = 1

\* Idle, and nothing but its own markers in the state: it is removed. What
\* else the directory holds (or an error) may keep it.
RemoveState(t) ==
    LET g == on[t]
    IN  /\ pc[t] = "idleCheck"
        /\ stateDir' \in {stateDir} \union
              (IF Idle(g) THEN {[stateDir EXCEPT ![g] = FALSE]} ELSE {})
        /\ ReleaseMutexes(g)
        /\ Goto(t, AfterCleanup(g))
        /\ UNCHANGED <<status, shared, exclusive, active, closing, claimed, cleaned,
                       on, want, acquired, depth, writing>>

CloseLeaveParent(t) ==
    /\ pc[t] = "closeLeaveParent"
    /\ Leave(Parent[on[t]])
    /\ Goto(t, "closeLeave")
    /\ UNCHANGED <<status, closing, claimed, cleaned, stateDir, mutex,
                   on, want, acquired, depth, writing>>

CloseLeave(t) ==
    LET g == on[t]
    IN  /\ pc[t] = "closeLeave"
        /\ Leave(g)
        /\ status' = [status EXCEPT ![g] = IF @ = "init" THEN "dead" ELSE @]
        /\ UNCHANGED <<closing, claimed, cleaned, stateDir, mutex, depth, writing>>
        /\ Return(t, depth[t])

-----------------------------------------------------------------------------
\* The process is killed: the kernel closes its lock files. A new process may
\* take its place with new guards; what is on disk stays.
Crash(p) ==
    LET gone(g) == GuardProc[g] = p
        dead(t) == ThreadProc[t] = p
    IN  /\ status' = [g \in Guard |-> IF gone(g) THEN "new" ELSE status[g]]
        /\ shared' = [g \in Guard |-> IF gone(g) THEN {} ELSE shared[g]]
        /\ exclusive' = [g \in Guard |-> IF gone(g) THEN {} ELSE exclusive[g]]
        /\ active' = [g \in Guard |-> IF gone(g) THEN 0 ELSE active[g]]
        /\ closing' = [g \in Guard |-> IF gone(g) THEN FALSE ELSE closing[g]]
        /\ mutex' = [g \in Guard |-> IF gone(g) THEN NoThread ELSE mutex[g]]
        /\ claimed' = [g \in Guard |-> IF gone(g) THEN {} ELSE claimed[g]]
        /\ cleaned' = [g \in Guard |-> IF gone(g) THEN 0 ELSE cleaned[g]]
        /\ pc' = [t \in Thread |-> IF dead(t) THEN "ready" ELSE pc[t]]
        /\ on' = [t \in Thread |-> IF dead(t) THEN NoGuard ELSE on[t]]
        /\ want' = [t \in Thread |-> IF dead(t) THEN {} ELSE want[t]]
        /\ acquired' = [t \in Thread |-> IF dead(t) THEN {} ELSE acquired[t]]
        /\ depth' = [t \in Thread |-> IF dead(t) THEN 0 ELSE depth[t]]
        /\ writing' = [t \in Thread |-> IF dead(t) THEN NoPath ELSE writing[t]]
        /\ UNCHANGED stateDir

\* What a thread does on its own once it is inside a call.
Continue(t) ==
    \/ AddPathsParent(t) \/ AddPathsRefused(t)
    \/ LockKey(t) \/ LockRefused(t) \/ LockDone(t)
    \/ OperationEnter(t) \/ OperationRefused(t)
    \/ OperationLeave(t) \/ OperationLeaveParent(t)
    \/ CloseParent(t) \/ Cleanup(t) \/ IdleParent(t) \/ IdleOwn(t)
    \/ RemoveState(t) \/ CloseLeaveParent(t) \/ CloseLeave(t)
    \/ (pc[t] = "initFailed" /\ Close(t, on[t]))

\* What the program above this module may ask for.
Call(t) ==
    \/ \E g \in Guard, paths \in Requests : Construct(t, g, paths) \/ AddPaths(t, g, paths)
    \/ \E g \in Guard : OperationParent(t, g) \/ OperationRoot(t, g)
    \/ \E g \in Guard : pc[t] = "ready" /\ Close(t, g)
    \/ \E p \in Path : StartWrite(t, p)

Next ==
    \/ \E t \in Thread : Continue(t) \/ StopWrite(t) \/ FinishBody(t) \/ Call(t)
    \/ \E p \in Process : Crash(p)

Spec == Init /\ [][Next]_vars

\* A thread inside a call goes on, a body ends, and a thread waiting for a
\* mutex that is free again and again gets it. Nobody owes a call or a crash.
Fairness ==
    \A t \in Thread : SF_vars(Continue(t)) /\ SF_vars(StopWrite(t)) /\ SF_vars(FinishBody(t))

FairSpec == Spec /\ Fairness

-----------------------------------------------------------------------------
(* Correctness *)

Labels == {"ready", "addParent", "lock", "initFailed", "enter", "leave", "leaveParent",
           "closeParent", "cleanup", "idleParent", "idleOwn", "idleCheck",
           "closeLeaveParent", "closeLeave"}

\* Every variable stays in its type.
TypeOK ==
    /\ status \in [Guard -> {"new", "init", "live", "dead"}]
    /\ shared \in [Guard -> SUBSET Path]
    /\ exclusive \in [Guard -> SUBSET Path]
    /\ active \in [Guard -> Nat]
    /\ closing \in [Guard -> BOOLEAN]
    /\ mutex \in [Guard -> Thread \union {NoThread}]
    /\ pc \in [Thread -> Labels]
    /\ on \in [Thread -> Guard \union {NoGuard}]
    /\ want \in [Thread -> SUBSET Path]
    /\ acquired \in [Thread -> SUBSET Path]
    /\ depth \in [Thread -> 0..MaxNest]
    /\ writing \in [Thread -> Path \union {NoPath}]
    /\ claimed \in [Guard -> SUBSET Path]
    /\ cleaned \in [Guard -> Nat]
    /\ stateDir \in [Guard -> BOOLEAN]

Overlap(p, q) == p = q \/ p \in Above[q] \/ q \in Above[p]

\* Shared ancestor locks plus exclusive resource locks keep the trees of two
\* guards apart: add_paths never ends up with one tree inside another's, in
\* whatever order two processes take the lock files of both.
ExclusiveTrees ==
    \A g, h \in Guard : g # h =>
        \A p \in exclusive[g], q \in exclusive[h] : ~Overlap(p, q)

\* A thread that writes, also one that a bounded close left running, has its
\* tree locked by its run: operation() leases keep the handles until the last
\* _leave, the parent's too, and rollbacks never give back older keys.
WriterOwnsTree ==
    \A t \in Thread : writing[t] # NoPath => writing[t] \in exclusive[Root(on[t])]

\* The clean-up of close() runs once however many threads close, and never
\* after the guard's trees may belong to another process.
CleanupOnceAndOwned ==
    /\ \A g \in Guard : cleaned[g] <= 1
    /\ \A t \in Thread : pc[t] \in {"cleanup", "idleParent", "idleOwn", "idleCheck"} =>
          claimed[on[t]] \subseteq exclusive[Root(on[t])]

\* cleanup_empty_state never removes the state directory under an operation
\* that has made sure of it and is about to put a file there.
WriterKeepsState ==
    \A t \in Thread : writing[t] # NoPath => stateDir[on[t]]

\* No call waits for ever: add_paths (child mutex, then parent's) and
\* cleanup_empty_state (parent's, then child's) never block each other.
CallsReturn ==
    \A t \in Thread : pc[t] # "ready" ~> pc[t] = "ready"

\* Once a guard is closed and the bodies still running end, its lock files
\* are free for the next run.
ClosedGuardReleases ==
    \A g \in Guard : closing[g] ~> Held(g) = {}

-----------------------------------------------------------------------------
(* The promise these steps implement *)

Roots == {g \in Guard : ~HasParent(g)}

Promise == INSTANCE TreeOwnership WITH
    Owner <- Roots,
    Worker <- Thread,
    owned <- [g \in Roots |-> exclusive[g]],
    writes <- [t \in Thread |-> IF writing[t] = NoPath THEN NoPath
                                 ELSE <<Root(on[t]), writing[t]>>]

\* Every step reserves, gives back, writes or dies as TreeOwnership allows:
\* an add_paths interrupted half-way, a roll-back and the last _leave of a
\* closed guard included.
ImplementsTreeOwnership == Promise!Spec
=============================================================================
