---------------------------- MODULE AsyncSession ----------------------------
(***************************************************************************)
(* The life of what AsyncHeads works with: the client of an                *)
(* AsyncConnectionManager, the tasks of an AsyncTaskManager and the event  *)
(* loop of asyncio.run, made anew for every run of sync(). A signal stops  *)
(* the main thread anywhere in it; a clean-up thread then shuts both       *)
(* managers down in loops of its own, and after it, or after 30 seconds,   *)
(* SystemExit unwinds the main thread.                                     *)
(*                                                                         *)
(* A lock of the task manager belongs to one loop; another open loop that  *)
(* asks for it gets RuntimeError (async_primitives.py:25-37). Its sections *)
(* contain no await, so each is one step, for a signal too, and a finished *)
(* task's removals are scheduled before whoever waits for it is woken.     *)
(***************************************************************************)
EXTENDS Naturals, FiniteSets

CONSTANT Task       \* the checks of a batch

\* Assumed of the constants wherever the module is instantiated.
SessionAssumption == IsFiniteSet(Task)

VARIABLES
    step,           \* "idle", "made", "checks", "leaving", "unwinding" or "left"
    frozen,         \* the main thread is in the signal handler
    cleaner,        \* the clean-up thread: "none", "tasks", "client" or "done"
    task,           \* task[t]: "none", "running" or "ended"
    removals,       \* removals[t]: coroutines scheduled to forget t
    tracked, created, completed,    \* AsyncTaskManager: tasks and its counters
    shut,           \* AsyncTaskManager._shutdown
    lock,           \* the loop its lock belongs to: "none", "checks" or "cleanup"
    closed,         \* AsyncConnectionManager._closed
    held,           \* _client is not None
    client          \* the client last built: "none", "open" or "closed"

taskVars == <<task, removals, tracked, created, completed, shut, lock>>
clientVars == <<closed, held, client>>
vars == <<step, frozen, cleaner, taskVars, clientVars>>

Untracked == [t \in Task |-> "none"]
NoRemoval == [t \in Task |-> 0]

\* The managers are built with the mirror.
Init ==
    /\ step = "idle" /\ frozen = FALSE /\ cleaner = "none"
    /\ task = Untracked /\ removals = NoRemoval
    /\ tracked = {} /\ created = 0 /\ completed = 0 /\ shut = FALSE /\ lock = "none"
    /\ closed = FALSE /\ held = FALSE /\ client = "none"

LoopOpen == step \in {"checks", "leaving", "unwinding"}
Running == {t \in Task : task[t] = "running"}

-----------------------------------------------------------------------------
(* The main thread *)

\* sync() replaces the managers, also those no check used. No loop runs then, so
\* that an old client is not closed here.
Recreate ==
    /\ step \in {"idle", "made"} /\ ~ frozen
    /\ step' = "made"
    /\ task' = Untracked /\ removals' = NoRemoval
    /\ tracked' = {} /\ created' = 0 /\ completed' = 0 /\ shut' = FALSE /\ lock' = "none"
    /\ closed' = FALSE /\ held' = FALSE /\ UNCHANGED <<client, frozen, cleaner>>

\* asyncio.run opens the loop, the manager builds its client.
Enter ==
    /\ step = "made" /\ ~ frozen
    /\ step' = "checks"
    /\ held' = TRUE /\ client' = "open"
    /\ UNCHANGED <<frozen, cleaner, taskVars, closed>>

CreateTask(t) ==
    /\ step = "checks" /\ ~ frozen /\ task[t] = "none"
    /\ task' = [task EXCEPT ![t] = "running"]
    /\ lock' = "checks"
    /\ tracked' = tracked \union {t} /\ created' = created + 1
    /\ UNCHANGED <<step, frozen, cleaner, removals, completed, shut, clientVars>>

\* The callback of a task: two coroutines will forget it, during a shutdown one.
TaskDone(t) ==
    /\ LoopOpen /\ ~ frozen /\ task[t] = "running"
    /\ task' = [task EXCEPT ![t] = "ended"]
    /\ removals' = [removals EXCEPT ![t] = IF shut THEN 1 ELSE 2]
    /\ UNCHANGED <<step, frozen, cleaner, tracked, created, completed, shut, lock, clientVars>>

\* Variant: each of the two counts the task.
RemoveTaskTwice(t) ==
    /\ LoopOpen /\ ~ frozen /\ removals[t] > 0
    /\ removals' = [removals EXCEPT ![t] = @ - 1]
    /\ tracked' = tracked \ {t} /\ completed' = completed + 1
    /\ UNCHANGED <<step, frozen, cleaner, task, created, shut, lock, clientVars>>

\* The first of the two finds the task, and counts it.
RemoveTask(t) ==
    /\ LoopOpen /\ ~ frozen /\ removals[t] > 0
    /\ removals' = [removals EXCEPT ![t] = @ - 1]
    /\ IF t \in tracked THEN tracked' = tracked \ {t} /\ completed' = completed + 1
                        ELSE UNCHANGED <<tracked, completed>>
    /\ UNCHANGED <<step, frozen, cleaner, task, created, shut, lock, clientVars>>

\* _closed is set and the client closed; aclose() is awaited.
Closes == closed' = TRUE /\ client' = (IF held THEN "closed" ELSE client)

\* Variant: the checks are left while the tasks of a batch that timed out run.
LeaveEarly ==
    /\ step = "checks" /\ ~ frozen
    /\ step' = "leaving"
    /\ Closes
    /\ UNCHANGED <<frozen, cleaner, taskVars, held>>

\* gather() waits for every task, those it cancelled after a timeout as well.
Leave ==
    /\ step = "checks" /\ ~ frozen
    /\ Running = {} /\ \A t \in Task : removals[t] = 0
    /\ step' = "leaving"
    /\ Closes
    /\ UNCHANGED <<frozen, cleaner, taskVars, held>>

\* The manager's exit ends, and with it the loop; the mirror may sync again.
Left ==
    /\ step = "leaving" /\ ~ frozen
    /\ step' = "idle"
    /\ held' = FALSE
    /\ UNCHANGED <<frozen, cleaner, taskVars, closed, client>>

-----------------------------------------------------------------------------
(* A signal *)

Signal ==
    /\ cleaner = "none" /\ step # "left"
    /\ frozen' = TRUE /\ cleaner' = "tasks"
    /\ UNCHANGED <<step, taskVars, clientVars>>

\* The clean-up is done or 30 seconds are over.
HandlerExits ==
    /\ frozen
    /\ frozen' = FALSE
    /\ step' = (IF LoopOpen THEN "unwinding" ELSE "left")
    /\ UNCHANGED <<cleaner, taskVars, clientVars>>

\* SystemExit leaves the "async with" while tasks may still run.
UnwindExit ==
    /\ step = "unwinding" /\ (held \/ ~ closed)
    /\ Closes /\ held' = FALSE
    /\ UNCHANGED <<step, frozen, cleaner, taskVars>>

\* asyncio.run waits for the tasks it cancelled, and closes the loop; removals
\* that were scheduled last are lost.
UnwindLoop ==
    /\ step = "unwinding" /\ closed /\ ~ held /\ Running = {}
    /\ step' = "left"
    /\ removals' = NoRemoval
    /\ UNCHANGED <<frozen, cleaner, task, tracked, created, completed, shut, lock, clientVars>>

-----------------------------------------------------------------------------
(* The clean-up thread *)

\* The lock belongs to the main thread's loop, and that is open.
LockElsewhere == lock = "checks" /\ LoopOpen

\* What shutdown() does when it gets the lock: the tasks it finds belong to a
\* closed loop and are forgotten, and so are their numbers.
Forgotten ==
    /\ lock' = "cleanup" /\ tracked' = {}
    /\ created' = (IF tracked = {} THEN created ELSE 0)
    /\ completed' = (IF tracked = {} THEN completed ELSE 0)

\* The flag is set first. Without the lock shutdown() fails, and then
\* force_shutdown().
ShutdownTasks ==
    /\ cleaner = "tasks"
    /\ cleaner' = "client" /\ shut' = TRUE
    /\ IF LockElsewhere THEN UNCHANGED <<tracked, created, completed, lock>> ELSE Forgotten
    /\ UNCHANGED <<step, frozen, task, removals, clientVars>>

\* A client that somebody holds is closed in a loop of the clean-up's own, for
\* at most 10 seconds; after them the manager goes on naming it.
CloseClient ==
    /\ cleaner = "client"
    /\ cleaner' = "done"
    /\ IF held THEN Closes /\ held' \in BOOLEAN ELSE UNCHANGED clientVars
    /\ UNCHANGED <<step, frozen, taskVars>>

-----------------------------------------------------------------------------
Checks ==
    \/ Recreate \/ Enter \/ Leave \/ Left
    \/ \E t \in Task : CreateTask(t) \/ TaskDone(t) \/ RemoveTask(t)

Next ==
    \/ Checks
    \/ Signal \/ HandlerExits \/ UnwindExit \/ UnwindLoop
    \/ ShutdownTasks \/ CloseClient

Spec == Init /\ [][Next]_vars

-----------------------------------------------------------------------------
\* Every variable has its type.
TypeOK ==
    /\ step \in {"idle", "made", "checks", "leaving", "unwinding", "left"}
    /\ frozen \in BOOLEAN /\ cleaner \in {"none", "tasks", "client", "done"}
    /\ task \in [Task -> {"none", "running", "ended"}]
    /\ removals \in [Task -> 0 .. 2] /\ tracked \subseteq Task
    /\ created \in 0 .. Cardinality(Task) /\ completed \in 0 .. created
    /\ shut \in BOOLEAN /\ lock \in {"none", "checks", "cleanup"}
    /\ closed \in BOOLEAN /\ held \in BOOLEAN /\ client \in {"none", "open", "closed"}

\* As long as no signal came a check never runs without its client, not even
\* one that a timeout cancelled (compare.py:647-660, async_connection.py:148).
ClientOutlivesChecks == cleaner = "none" /\ Running # {} => client = "open" /\ ~ closed

\* Whatever task the manager tracks runs, or will be forgotten in the same
\* loop: none is left for a later loop, which could not wait for it, and none
\* is counted twice (async_connection.py:1145-1179).
TasksForgotten ==
    cleaner = "none" =>
        /\ tracked = {t \in Task : task[t] = "running" \/ (t \in tracked /\ removals[t] > 0)}
        /\ created - completed = Cardinality(tracked)

\* Between two runs, and after an interrupted one whose clean-up ended, no
\* client is open, whoever closed it (report.py:93-105, _base.py:888-916).
ClosedInTheEnd ==
    /\ step = "idle" /\ cleaner = "none" => client # "open" /\ ~ held
    /\ step = "left" /\ cleaner = "done" => client # "open"
=============================================================================
