---------------------------- MODULE ThreadBudget ----------------------------
(***************************************************************************)
(* concurrency.py: UnifiedConcurrencyManager. One counter of active        *)
(* threads, taken in two ways: a request takes a slot or fails at once,    *)
(* and a streamed answer keeps it until its body is closed (_LeasedStream  *)
(* of connection.py); a submission to the shared pool waits for a slot,    *)
(* which the future gives back when it is done. shutdown() wakes whoever   *)
(* waits and abandons workers that do not end.                             *)
(***************************************************************************)
EXTENDS Naturals, FiniteSets

CONSTANTS
    Requester, Submitter,   \* threads that make requests, and that submit tasks
    Limit,                  \* max_total_threads
    Workers                 \* threads of the shared pool

\* Assumed of the constants wherever the module is instantiated.
BudgetAssumption ==
    /\ IsFiniteSet(Requester) /\ IsFiniteSet(Submitter)
    /\ Limit \in Nat \ {0} /\ Workers \in Nat \ {0}

VARIABLES
    active,         \* active_threads
    shut,           \* _shutdown
    pool,           \* "open", "closing" or "gone"
    request,        \* request[r]: "none", "held", "streaming" or "closed"
    submit,         \* submit[s]: "none", "trying", "waiting", "slot", "given" or "raised"
    expired,        \* submitters whose deadline is over
    task            \* task[s]: "none", "queued" or "running"

vars == <<active, shut, pool, request, submit, expired, task>>
poolVars == <<shut, pool, expired, task>>

Init ==
    /\ active = 0 /\ shut = FALSE /\ pool = "open" /\ expired = {}
    /\ request = [r \in Requester |-> "none"]
    /\ submit = [s \in Submitter |-> "none"] /\ task = [s \in Submitter |-> "none"]

Waiting == {s \in Submitter : submit[s] = "waiting"}

\* A notified submitter comes back to its loop: "trying".
Woken(next, S) == [s \in Submitter |-> IF s \in S THEN "trying" ELSE next[s]]
NotifyAll(next) == submit' = Woken(next, Waiting)
NotifyOne(next) ==
    IF Waiting = {} THEN submit' = next ELSE \E s \in Waiting : submit' = Woken(next, {s})

-----------------------------------------------------------------------------
(* Requests *)

Acquire(r) ==
    /\ request[r] \in {"none", "closed"} /\ active < Limit
    /\ active' = active + 1 /\ request' = [request EXCEPT ![r] = "held"]
    /\ UNCHANGED <<submit, poolVars>>

\* A body that is streamed takes the slot over.
Stream(r) ==
    /\ request[r] = "held" /\ request' = [request EXCEPT ![r] = "streaming"]
    /\ UNCHANGED <<active, submit, poolVars>>

\* Answered or failed: request() gives the slot back.
Return(r) ==
    /\ request[r] = "held" /\ request' = [request EXCEPT ![r] = "none"]
    /\ active' = active - 1 /\ NotifyAll(submit)
    /\ UNCHANGED poolVars

\* Whoever reads the body closes it, at times more than once.
Close(r) ==
    /\ request[r] = "streaming"
    /\ request' = [request EXCEPT ![r] = "closed"]
    /\ active' = active - 1 /\ NotifyAll(submit)
    /\ UNCHANGED poolVars

-----------------------------------------------------------------------------
(* Submissions to the shared pool *)

Submit(s) ==
    /\ submit[s] \in {"none", "given", "raised"} /\ task[s] = "none"
    /\ submit' = [submit EXCEPT ![s] = IF pool # "open" \/ shut THEN "raised" ELSE "trying"]
    /\ expired' = expired \ {s}
    /\ UNCHANGED <<active, shut, pool, request, task>>

Try(s) ==
    /\ submit[s] = "trying"
    /\ \/ /\ shut \/ (active >= Limit /\ s \in expired)
          /\ submit' = [submit EXCEPT ![s] = "raised"] /\ UNCHANGED active
       \/ /\ ~shut /\ active < Limit
          /\ active' = active + 1 /\ submit' = [submit EXCEPT ![s] = "slot"]
       \/ /\ ~shut /\ active >= Limit /\ s \notin expired
          /\ submit' = [submit EXCEPT ![s] = "waiting"] /\ UNCHANGED active
    /\ UNCHANGED <<request, poolVars>>

\* A wait lasts 5 s at most, all waits of a submission 30 s.
Poll(s) ==
    /\ submit[s] = "waiting" /\ submit' = [submit EXCEPT ![s] = "trying"]
    /\ expired' \in {expired, expired \union {s}}
    /\ UNCHANGED <<active, shut, pool, request, task>>

\* pool.submit() raises after the pool was shut down, and the slot goes back.
Post(s) ==
    /\ submit[s] = "slot"
    /\ IF pool = "open"
       THEN /\ submit' = [submit EXCEPT ![s] = "given"]
            /\ task' = [task EXCEPT ![s] = "queued"] /\ UNCHANGED active
       ELSE /\ active' = active - 1 /\ NotifyOne([submit EXCEPT ![s] = "raised"])
            /\ UNCHANGED task
    /\ UNCHANGED <<shut, pool, request, expired>>

Begin(s) ==
    /\ task[s] = "queued" /\ Cardinality({t \in Submitter : task[t] = "running"}) < Workers
    /\ task' = [task EXCEPT ![s] = "running"]
    /\ UNCHANGED <<active, shut, pool, request, submit, expired>>

\* Variant: the callback counts, and wakes nobody.
DoneSilently(s) ==
    /\ \/ task[s] = "running"
       \/ task[s] = "queued" /\ pool # "open"
    /\ task' = [task EXCEPT ![s] = "none"]
    /\ active' = active - 1 /\ UNCHANGED <<shut, pool, request, submit, expired>>

\* _task_done_callback, of a task that ended or was cancelled by the shutdown.
Done(s) ==
    /\ \/ task[s] = "running"
       \/ task[s] = "queued" /\ pool # "open"
    /\ task' = [task EXCEPT ![s] = "none"]
    /\ active' = active - 1 /\ NotifyOne(submit)
    /\ UNCHANGED <<shut, pool, request, expired>>

-----------------------------------------------------------------------------
(* shutdown *)

Shutdown ==
    /\ ~shut /\ shut' = TRUE /\ NotifyAll(submit)
    /\ UNCHANGED <<active, pool, request, expired, task>>

\* bounded_executor_shutdown: cancels what is queued, and waits 10 s for the rest.
ClosePool ==
    /\ shut /\ pool = "open" /\ pool' = "closing"
    /\ UNCHANGED <<active, shut, request, submit, expired, task>>

PoolGone ==
    /\ pool = "closing" /\ pool' = "gone"
    /\ UNCHANGED <<active, shut, request, submit, expired, task>>

Next ==
    \/ \E r \in Requester : Acquire(r) \/ Stream(r) \/ Return(r) \/ Close(r)
    \/ \E s \in Submitter : Submit(s) \/ Try(s) \/ Poll(s) \/ Post(s) \/ Begin(s) \/ Done(s)
    \/ Shutdown \/ ClosePool \/ PoolGone

\* Threads that run go on; the 5 s of a wait pass. Tasks and requests need not
\* end, and nobody need shut down.
Spec ==
    /\ Init /\ [][Next]_vars
    /\ \A s \in Submitter : WF_vars(Try(s)) /\ WF_vars(Poll(s)) /\ WF_vars(Post(s))

-----------------------------------------------------------------------------
(* Properties *)

TypeOK ==
    /\ active \in 0 .. Limit
    /\ request \in [Requester -> {"none", "held", "streaming", "closed"}]
    /\ submit \in [Submitter -> {"none", "trying", "waiting", "slot", "given", "raised"}]
    /\ task \in [Submitter -> {"none", "queued", "running"}]
    /\ expired \subseteq Submitter /\ (pool # "open" => shut)

\* The counter is the number of slots somebody holds (concurrency.py:156-170,
\* 217, 230, 243; connection.py:53): a slot is given back once, whether a body
\* is closed twice, a submission is refused late, or a task is cancelled.
SlotsConserved ==
    active = Cardinality({r \in Requester : request[r] \in {"held", "streaming"}})
           + Cardinality({s \in Submitter : submit[s] = "slot"})
           + Cardinality({s \in Submitter : task[s] # "none"})

\* notify() wakes one waiter (concurrency.py:231, 248): while slots are free,
\* as many submitters are on their way to them as there are, or nobody is
\* left asleep.
FreeSlotOffered ==
    Waiting # {} /\ ~shut =>
        Limit - active <= Cardinality({s \in Submitter : submit[s] = "trying"})
=============================================================================
