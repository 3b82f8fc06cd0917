----------------------------- MODULE AsyncHeads -----------------------------
(***************************************************************************)
(* CompareMixin._check_files_async: metadata checks as tasks of one event  *)
(* loop, in batches, each with a HEAD of AdaptiveAsyncManager or of        *)
(* AsyncConnectionManager and with a synchronous check in an executor when *)
(* the HEAD gives no answer. Deadlines cut a check off; a check running in *)
(* the executor cannot be cut off and answers later.                       *)
(*                                                                         *)
(* Every section between two awaits is one step: the semaphore's condition *)
(* and the locks of the manager are never held over an await.              *)
(* The domain's breaker is a value of the module CircuitBreaker. What an   *)
(* answer says of a file is the freshness policy's and left open. The cap  *)
(* of 30 s on a head() never ends one: its caller waits 15 s.              *)
(***************************************************************************)
EXTENDS CircuitBreaker, FiniteSets

CONSTANTS
    Files,          \* the number of files to check
    BatchSize,      \* ASYNC_METADATA_BATCH_SIZE
    Absent,         \* files with no local copy
    Unasked,        \* local files --missing-files does not check
    Adaptive,       \* config.adaptive_async
    Deadlines,      \* FALSE under verify_content, which sets none
    Retries,        \* max_retries
    StartAt,        \* adaptive_start_concurrency, no more than MaxAt
    MaxAt,          \* min(async_workers, ADAPTIVE_MAX_CONCURRENCY)
    Threads,        \* workers of _meta_check_executor
    Outages         \* bound of a run: failures of requests

File == 1..Files

\* Assumed of the constants wherever the module is instantiated.
HeadsAssumption ==
    /\ Files \in Nat /\ BatchSize \in Nat \ {0} /\ Retries \in Nat /\ Outages \in Nat
    /\ MaxAt \in Nat \ {0} /\ StartAt \in 1..MaxAt /\ Threads \in Nat \ {0}
    /\ Absent \subseteq File /\ Unasked \subseteq File
    /\ Adaptive \in BOOLEAN /\ Deadlines \in BOOLEAN

VARIABLES
    pc,             \* "enter", "profile", "batch", "sync" or "done"
    first,          \* the first file of the batch, or of those left to sync
    stage,          \* of each file's check
    attempt,        \* of its HEAD
    queued,         \* how often each file is in to_download
    checks,         \* RunReport.checks: the outcome recorded for a file
    vouched,        \* files an answer, or the policy, said to be current
    late,           \* checks of a file the executor still runs, cut off
    conc,           \* _current_concurrency
    pending,        \* _pending_concurrency, 0 for None
    cooled,         \* the cooldown since the last change is over
    fellAt,         \* the batch in which _fallback_to_sync was set, or 0
    limit,          \* of the semaphore
    breaker,
    outages

scaleVars == <<conc, pending, cooled, fellAt>>
checkVars == <<stage, attempt, queued, checks, vouched, late>>
vars == <<pc, first, checkVars, scaleVars, limit, breaker, outages>>

Outcomes == {"current", "changed", "uncertain"}

\* "resting" is a back-off within the semaphore, "backoff" one outside it.
Holding == {"flying", "resting"}
InHead == {"pacing", "waiting"} \union Holding \union {"backoff"}
InExecutor == {"checking", "probing"}
Ended == {"current", "fetch"}

Holders == {f \in File : stage[f] \in Holding}
Batch == {f \in File : first <= f /\ f < first + BatchSize}
Left == {f \in File : first <= f}

Fresh == [f \in File |-> "none"]

Init ==
    /\ pc = "enter" /\ first = 1
    /\ stage = Fresh /\ attempt = [f \in File |-> 0]
    /\ queued = [f \in File |-> 0] /\ checks = Fresh
    /\ vouched = {} /\ late = [f \in File |-> 0]
    \* _get_profile starts a throttled domain lower than StartAt.
    /\ conc \in 1..StartAt /\ pending = 0 /\ cooled \in BOOLEAN /\ fellAt = 0
    /\ limit = IF Adaptive THEN conc ELSE MaxAt
    /\ breaker = Closed /\ outages = 0

AtStage(f, from, to) == stage[f] = from /\ stage' = [stage EXCEPT ![f] = to]

Record(f, outcome) == checks' = [checks EXCEPT ![f] = outcome]

Vouch(f, outcome) ==
    vouched' = IF outcome = "current" THEN vouched \union {f} ELSE vouched

-----------------------------------------------------------------------------
(* AdaptiveAsyncManager.record_result *)

\* ServerProfile: one failure in the window is two per cent, so that the
\* rate is not low right after one.
RatesAfter(success) ==
    IF success THEN {"low", "some", "moderate", "high"} ELSE {"some", "moderate", "high"}

\* One change of concurrency in a cooldown, applied after the batch.
Rescale(rate, rtt) ==
    LET Set(n) == pending' = n /\ cooled' = FALSE
    IN /\ UNCHANGED <<conc, fellAt>>
       /\ \/ cooled /\ rate = "low" /\ rtt = "fast" /\ conc < MaxAt
             /\ Set(IF conc + 2 > MaxAt THEN MaxAt ELSE conc + 2)
          \/ cooled /\ rate \in {"moderate", "high"} /\ conc > StartAt
             /\ Set(IF conc \div 2 > StartAt THEN conc \div 2 ELSE StartAt)
          \/ cooled /\ rate \in {"low", "some"} /\ rtt = "slow" /\ conc > StartAt
             /\ Set(conc - 1)
          \/ /\ \/ ~cooled
                \/ rate = "low" /\ rtt = "fast" /\ conc >= MaxAt
                \/ rate \in {"moderate", "high"} /\ conc <= StartAt
                \/ rate \in {"low", "some"} /\ rtt = "slow" /\ conc <= StartAt
                \/ rate \in {"low", "some"} /\ rtt = "fair"
                \/ rate = "some" /\ rtt = "fast"
             /\ UNCHANGED <<pending, cooled>>

RecordResult(success) ==
    IF ~Adaptive THEN UNCHANGED scaleVars
    ELSE \E rate \in RatesAfter(success), rtt \in {"fast", "fair", "slow"} :
            IF rate = "high" /\ fellAt = 0
            THEN fellAt' = first /\ UNCHANGED <<conc, pending, cooled>>
            ELSE Rescale(rate, rtt)

Cool == ~cooled /\ cooled' = TRUE
        /\ UNCHANGED <<pc, first, checkVars, conc, pending, fellAt, limit, breaker, outages>>

RecoveryDue == breaker.state # "closed" /\ ~breaker.elapsed
               /\ breaker' = [breaker EXCEPT !.elapsed = TRUE]
               /\ UNCHANGED <<pc, first, checkVars, scaleVars, limit, outages>>

-----------------------------------------------------------------------------
(* The manager is entered, and profiles the server *)

\* Anything that escapes: sync() checks every file again, synchronously.
FallBackWhole ==
    /\ pc' = "sync" /\ first' = 1
    /\ queued' = [f \in File |-> 0] /\ stage' = Fresh
    /\ UNCHANGED <<attempt, checks, vouched, late>>

Enter ==
    /\ pc = "enter"
    /\ pc' = IF Adaptive /\ File \ Unasked # {} THEN "profile" ELSE "batch"
    /\ stage' = [f \in File |-> IF f \in Batch THEN "local" ELSE "none"]
    /\ UNCHANGED <<first, attempt, queued, checks, vouched, late, scaleVars, limit,
                   breaker, outages>>

EnterFails ==
    /\ pc = "enter" /\ outages < Outages
    /\ FallBackWhole /\ outages' = outages + 1
    /\ UNCHANGED <<scaleVars, limit, breaker>>

\* profile_server: a slow server lowers the concurrency at once.
ProfileServer ==
    /\ pc = "profile" /\ pc' = "batch"
    /\ \/ conc' = conc
       \/ conc' \in 1..(IF MaxAt \div 3 > 1 THEN MaxAt \div 3 ELSE 1)
    /\ limit' = conc'
    /\ UNCHANGED <<first, checkVars, pending, cooled, fellAt, breaker, outages>>

\* Too many errors, no client, no result in 30 s, or an exception.
ProfileFails ==
    /\ pc = "profile" /\ outages < Outages
    /\ FallBackWhole /\ outages' = outages + 1
    /\ fellAt' \in {0, 1}
    /\ UNCHANGED <<conc, pending, cooled, limit, breaker>>

-----------------------------------------------------------------------------
(* check_one *)

\* Local decisions need no answer: no file, a link, or --missing-files.
LocalOutcome(f) ==
    IF f \in Absent THEN "missing" ELSE IF f \in Unasked THEN "unchecked" ELSE "none"

CheckLocal(f) ==
    LET outcome == LocalOutcome(f)
    IN /\ pc = "batch"
       /\ AtStage(f, "local", CASE outcome = "missing" -> "fetch"
                                [] outcome = "unchecked" -> "current"
                                [] OTHER -> "asking")
       /\ checks' = IF outcome = "none" THEN checks ELSE [checks EXCEPT ![f] = outcome]
       /\ vouched' = IF outcome = "unchecked" THEN vouched \union {f} ELSE vouched
       /\ UNCHANGED <<pc, first, attempt, queued, late, scaleVars, limit, breaker, outages>>

\* head(): the breaker is asked once, whatever the number of attempts.
Ask(f) ==
    /\ AtStage(f, "asking", IF CanExecute(breaker) THEN "pacing" ELSE "submitted")
    /\ breaker' = Asked(breaker)
    /\ attempt' = [attempt EXCEPT ![f] = 0]
    /\ UNCHANGED <<pc, first, queued, checks, vouched, late, scaleVars, limit, outages>>

Pace(f) ==
    /\ AtStage(f, "pacing", "waiting")
    /\ UNCHANGED <<pc, first, attempt, queued, checks, vouched, late, scaleVars, limit,
                   breaker, outages>>

Admit(f) ==
    /\ AtStage(f, "waiting", "flying") /\ Cardinality(Holders) < limit
    /\ UNCHANGED <<pc, first, attempt, queued, checks, vouched, late, scaleVars, limit,
                   breaker, outages>>

Answered(f) ==
    /\ \E outcome \in Outcomes :
          /\ AtStage(f, "flying", IF outcome = "current" THEN "current" ELSE "fetch")
          /\ Record(f, outcome) /\ Vouch(f, outcome)
    /\ breaker' = Succeeded(breaker) /\ RecordResult(TRUE)
    /\ UNCHANGED <<pc, first, attempt, queued, late, limit, outages>>

\* An empty file without a length is probed by a GET in the executor; a
\* status other than 200 and 304 is no answer.
AnsweredInPart(f) ==
    /\ \E next \in {"probing", "submitted"} : AtStage(f, "flying", next)
    /\ breaker' = Succeeded(breaker) /\ RecordResult(TRUE)
    /\ UNCHANGED <<pc, first, attempt, queued, checks, vouched, late, limit, outages>>

\* An HTTP error: always a failure for the breaker. 429 and 5xx are tried
\* again, after a pause within the semaphore.
Refused(f) ==
    /\ outages < Outages /\ outages' = outages + 1
    /\ \E retryable \in BOOLEAN :
          AtStage(f, "flying", IF retryable /\ attempt[f] < Retries
                               THEN "resting" ELSE "submitted")
    /\ breaker' = Failed(breaker) /\ RecordResult(FALSE)
    /\ UNCHANGED <<pc, first, attempt, queued, checks, vouched, late, limit>>

\* A timeout or a connection that broke, with attempts left: no failure yet.
Broke(f) ==
    /\ outages < Outages /\ outages' = outages + 1
    /\ attempt[f] < Retries
    /\ AtStage(f, "flying", IF Adaptive THEN "resting" ELSE "backoff")
    /\ UNCHANGED <<pc, first, attempt, queued, checks, vouched, late, scaleVars, limit,
                   breaker>>

\* The last attempt broke, or an error nobody retries.
HeadFails(f) ==
    /\ outages < Outages /\ outages' = outages + 1
    /\ AtStage(f, "flying", "submitted")
    /\ breaker' = Failed(breaker) /\ RecordResult(FALSE)
    /\ UNCHANGED <<pc, first, attempt, queued, checks, vouched, late, limit>>

\* AsyncConnectionManager paces and admits every attempt anew.
Retry(f) ==
    /\ \/ AtStage(f, "resting", IF Adaptive THEN "flying" ELSE "pacing")
       \/ AtStage(f, "backoff", "pacing")
    /\ attempt' = [attempt EXCEPT ![f] = @ + 1]
    /\ UNCHANGED <<pc, first, queued, checks, vouched, late, scaleVars, limit, breaker,
                   outages>>

\* 15 s for the HEAD, the waits for pace and semaphore included. What the
\* breaker gave is not given back, and no result is recorded.
HeadDeadline(f) ==
    /\ outages < Outages /\ outages' = outages + 1
    /\ stage[f] \in InHead /\ stage' = [stage EXCEPT ![f] = "submitted"]
    /\ UNCHANGED <<pc, first, attempt, queued, checks, vouched, late, scaleVars, limit,
                   breaker>>

-----------------------------------------------------------------------------
(* sync_fallback, in the executor *)

Running == Cardinality({f \in File : stage[f] \in InExecutor})
           + Cardinality({f \in File : late[f] > 0})

StartCheck(f) ==
    /\ Running < Threads
    /\ AtStage(f, "submitted", "checking")
    /\ UNCHANGED <<pc, first, attempt, queued, checks, vouched, late, scaleVars, limit,
                   breaker, outages>>

\* file_exists_and_up_to_date always returns, and records what it returns.
CheckAnswered(f) ==
    /\ \E outcome \in Outcomes, from \in InExecutor :
          /\ AtStage(f, from, IF outcome = "current" THEN "current" ELSE "fetch")
          /\ Record(f, outcome) /\ Vouch(f, outcome)
    /\ UNCHANGED <<pc, first, attempt, queued, late, scaleVars, limit, breaker, outages>>

\* 30 s for one check: it is cut off, and its file is fetched. The outer of
\* the two equal deadlines is the first, so that check_one_with_timeout's
\* own fallback does not begin. A check in a thread goes on.
Deadline(f) ==
    /\ pc = "batch" /\ Deadlines /\ stage[f] \notin {"none"} \union Ended
    /\ stage' = [stage EXCEPT ![f] = "fetch"]
    /\ late' = [late EXCEPT ![f] = IF stage[f] = "checking" THEN 1 ELSE @]
    /\ UNCHANGED <<pc, first, attempt, queued, checks, vouched, scaleVars, limit, breaker,
                   outages>>

\* The thread's answer comes when nobody waits for it.
LateAnswer(f) ==
    /\ late[f] > 0 /\ late' = [late EXCEPT ![f] = 0]
    /\ \E outcome \in Outcomes : Record(f, outcome)
    /\ UNCHANGED <<pc, first, stage, attempt, queued, vouched, scaleVars, limit, breaker,
                   outages>>

-----------------------------------------------------------------------------
(* The batches *)

Queue(set) == queued' = [f \in File |-> IF f \in set THEN queued[f] + 1 ELSE queued[f]]

AfterBatch == IF first + BatchSize > Files THEN Files + 1 ELSE first + BatchSize

\* apply_pending_concurrency_change. A change to the same value stays pending.
ApplyPending ==
    IF Adaptive /\ pending # 0 /\ pending # conc
    THEN conc' = pending /\ limit' = pending /\ pending' = 0
    ELSE UNCHANGED <<conc, limit, pending>>

BatchEnds ==
    /\ pc = "batch" /\ \A f \in Batch : stage[f] \in Ended
    /\ ApplyPending
    /\ Queue({f \in Batch : stage[f] = "fetch"})
    /\ first' = AfterBatch
    /\ pc' = IF first' > Files THEN "done" ELSE "batch"
    /\ stage' = [f \in File |-> IF first' <= f /\ f < first' + BatchSize
                                THEN "local" ELSE stage[f]]
    /\ UNCHANGED <<attempt, checks, vouched, late, cooled, fellAt, breaker, outages>>

\* Variant: the synchronous checks begin after the batch that timed out.
BatchTimeoutSkipping ==
    /\ pc = "batch" /\ Deadlines
    /\ pc' = "sync" /\ first' = AfterBatch
    /\ stage' = [f \in File |-> IF f \in Left THEN "none" ELSE stage[f]]
    /\ late' = [f \in File |-> IF stage[f] = "checking" THEN 1 ELSE late[f]]
    /\ UNCHANGED <<attempt, queued, checks, vouched, scaleVars, limit, breaker, outages>>

\* 120 s: the loop was blocked. The batch and all later ones are examined by
\* threads; what earlier batches queued stays queued.
BatchTimeout ==
    /\ pc = "batch" /\ Deadlines
    /\ pc' = "sync" /\ first' = first
    /\ stage' = [f \in File |-> IF f \in Left THEN "none" ELSE stage[f]]
    /\ late' = [f \in File |-> IF stage[f] = "checking" THEN 1 ELSE late[f]]
    /\ UNCHANGED <<attempt, queued, checks, vouched, scaleVars, limit, breaker, outages>>

-----------------------------------------------------------------------------
(* _check_files_sync *)

SyncCheck(f) ==
    /\ pc = "sync" /\ f \in Left /\ stage[f] = "none"
    /\ \E outcome \in IF LocalOutcome(f) = "none" THEN Outcomes ELSE {LocalOutcome(f)} :
          /\ Record(f, outcome)
          /\ IF outcome \in {"current", "unchecked"}
             THEN vouched' = vouched \union {f} /\ queued' = queued
             ELSE vouched' = vouched /\ Queue({f})
          /\ stage' = [stage EXCEPT ![f] =
                          IF outcome \in {"current", "unchecked"} THEN "current" ELSE "fetch"]
    /\ UNCHANGED <<pc, first, attempt, late, scaleVars, limit, breaker, outages>>

SyncEnds ==
    /\ pc = "sync" /\ \A f \in Left : stage[f] \in Ended
    /\ pc' = "done"
    /\ UNCHANGED <<first, checkVars, scaleVars, limit, breaker, outages>>

-----------------------------------------------------------------------------
Progress(f) ==
    \/ CheckLocal(f) \/ Ask(f) \/ Pace(f) \/ Retry(f)
    \/ Answered(f) \/ AnsweredInPart(f)
    \/ StartCheck(f) \/ CheckAnswered(f) \/ LateAnswer(f) \/ SyncCheck(f)

Trouble(f) ==
    Refused(f) \/ Broke(f) \/ HeadFails(f) \/ HeadDeadline(f) \/ Deadline(f)

Manager ==
    \/ Enter \/ EnterFails \/ ProfileServer \/ ProfileFails
    \/ BatchEnds \/ BatchTimeout \/ SyncEnds

Next ==
    \/ \E f \in File : Progress(f) \/ Admit(f) \/ Trouble(f)
    \/ Manager \/ Cool \/ RecoveryDue

Spec == Init /\ [][Next]_vars

\* The loop runs every task that can run, a request ends within its own
\* timeout (12 s), and the semaphore's waiters are all woken by a release.
FairSpec ==
    /\ Spec
    /\ \A f \in 1..Files : WF_vars(Progress(f)) /\ SF_vars(Admit(f))
    /\ WF_vars(Enter) /\ WF_vars(ProfileServer) /\ WF_vars(BatchEnds) /\ WF_vars(SyncEnds)

-----------------------------------------------------------------------------
(* compare.py:546-598, :630-683: at the end every file is either queued for
   download, once, or an answer (or --missing-files) has said that it is
   current, in every mixture of answers, failures, deadlines and switches
   to synchronous checks. *)
EveryFileDecidedOnce ==
    pc = "done" => \A f \in File :
        \/ queued[f] = 1 /\ stage[f] = "fetch"
        \/ queued[f] = 0 /\ f \in vouched

(* async_primitives.py:40-64, async_connection.py:975-995: the HEADs within
   the semaphore are never more than the concurrency in force, although the
   limit moves, attempts rest within it and deadlines take tasks out. *)
HeadsWithinConcurrency ==
    Cardinality(Holders) <= IF Adaptive THEN conc ELSE MaxAt

(* compare.py:630-683: the checks end, and nothing waits for ever: not for
   the semaphore, not for a thread, not for an answer. *)
ChecksEnd == <>(pc = "done")
=============================================================================
