--------------------------- MODULE DomainRequests ---------------------------
(***************************************************************************)
(* connection.py, ConnectionManager.request, for one domain: threads ask   *)
(* the domain's circuit breaker, send, retry, follow redirects and report  *)
(* to the breaker, each holding a lease of the coordinator's thread budget *)
(* (concurrency.py). The budget and the breaker have locks of their own:   *)
(* taking a lease, asking, handling an answer and releasing are steps.     *)
(*                                                                         *)
(* Following a redirect calls request() again, with a lease and a question *)
(* to the breaker of its own. A streamed response takes its request's      *)
(* lease with it until the caller closes it.                               *)
(***************************************************************************)
EXTENDS CircuitBreaker, FiniteSets

CONSTANTS
    Thread,
    MaxThreads,     \* max_total_threads
    MaxRetries,     \* config.max_retries
    MaxRedirects,   \* _MAX_REDIRECTS
    Hops,           \* bound: redirects the server answers a request with
    Urls,           \* "inside" and "outside" the configured scope
    Answers,        \* of "ok" (2xx, 304, 416), "redirect", "final" (other 4xx),
                    \* "retry" (429, 5xx, a transport error)
    Prompt          \* the environment is quick: a half-open window lasts until
                    \* its permits are taken and its probes answered

ASSUME RequestsAssumption ==
    /\ IsFiniteSet(Thread)
    /\ MaxThreads \in Nat \ {0}
    /\ MaxRetries \in Nat /\ MaxRedirects \in Nat /\ Hops \in Nat
    /\ Urls \subseteq {"inside", "outside"}
    /\ Answers \subseteq {"ok", "redirect", "final", "retry"}
    /\ Prompt \in BOOLEAN

VARIABLES
    breaker,        \* breakers[domain]
    active,         \* active_threads
    pc,             \* "idle", "lease", "ask", "scope", "send", "body" (the caller
                    \* reads a streamed response), "leave" (the outer finally)
    acquired,       \* thread_acquired
    url, depth,     \* the request's url and _redirect_depth
    attempt,
    probe,          \* history: admitted by the half-open window that is on
    healthy         \* the server has recovered: it fails no request any more

requestVars == <<acquired, url, depth, attempt>>
vars == <<breaker, active, pc, requestVars, probe, healthy>>

Goto(t, l) == pc' = [pc EXCEPT ![t] = l]

\* The requests a half-open window admitted are forgotten when it ends.
ProbesAfter(b, mine) ==
    probe' = IF b.state = "half_open" THEN mine ELSE [t \in Thread |-> FALSE]

-----------------------------------------------------------------------------
Init ==
    /\ breaker = Closed
    /\ active = 0
    /\ pc = [t \in Thread |-> "idle"]
    /\ acquired = [t \in Thread |-> FALSE]
    /\ url \in [Thread -> Urls]
    /\ depth = [t \in Thread |-> 0]
    /\ attempt = [t \in Thread |-> 0]
    /\ probe = [t \in Thread |-> FALSE]
    /\ healthy = FALSE

Start(t, u) ==
    /\ pc[t] = "idle"
    /\ Goto(t, "lease")
    /\ url' = [url EXCEPT ![t] = u]
    /\ depth' = [depth EXCEPT ![t] = 0]
    /\ UNCHANGED <<breaker, active, acquired, attempt, probe, healthy>>

\* acquire_thread: a full budget refuses the request at once.
Lease(t) ==
    /\ pc[t] = "lease"
    /\ IF active < MaxThreads
       THEN /\ active' = active + 1
            /\ acquired' = [acquired EXCEPT ![t] = TRUE]
            /\ Goto(t, "ask")
       ELSE /\ Goto(t, "leave")
            /\ UNCHANGED <<active, acquired>>
    /\ UNCHANGED <<breaker, url, depth, attempt, probe, healthy>>

\* The security check refuses the url before the breaker is asked.
Blocked(t) ==
    /\ pc[t] = "ask"
    /\ url[t] = "outside"
    /\ Goto(t, "leave")
    /\ UNCHANGED <<breaker, active, requestVars, probe, healthy>>

\* CircuitBreakerManager.can_execute, which creates the breaker if need be.
Ask(t) ==
    /\ pc[t] = "ask"
    /\ breaker' = Asked(breaker)
    /\ ProbesAfter(breaker', [probe EXCEPT ![t] = @ \/ MayProbe(breaker)])
    /\ Goto(t, IF CanExecute(breaker) THEN "scope" ELSE "leave")
    /\ UNCHANGED <<active, requestVars, healthy>>

\* The scope check comes after: a url outside costs a permit and no record.
Scope(t) ==
    /\ pc[t] = "scope"
    /\ Goto(t, IF url[t] = "inside" THEN "send" ELSE "leave")
    /\ attempt' = [attempt EXCEPT ![t] = 0]
    /\ UNCHANGED <<breaker, active, acquired, url, depth, probe, healthy>>

Report(t, b, l) ==
    /\ breaker' = b
    /\ ProbesAfter(b, probe)
    /\ Goto(t, l)

\* Variant: a streamed response is returned with its lease, which the outer
\* finally releases too.
AnswerOkSharingLease(t) ==
    /\ pc[t] = "send"
    /\ "ok" \in Answers
    /\ \E stream \in BOOLEAN : Report(t, Succeeded(breaker), IF stream THEN "body" ELSE "leave")
    /\ UNCHANGED <<active, requestVars, healthy>>

\* A final answer that is no error; a stream takes the lease over.
AnswerOk(t) ==
    /\ pc[t] = "send"
    /\ "ok" \in Answers
    /\ \E stream \in BOOLEAN :
         /\ Report(t, Succeeded(breaker), IF stream THEN "body" ELSE "leave")
         /\ acquired' = [acquired EXCEPT ![t] = ~stream]
    /\ UNCHANGED <<active, url, depth, attempt, healthy>>

\* raise_for_status.
AnswerFinal(t) ==
    /\ pc[t] = "send"
    /\ "final" \in Answers /\ ~healthy
    /\ Report(t, Failed(breaker), "leave")
    /\ UNCHANGED <<active, requestVars, healthy>>

\* Variant: the last attempt is retried once more.
AnswerRetryOnceMore(t) ==
    /\ pc[t] = "send"
    /\ "retry" \in Answers /\ ~healthy
    /\ IF attempt[t] <= MaxRetries
       THEN /\ attempt' = [attempt EXCEPT ![t] = @ + 1]
            /\ UNCHANGED <<breaker, probe, pc>>
       ELSE /\ Report(t, Failed(breaker), "leave")
            /\ UNCHANGED attempt
    /\ UNCHANGED <<active, acquired, url, depth, healthy>>

\* 429, 5xx, a transport error: again after a back-off, whatever has become of
\* the circuit; only the last attempt is reported.
AnswerRetry(t) ==
    /\ pc[t] = "send"
    /\ "retry" \in Answers /\ ~healthy
    /\ IF attempt[t] < MaxRetries
       THEN /\ attempt' = [attempt EXCEPT ![t] = @ + 1]
            /\ UNCHANGED <<breaker, probe, pc>>
       ELSE /\ Report(t, Failed(breaker), "leave")
            /\ UNCHANGED attempt
    /\ UNCHANGED <<active, acquired, url, depth, healthy>>

\* Variant: the recursive call starts counting anew.
AnswerRedirectUncounted(t) ==
    /\ pc[t] = "send"
    /\ "redirect" \in Answers /\ depth[t] < Hops
    /\ \E u \in Urls :
         IF depth[t] < MaxRedirects /\ u = "inside"
         THEN /\ acquired' = [acquired EXCEPT ![t] = FALSE]
              /\ active' = active - 1
              /\ Goto(t, "lease")
         ELSE Goto(t, "leave") /\ UNCHANGED <<acquired, active>>
    /\ UNCHANGED <<breaker, url, depth, attempt, probe, healthy>>

\* A redirect to u: the lease is released and request() called again. One too
\* many, or one out of the scope, is refused without a report.
AnswerRedirect(t) ==
    /\ pc[t] = "send"
    /\ "redirect" \in Answers /\ depth[t] < Hops
    /\ \E u \in Urls :
         IF depth[t] < MaxRedirects /\ u = "inside"
         THEN /\ acquired' = [acquired EXCEPT ![t] = FALSE]
              /\ active' = active - 1
              /\ depth' = [depth EXCEPT ![t] = @ + 1]
              /\ Goto(t, "lease")
         ELSE Goto(t, "leave") /\ UNCHANGED <<acquired, active, depth>>
    /\ UNCHANGED <<breaker, url, attempt, probe, healthy>>

Answer(t) == AnswerOk(t) \/ AnswerFinal(t) \/ AnswerRetry(t) \/ AnswerRedirect(t)

\* The end of a request; its frames have nothing left to release.
Done(t) ==
    /\ Goto(t, "idle")
    /\ probe' = [probe EXCEPT ![t] = FALSE]

\* _LeasedStream.close.
CloseBody(t) ==
    /\ pc[t] = "body"
    /\ active' = active - 1
    /\ Done(t)
    /\ UNCHANGED <<breaker, requestVars, healthy>>

\* The outer finally.
Leave(t) ==
    /\ pc[t] = "leave"
    /\ active' = IF acquired[t] THEN active - 1 ELSE active
    /\ acquired' = [acquired EXCEPT ![t] = FALSE]
    /\ Done(t)
    /\ UNCHANGED <<breaker, url, depth, attempt, healthy>>

\* recovery_timeout passes.
Elapse ==
    /\ breaker.state # "closed" /\ ~breaker.elapsed
    /\ Prompt /\ breaker.state = "half_open" =>
         breaker.permits = HalfOpenLimit /\ \A t \in Thread : ~probe[t]
    /\ breaker' = [breaker EXCEPT !.elapsed = TRUE]
    /\ UNCHANGED <<active, pc, requestVars, probe, healthy>>

Heal ==
    /\ healthy' = TRUE
    /\ UNCHANGED <<breaker, active, pc, requestVars, probe>>

Proceed(t) ==
    \/ Lease(t) \/ Blocked(t) \/ Ask(t) \/ Scope(t) \/ Answer(t)
    \/ CloseBody(t) \/ Leave(t)

Next ==
    \/ \E t \in Thread : Proceed(t) \/ \E u \in Urls : Start(t, u)
    \/ Elapse \/ Heal

Spec == Init /\ [][Next]_vars

\* The threads run, calls time out, callers close their streams, time passes.
FairSpec == Spec /\ WF_vars(Elapse) /\ \A t \in Thread : WF_vars(Proceed(t))

\* ... and there is always another request to make.
BusySpec == FairSpec /\ \A t \in Thread, u \in Urls : WF_vars(Start(t, u))

-----------------------------------------------------------------------------
\* Every variable has its type: retries and redirects stay within their caps
\* and the budget within max_total_threads.
TypeOK ==
    /\ breaker \in Breakers
    /\ active \in 0..MaxThreads
    /\ pc \in [Thread -> {"idle", "lease", "ask", "scope", "send", "body", "leave"}]
    /\ acquired \in [Thread -> BOOLEAN] /\ probe \in [Thread -> BOOLEAN]
    /\ url \in [Thread -> Urls]
    /\ depth \in [Thread -> 0..MaxRedirects]
    /\ attempt \in [Thread -> 0..MaxRetries]
    /\ healthy \in BOOLEAN

\* connection.py:548-906, concurrency.py:146-171: the budget counts exactly the
\* leases that requests and unread streams hold. A lease released twice lets
\* too many threads in; one never released shrinks the budget for good.
Holders == {t \in Thread : acquired[t] \/ pc[t] = "body"}
LeasesBalance == active = Cardinality(Holders)

\* circuit_breaker.py:21-112: the counters belong to the state they are for. A
\* counter left over from another state makes the next window too short or
\* closes the circuit on fewer successes than half_open_limit.
Fit(b) ==
    /\ b.state = "closed" => b.failures < FailureThreshold
    /\ b.state = "half_open" => b.permits >= 1 /\ b.successes < HalfOpenLimit
    /\ b.state # "half_open" => b.permits = 0 /\ b.successes = 0
CountersFit == Fit(breaker)

\* circuit_breaker.py:69-77: of the requests a half-open window has admitted, at
\* most half_open_limit are still under way, redirected ones among them.
Probes == {t \in Thread : probe[t]}
ProbesBounded ==
    breaker.state = "half_open" =>
        /\ Cardinality(Probes) <= breaker.permits
        /\ breaker.permits <= HalfOpenLimit

\* connection.py:618, 674: every request comes to an end, whatever the server
\* answers: retries and redirects are bounded and never multiply each other.
EveryRequestEnds == \A t \in Thread : (pc[t] # "idle") ~> (pc[t] = "idle")

\* circuit_breaker.py:81-91: once the domain has recovered its circuit closes.
Recovers == healthy ~> (breaker.state = "closed")
=============================================================================
