--------------------------- MODULE CircuitBreaker ---------------------------
(***************************************************************************)
(* circuit_breaker.py, CircuitBreaker: the breaker of one domain as a value *)
(* and its three methods as operators. Each method is one section under    *)
(* the breaker's lock, so a caller applies it in one step.                 *)
(*                                                                         *)
(* Time is the flag "elapsed": recovery_timeout has passed since           *)
(* last_failure_time when OPEN, since half_open_start when HALF_OPEN. One  *)
(* flag is enough: only a failure opens a circuit afresh, and a window     *)
(* that times out leaves last_failure_time, which is older, as it was.     *)
(***************************************************************************)
EXTENDS Naturals

CONSTANTS FailureThreshold, HalfOpenLimit

ASSUME BreakerAssumption ==
    FailureThreshold \in Nat \ {0} /\ HalfOpenLimit \in Nat \ {0}

States == {"closed", "open", "half_open"}

Breakers ==
    [state: States, failures: 0..FailureThreshold, successes: 0..HalfOpenLimit,
     permits: 0..HalfOpenLimit, elapsed: BOOLEAN]

Closed ==
    [state |-> "closed", failures |-> 0, successes |-> 0, permits |-> 0,
     elapsed |-> FALSE]

Opened(failures, elapsed) ==
    [state |-> "open", failures |-> failures, successes |-> 0, permits |-> 0,
     elapsed |-> elapsed]

\* can_execute: the window times out, the circuit is open again. The failure
\* is as old as before, so the next call opens a window.
WindowEnd(b) == Opened(b.failures, TRUE)

\* can_execute: the recovery timeout is over, the caller is the first probe.
WindowStart(b) ==
    [state |-> "half_open", failures |-> b.failures, successes |-> 0,
     permits |-> 1, elapsed |-> FALSE]

MayProbe(b) ==
    \/ b.state = "open" /\ b.elapsed
    \/ b.state = "half_open" /\ ~b.elapsed /\ b.permits < HalfOpenLimit

\* can_execute: what it returns ...
CanExecute(b) == b.state = "closed" \/ MayProbe(b)

\* Variant: the permit of a probe is not counted.
AskedUncounted(b) ==
    IF b.state = "open" /\ b.elapsed THEN WindowStart(b)
    ELSE IF b.state = "half_open" /\ b.elapsed THEN WindowEnd(b) ELSE b

\* ... and what it leaves.
Asked(b) ==
    IF b.state = "open" /\ b.elapsed THEN WindowStart(b)
    ELSE IF b.state = "half_open" /\ b.elapsed THEN WindowEnd(b)
    ELSE IF MayProbe(b) THEN [b EXCEPT !.permits = @ + 1] ELSE b

\* record_success.
Succeeded(b) ==
    CASE b.state = "half_open" /\ b.successes + 1 >= HalfOpenLimit -> Closed
      [] b.state = "half_open" /\ b.successes + 1 < HalfOpenLimit ->
            [b EXCEPT !.successes = @ + 1]
      [] b.state = "closed" /\ b.failures > 0 -> [b EXCEPT !.failures = @ - 1]
      [] OTHER -> b

\* record_failure: any failure restarts the recovery timeout.
Failed(b) ==
    CASE b.state = "half_open" -> Opened(b.failures, FALSE)
      [] b.state = "open" -> [b EXCEPT !.elapsed = FALSE]
      [] b.state = "closed" ->
            IF b.failures + 1 >= FailureThreshold
            THEN Opened(b.failures + 1, FALSE)
            ELSE [b EXCEPT !.failures = @ + 1, !.elapsed = FALSE]
=============================================================================
