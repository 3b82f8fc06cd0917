---------------------------- MODULE DomainHealth ----------------------------
(***************************************************************************)
(* domain_health.py: DomainHealthTracker. Each run records the times of    *)
(* the 429 and 503 answers of a domain in one file that all runs share; a  *)
(* domain with enough of them in the trailing window starts slowly. Runs   *)
(* load the file once, write it whole after every incident, and may        *)
(* overlap. One domain stands for all: they share the file and nothing     *)
(* else.                                                                   *)
(***************************************************************************)
EXTENDS Integers, Sequences, FiniteSets

CONSTANTS
    Run,                        \* processes; a process that ended may run again
    Window, Threshold, Stored,  \* INCIDENT_WINDOW_SECONDS, _THRESHOLD, MAX_INCIDENTS_STORED_...
    Overlap,                    \* BOOLEAN: runs overlap
    ReadFaults, WriteFaults,    \* bounds: failed reads and writes of the file,
    Incidents, MaxTime          \* incidents and time

\* Assumed of the constants wherever the module is instantiated.
HealthAssumption ==
    /\ Window \in Nat /\ Threshold \in Nat \ {0} /\ Stored \in Nat /\ Threshold <= Stored
    /\ Overlap \in BOOLEAN /\ {ReadFaults, WriteFaults, Incidents} \subseteq Nat /\ MaxTime \in Nat \ {0}

VARIABLES
    clock,
    file,           \* the incident times in the file
    up,             \* runs in progress
    loaded, data,   \* loaded[r], data[r]: _loaded, _data
    known,          \* known[r]: all r has read or recorded, nothing dropped
    all,            \* every incident there was
    failed,         \* [read, write]: failures so far
    verdict         \* verdict[r]: the last answer of is_throttled, and its reason

vars == <<clock, file, up, loaded, data, known, all, failed, verdict>>

NoVerdict == "none"

Init ==
    /\ clock = 1 /\ file = <<>> /\ all = <<>> /\ up = {}
    /\ loaded = {} /\ data = [r \in Run |-> <<>>] /\ known = [r \in Run |-> <<>>]
    /\ failed = [read |-> 0, write |-> 0] /\ verdict = [r \in Run |-> NoVerdict]

Recent(times) == Cardinality({i \in DOMAIN times : times[i] >= clock - Window})

Throttled(times) == Recent(times) >= Threshold

\* What is over the limit is deleted at the front.
Pruned(times) == SubSeq(times, 1 + (IF Len(times) > Stored THEN Len(times) - Stored ELSE 0), Len(times))

\* What r has after _load, which reads once in a run: "ok", or "failed" and empty.
Loads(r) ==
    IF r \in loaded THEN {[times |-> data[r], how |-> "kept"]}
    ELSE {[times |-> file, how |-> "read"]}
            \union IF failed.read < ReadFaults THEN {[times |-> <<>>, how |-> "failed"]} ELSE {}

Knows(r, load) == IF load.how = "read" THEN known[r] \o file ELSE known[r]

CountFailure(load, writes) ==
    failed' = [read |-> failed.read + (IF load.how = "failed" THEN 1 ELSE 0),
               write |-> failed.write + writes]

Begin(r) ==
    /\ r \notin up /\ (Overlap \/ up = {})
    /\ up' = up \union {r}
    /\ UNCHANGED <<clock, file, loaded, data, known, all, failed, verdict>>

\* A run ends, or is killed: what is not in the file is gone.
End(r) ==
    /\ r \in up /\ up' = up \ {r}
    /\ loaded' = loaded \ {r}
    /\ data' = [data EXCEPT ![r] = <<>>] /\ known' = [known EXCEPT ![r] = <<>>]
    /\ verdict' = [verdict EXCEPT ![r] = NoVerdict]
    /\ UNCHANGED <<clock, file, all, failed>>

\* Variant: an incident is recorded without the history.
RecordUnread(r) ==
    /\ r \in up /\ Len(all) < Incidents
    /\ data' = [data EXCEPT ![r] = Pruned(Append(@, clock))]
    /\ known' = [known EXCEPT ![r] = Append(@, clock)]
    /\ all' = Append(all, clock) /\ loaded' = loaded \union {r}
    /\ file' = data'[r]
    /\ verdict' = [verdict EXCEPT ![r] = NoVerdict]
    /\ UNCHANGED <<clock, up, failed>>

\* record_incident, with _save: the file is replaced in one step or stays.
Record(r) ==
    /\ r \in up /\ Len(all) < Incidents
    /\ all' = Append(all, clock) /\ loaded' = loaded \union {r}
    /\ \E load \in Loads(r), saved \in BOOLEAN :
        /\ data' = [data EXCEPT ![r] = Pruned(Append(load.times, clock))]
        /\ known' = [known EXCEPT ![r] = Append(Knows(r, load), clock)]
        /\ ~saved => failed.write < WriteFaults
        /\ file' = IF saved THEN data'[r] ELSE file
        /\ CountFailure(load, IF saved THEN 0 ELSE 1)
    /\ verdict' = [verdict EXCEPT ![r] = NoVerdict]
    /\ UNCHANGED <<clock, up>>

\* is_throttled
Ask(r) ==
    /\ r \in up /\ loaded' = loaded \union {r}
    /\ \E load \in Loads(r) :
        /\ data' = [data EXCEPT ![r] = load.times]
        /\ known' = [known EXCEPT ![r] = Knows(r, load)]
        /\ verdict' = [verdict EXCEPT ![r] = IF Throttled(load.times) THEN "throttled" ELSE "clear"]
        /\ CountFailure(load, 0)
    /\ UNCHANGED <<clock, file, up, all>>

\* Answers are about their moment.
Tick ==
    /\ clock < MaxTime /\ clock' = clock + 1
    /\ verdict' = [r \in Run |-> NoVerdict]
    /\ UNCHANGED <<file, up, loaded, data, known, all, failed>>

Next ==
    \/ \E r \in Run : Begin(r) \/ End(r) \/ Record(r) \/ Ask(r)
    \/ Tick

Spec == Init /\ [][Next]_vars

-----------------------------------------------------------------------------
(* Properties *)

TypeOK ==
    /\ clock \in 1 .. MaxTime /\ loaded \subseteq up /\ up \subseteq Run
    /\ \A r \in Run : Len(data[r]) <= Stored /\ verdict[r] \in {NoVerdict, "throttled", "clear"}
    /\ Len(file) <= Stored /\ Len(all) <= Incidents

\* A bounded list decides as an unbounded one would (domain_health.py:25-30,
\* 57): the incidents dropped from a full list never change an answer.
PruningDecidesNothing ==
    \A r \in Run : verdict[r] # NoVerdict =>
        (verdict[r] = "throttled") = Throttled(known[r])

\* Overlapping runs lose updates (domain_health.py:86-92), and may only lose:
\* nothing is counted twice, so that a domain is called throttled only after
\* that many incidents inside the window.
NeverOverstated ==
    \A r \in Run : verdict[r] = "throttled" => Throttled(all)

\* "Persisted across runs" (domain_health.py:80): when runs follow one another
\* and writes succeed, a new run decides on all incidents of all runs before it.
HistorySurvivesRuns ==
    ~Overlap /\ failed.write = 0 => Throttled(file) = Throttled(all)
=============================================================================
