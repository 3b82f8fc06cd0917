----------------------------- MODULE Connections -----------------------------
(***************************************************************************)
(* The parts behind a request that share no state with each other: pacing  *)
(* in its three ways, the thread budget, the pool of clients, the address  *)
(* caches of both transports, a domain's history of throttling, and the    *)
(* sessions of asynchronous checks.                                        *)
(* In a behaviour one part moves and the others rest: with no variable in  *)
(* common, what holds of the behaviours of each holds of them together.    *)
(***************************************************************************)
EXTENDS Integers, Sequences, FiniteSets

CONSTANTS
    Thread,         \* threads: of requests, of a pool of clients, of lookups
    Origin, Host,
    \* pacing: see RequestPacing; Calls[d] and Until[d] bound discipline d
    Caller, Address, Interval, Scaling, Blocks, MaxAge, Late, Calls, Until,
    \* the thread budget: see ThreadBudget
    Submitter, Limit, Workers,
    \* the pool of clients: see ClientPool
    PoolSizes, InitialSize, Idle, Clients, Uses,
    \* the address caches: see AddressCache
    TTL, CacheSize, Dropped, SweepInterval, SweepEvery, Horizon, Rotations,
    \* the history of a domain: see DomainHealth
    Run, Window, Threshold, Stored, ReadFaults, WriteFaults, Incidents, LastTime,
    \* asynchronous checks: see AsyncSession
    Check

VARIABLES
    part,
    clock, last, chunks, pc, asked, wake, lock, starts, spent, made,
    active, shut, pool, request, submit, expired, task,
    pools, lastUsed, max, clients, open, broken, poolPc, poolFor, client, uses,
    cache, cacheLock, addressPc, addressFor, ip, count, cleaned, dns, rotated, steady, now,
    healthClock, file, up, loaded, data, known, all, failed, verdict,
    step, frozen, cleaner, check, removals, tracked, created, completed, stopped,
    taskLock, closed, held, headClient

pacingVars == <<clock, last, chunks, pc, asked, wake, lock, starts, spent, made>>
budgetVars == <<active, shut, pool, request, submit, expired, task>>
poolVars == <<pools, lastUsed, max, clients, open, broken, poolPc, poolFor, client, uses>>
addressVars == <<cache, cacheLock, addressPc, addressFor, ip, count, cleaned,
                 dns, rotated, steady, now>>
healthVars == <<healthClock, file, up, loaded, data, known, all, failed, verdict>>
sessionVars == <<step, frozen, cleaner, check, removals, tracked, created, completed,
                 stopped, taskLock, closed, held, headClient>>
vars == <<part, pacingVars, budgetVars, poolVars, addressVars, healthVars, sessionVars>>

Disciplines == {"held", "reserved", "spent"}

\* Only the reserved starts scale with the chunks. The bytes have one budget.
Pacing(discipline) == INSTANCE RequestPacing WITH
    Discipline <- discipline, Base <- Interval,
    Extra <- IF discipline = "reserved" THEN Scaling ELSE 0,
    Sizes <- IF discipline = "spent" THEN Blocks ELSE {},
    Address <- IF discipline = "spent" THEN {"total"} ELSE Address,
    Requests <- Calls[discipline], MaxTime <- Until[discipline]
Budget == INSTANCE ThreadBudget WITH Requester <- Thread
Pool == INSTANCE ClientPool WITH
    Sizes <- PoolSizes, Initial <- InitialSize,
    last <- lastUsed, made <- clients, pc <- poolPc, for <- poolFor, now <- uses
Addresses(async) == INSTANCE AddressCache WITH
    Async <- async, Size <- CacheSize, Interval <- SweepInterval, Every <- SweepEvery,
    lock <- cacheLock, pc <- addressPc, for <- addressFor
\* Runs that overlap may fail to read or write; those that do not, never.
Health(overlap) == INSTANCE DomainHealth WITH
    Overlap <- overlap, MaxTime <- LastTime, clock <- healthClock,
    ReadFaults <- IF overlap THEN ReadFaults ELSE 0,
    WriteFaults <- IF overlap THEN WriteFaults ELSE 0
Session == INSTANCE AsyncSession WITH
    Task <- Check, task <- check, shut <- stopped, lock <- taskLock, client <- headClient

ASSUME PartsAssumption ==
    /\ \A d \in Disciplines : Pacing(d)!PacingAssumption
    /\ Budget!BudgetAssumption /\ Pool!PoolAssumption /\ Health(TRUE)!HealthAssumption
    /\ Addresses(TRUE)!AddressAssumption /\ Session!SessionAssumption

Init ==
    /\ part \in Disciplines \union
                {"budget", "pool", "blocking", "loop", "health", "successive", "session"}
    /\ \E d \in Disciplines :
            d = (IF part \in Disciplines THEN part ELSE "held") /\ Pacing(d)!Init
    /\ Budget!Init /\ Pool!Init /\ Addresses(FALSE)!Init /\ Health(TRUE)!Init /\ Session!Init

PacingMoves ==
    /\ \E d \in Disciplines : part = d /\ Pacing(d)!Next
    /\ UNCHANGED <<part, budgetVars, poolVars, addressVars, healthVars, sessionVars>>

BudgetMoves ==
    /\ part = "budget" /\ Budget!Next
    /\ UNCHANGED <<part, pacingVars, poolVars, addressVars, healthVars, sessionVars>>

PoolMoves ==
    /\ part = "pool" /\ Pool!Next
    /\ UNCHANGED <<part, pacingVars, budgetVars, addressVars, healthVars, sessionVars>>

AddressesMove ==
    /\ \/ part = "blocking" /\ Addresses(FALSE)!Next
       \/ part = "loop" /\ Addresses(TRUE)!Next
    /\ UNCHANGED <<part, pacingVars, budgetVars, poolVars, healthVars, sessionVars>>

HealthMoves ==
    /\ \/ part = "health" /\ Health(TRUE)!Next
       \/ part = "successive" /\ Health(FALSE)!Next
    /\ UNCHANGED <<part, pacingVars, budgetVars, poolVars, addressVars, sessionVars>>

SessionMoves ==
    /\ part = "session" /\ Session!Next
    /\ UNCHANGED <<part, pacingVars, budgetVars, poolVars, addressVars, healthVars>>

Next == PacingMoves \/ BudgetMoves \/ PoolMoves \/ AddressesMove \/ HealthMoves \/ SessionMoves

Spec == Init /\ [][Next]_vars

-----------------------------------------------------------------------------
(* What the parts promise *)

\* Every variable of the part that moves has its type.
TypeOK ==
    /\ \A d \in Disciplines : part = d => Pacing(d)!TypeOK
    /\ part = "budget" => Budget!TypeOK
    /\ part = "pool" => Pool!TypeOK
    /\ part \in {"blocking", "loop"} => Addresses(FALSE)!TypeOK
    /\ part \in {"health", "successive"} => Health(TRUE)!TypeOK
    /\ part = "session" => Session!TypeOK

\* Requests to a host start an interval apart and nobody sleeps past its own
\* place (rate_limiter.py:118, 209, 332; transfers.py:81), and the byte limit
\* holds for all workers together (rate_limiter.py:63).
PaceKept ==
    /\ part = "held" => Pacing("held")!RequestsSpaced
    /\ part = "reserved" => Pacing("reserved")!RequestsSpaced /\ Pacing("reserved")!SleepIsBounded
    /\ part = "spent" => Pacing("spent")!BytesKept

\* The counter of active threads is the number of slots somebody holds, and a
\* free slot leaves nobody asleep (concurrency.py:156-248, connection.py:53).
SlotsKept == part = "budget" => Budget!SlotsConserved /\ Budget!FreeSlotOffered

\* Open clients are those in the table, at most max_pools of them
\* (connection.py:126, 207-214, 307-318). The client of the asynchronous checks
\* outlives them while no signal comes, it never stays open, and no check is
\* left among the tasks (async_connection.py:148, 1145-1179; _base.py:888-952).
ClientsKept ==
    /\ part = "pool" => Pool!OpenClientsTracked /\ Pool!PoolsBounded
    /\ part = "session" =>
           Session!ClientOutlivesChecks /\ Session!TasksForgotten /\ Session!ClosedInTheEnd

\* A request survives the rotation of its host's address (transport.py:161), a
\* host is looked up once for all who wait (transport.py:135-140, 300-307), and
\* the cache keeps its size (transport.py:35).
AddressesKept ==
    /\ part = "blocking" =>
           Addresses(FALSE)!RotationSurvived /\ Addresses(FALSE)!LookedUpOnce /\ Addresses(FALSE)!CacheBounded
    /\ part = "loop" => Addresses(TRUE)!LookedUpOnce /\ Addresses(TRUE)!CacheBounded

\* A domain is called throttled only after that many incidents inside the
\* window (domain_health.py:86-92), also when a full list has dropped some
\* (domain_health.py:25-30); runs that follow one another decide on the
\* incidents of all before them (domain_health.py:80).
VerdictsFounded ==
    /\ part = "health" => Health(TRUE)!NeverOverstated /\ Health(TRUE)!PruningDecidesNothing
    /\ part = "successive" =>
           /\ Health(FALSE)!NeverOverstated /\ Health(FALSE)!PruningDecidesNothing
           /\ Health(FALSE)!HistorySurvivesRuns
==============================================================================
