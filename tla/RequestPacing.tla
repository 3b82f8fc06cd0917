--------------------------- MODULE RequestPacing ----------------------------
(***************************************************************************)
(* rate_limiter.py, and the pacer and the byte budget of transfers.py: how *)
(* threads and tasks that share a limiter are kept apart. Three ways:      *)
(*   "held"      RateLimiter sleeps inside its lock, and stamps the start  *)
(*               when it wakes;                                            *)
(*   "reserved"  PerIPRateLimiter, ChunkAwareRateLimiter, AsyncRequestPacer *)
(*               reserve a start under the lock and sleep outside it;      *)
(*   "spent"     BandwidthLimiter, AsyncBandwidthBudget reserve the time    *)
(*               the bytes take, and sleep to its end outside the lock.    *)
(* Time is an integer that does not go back; a sleeper wakes up to Late    *)
(* units after its time. One unit of time is one byte of the budget.       *)
(***************************************************************************)
EXTENDS Integers, Sequences, FiniteSets, FiniteSetsExt

CONSTANTS
    Caller, Address,        \* threads or tasks, and the addresses they ask for
    Discipline,             \* "held", "reserved" or "spent"
    Base,                   \* min_interval
    Extra,                  \* the most that scaling by active chunks adds
    Sizes,                  \* bytes of a block ("spent")
    MaxAge,                 \* age at which the entry of an address is dropped
    Late,                   \* how late a sleeper wakes
    Requests, MaxTime       \* bounds of a behaviour

Free == "free"

\* Assumed of the constants wherever the module is instantiated.
PacingAssumption ==
    /\ IsFiniteSet(Caller) /\ Free \notin Caller
    /\ Discipline \in {"held", "reserved", "spent"}
    /\ Base \in Nat \ {0} /\ Extra \in Nat /\ Late \in Nat
    /\ Sizes \subseteq Nat \ {0} /\ Requests \in Nat
    /\ MaxTime \in Nat /\ MaxTime >= Base + Extra
    /\ MaxAge \in Nat /\ MaxAge >= Base + Extra

VARIABLES
    clock,
    last,           \* last[a]: the reserved or stamped start (ip_last_requests, next_start)
    chunks,         \* chunks[a]: active_chunks_per_ip
    pc,             \* pc[c]: "idle", "asks", "asleep"
    asked,          \* asked[c]: the address and the cost of the call
    wake,           \* wake[c]: when the sleep ends
    lock,           \* the sleeper inside the lock ("held")
    starts,         \* starts[a]: when requests were let go, in order
    spent,          \* bytes let go
    made            \* calls made

vars == <<clock, last, chunks, pc, asked, wake, lock, starts, spent, made>>

NoCall == [address |-> "none", cost |-> 0]

\* The first request of an address finds an entry long ago.
Start == Base + Extra

Init ==
    /\ clock = Start /\ last = [a \in Address |-> 0] /\ chunks = [a \in Address |-> 0]
    /\ pc = [c \in Caller |-> "idle"] /\ lock = Free
    /\ asked = [c \in Caller |-> NoCall] /\ wake = [c \in Caller |-> 0]
    /\ starts = [a \in Address |-> <<>>] /\ spent = 0 /\ made = 0

-----------------------------------------------------------------------------

\* ChunkAwareRateLimiter: one step of delay for each chunk after the first.
Scaled(n) == Base + Min({Extra, Max({n, 1}) - 1})

Cost(a) == IF Discipline = "spent" THEN Sizes ELSE {Scaled(chunks[a])}

\* The number of active chunks is read before the lock is taken.
Call(c, a) ==
    /\ pc[c] = "idle" /\ made < Requests /\ made' = made + 1
    /\ pc' = [pc EXCEPT ![c] = "asks"]
    /\ \E n \in Cost(a) : asked' = [asked EXCEPT ![c] = [address |-> a, cost |-> n]]
    /\ UNCHANGED <<clock, last, chunks, wake, lock, starts, spent>>

LetGo(c, a) ==
    /\ pc' = [pc EXCEPT ![c] = "idle"] /\ asked' = [asked EXCEPT ![c] = NoCall]
    /\ starts' = [starts EXCEPT ![a] = Append(@, clock)]
    /\ spent' = spent + asked[c].cost

Sleep(c, until) ==
    /\ pc' = [pc EXCEPT ![c] = "asleep"] /\ wake' = [wake EXCEPT ![c] = until]
    /\ UNCHANGED <<asked, starts, spent>>

\* The slot is taken before the sleep, in one hold of the lock.
Reserve(c) ==
    LET a == asked[c].address  slot == last[a] + asked[c].cost IN
    /\ Discipline = "reserved" /\ pc[c] = "asks"
    /\ IF slot > clock
       THEN last' = [last EXCEPT ![a] = slot] /\ Sleep(c, slot)
       ELSE last' = [last EXCEPT ![a] = clock] /\ LetGo(c, a) /\ UNCHANGED wake
    /\ UNCHANGED <<clock, chunks, lock, made>>

Spend(c) ==
    LET a == asked[c].address  end == Max({clock, last[a]}) + asked[c].cost IN
    /\ Discipline = "spent" /\ pc[c] = "asks"
    /\ last' = [last EXCEPT ![a] = end] /\ Sleep(c, end)
    /\ UNCHANGED <<clock, chunks, lock, made>>

Hold(c) ==
    LET a == asked[c].address  until == last[a] + asked[c].cost IN
    /\ Discipline = "held" /\ pc[c] = "asks" /\ lock = Free
    /\ IF until > clock
       THEN Sleep(c, until) /\ lock' = c /\ UNCHANGED last
       ELSE LetGo(c, a) /\ last' = [last EXCEPT ![a] = clock] /\ UNCHANGED <<wake, lock>>
    /\ UNCHANGED <<clock, chunks, made>>

\* Variant: the start is stamped with the time it was due.
WakeStampsDue(c) ==
    LET a == asked[c].address IN
    /\ pc[c] = "asleep" /\ clock >= wake[c]
    /\ LetGo(c, a)
    /\ last' = IF Discipline = "held" THEN [last EXCEPT ![a] = wake[c]] ELSE last
    /\ lock' = IF lock = c THEN Free ELSE lock
    /\ wake' = [wake EXCEPT ![c] = 0] /\ UNCHANGED <<clock, chunks, made>>

Wake(c) ==
    LET a == asked[c].address IN
    /\ pc[c] = "asleep" /\ clock >= wake[c]
    /\ LetGo(c, a)
    /\ last' = IF Discipline = "held" THEN [last EXCEPT ![a] = clock] ELSE last
    /\ lock' = IF lock = c THEN Free ELSE lock
    /\ wake' = [wake EXCEPT ![c] = 0] /\ UNCHANGED <<clock, chunks, made>>

\* register_chunk_start, register_chunk_complete
Chunk(a) ==
    /\ Extra > 0
    /\ \E n \in {chunks[a] - 1, chunks[a] + 1} \intersect 0 .. Extra + 1 :
            chunks' = [chunks EXCEPT ![a] = n]
    /\ UNCHANGED <<clock, last, pc, asked, wake, lock, starts, spent, made>>

\* The clean-up of old entries, now and then at the end of a call.
Forget(a) ==
    /\ Discipline # "spent" /\ lock = Free /\ last[a] > 0
    /\ clock - last[a] > MaxAge
    /\ last' = [last EXCEPT ![a] = 0]
    /\ UNCHANGED <<clock, chunks, pc, asked, wake, lock, starts, spent, made>>

Tick ==
    /\ clock < MaxTime
    /\ \A c \in Caller : pc[c] = "asleep" => clock < wake[c] + Late
    /\ clock' = clock + 1
    /\ UNCHANGED <<last, chunks, pc, asked, wake, lock, starts, spent, made>>

Goes(c) == Reserve(c) \/ Spend(c) \/ Hold(c) \/ Wake(c)

Next ==
    \/ \E c \in Caller : Goes(c) \/ \E a \in Address : Call(c, a)
    \/ \E a \in Address : Chunk(a) \/ Forget(a)
    \/ Tick

Spec == Init /\ [][Next]_vars

-----------------------------------------------------------------------------
(* Properties *)

TypeOK ==
    /\ clock \in Start .. MaxTime /\ made \in 0 .. Requests
    /\ pc \in [Caller -> {"idle", "asks", "asleep"}]
    /\ lock \in Caller \union {Free}
    /\ \A a \in Address : last[a] \in Nat /\ Len(starts[a]) <= Requests
    /\ spent \in Nat

\* However many callers share the limiter and however they interleave, the
\* requests let go for an address are an interval apart (rate_limiter.py:118,
\* 209, 332; transfers.py:81). A sleeper outside the lock may be late, so that
\* the next one follows sooner; but lateness never adds up over a burst.
RequestsSpaced ==
    \A a \in Address : \A i, j \in DOMAIN starts[a] :
        i < j => starts[a][j] - starts[a][i] >=
                    (j - i) * Base - (IF Discipline = "held" THEN 0 ELSE Late)

\* Bytes are reserved "across every worker, rather than multiplying the limit"
\* (transfers.py:96, rate_limiter.py:63): all that was let go fits in the time.
BytesKept == spent <= clock - Start

\* Each caller gets "its own place" (rate_limiter.py:64): it sleeps one
\* interval, and one for each caller asleep before it, and never longer. No
\* slot is lost to a caller that has already gone.
SleepIsBounded ==
    \A c \in Caller : pc[c] = "asleep" =>
        wake[c] - clock <= (Base + Extra) *
            Cardinality({d \in Caller : pc[d] = "asleep" /\ wake[d] <= wake[c]})
=============================================================================
