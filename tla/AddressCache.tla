---------------------------- MODULE AddressCache ----------------------------
(***************************************************************************)
(* transport.py: SecureTransport and SecureAsyncTransport. A request goes  *)
(* to an address of its host that was looked up and validated; addresses   *)
(* are cached for a time. The threads' transport holds the cache's lock    *)
(* while it looks a host up, and after a failed connection looks it up     *)
(* again and retries once. The event loop's transport has a lock of its    *)
(* own for lookups, keeps the cache open meanwhile, and does not retry.    *)
(*                                                                         *)
(* An address is a number: the host's present one is dns[h], and those     *)
(* before it do not answer any more. Requests have no body, so that a      *)
(* retry may always send them again.                                       *)
(***************************************************************************)
EXTENDS Naturals, FiniteSets

CONSTANTS
    Thread, Host,
    Async,          \* the event loop's transport
    TTL,            \* IP_CACHE_TTL_SECONDS
    Size,           \* IP_CACHE_MAX_SIZE
    Dropped,        \* entries dropped from a full cache: a quarter of them
    Interval,       \* IP_CACHE_CLEANUP_INTERVAL
    Every,          \* requests between two clean-ups
    Horizon,        \* bounds of a behaviour: time ...
    Rotations       \* ... and addresses of a host after its first one

Nobody == "nobody"
NoHost == "none"

\* Assumed of the constants wherever the module is instantiated.
AddressAssumption ==
    /\ Nobody \notin Thread /\ Async \in BOOLEAN /\ {TTL, Size, Dropped, Every} \subseteq Nat \ {0}
    /\ Dropped <= Size /\ {Interval, Horizon, Rotations} \subseteq Nat

VARIABLES
    cache,          \* cache[h]: _resolved_ips, [ip, at] or Nothing
    lock,           \* who looks a host up
    pc,             \* pc[t]: the step of t's request
    for,            \* for[t]: its host
    ip,             \* ip[t]: the address it has
    count,          \* _request_count modulo Every
    cleaned,        \* _last_cleanup
    dns,            \* dns[h]: the address of h
    rotated,        \* rotated[h]: when it last changed
    steady,         \* steady[t]: no change of it since t's request began
    now

net == <<dns, rotated, steady>>
sweep == <<count, cleaned>>
vars == <<cache, lock, pc, for, ip, sweep, net, now>>

Nothing == [ip |-> 0, at |-> 0]

Cached == {h \in Host : cache[h] # Nothing}
Fresh(h) == cache[h] # Nothing /\ now - cache[h].at < TTL

\* The cache's lock, which the threads hold during a lookup.
CacheOpen == Async \/ lock = Nobody

Go(t, step) == pc' = [pc EXCEPT ![t] = step]

Init ==
    /\ cache = [h \in Host |-> Nothing] /\ lock = Nobody
    /\ pc = [t \in Thread |-> "idle"] /\ for = [t \in Thread |-> NoHost]
    /\ ip = [t \in Thread |-> 0] /\ count = 0 /\ cleaned = 0 /\ now = 0
    /\ dns = [h \in Host |-> 1] /\ rotated = [h \in Host |-> 0]
    /\ steady = [t \in Thread |-> TRUE]

-----------------------------------------------------------------------------
(* The cache *)

\* _get_cached_ip: on to the connection, or else to the step other.
GetCached(t, other) ==
    LET h == for[t] IN
    IF Fresh(h)
    THEN /\ ip' = [ip EXCEPT ![t] = cache[h].ip] /\ Go(t, "connect")
         /\ UNCHANGED cache
    ELSE /\ cache' = [cache EXCEPT ![h] = Nothing] /\ Go(t, other)
         /\ UNCHANGED ip

Oldest(H, n) ==
    {O \in SUBSET H : /\ Cardinality(O) = n
                      /\ \A o \in O, h \in H \ O : cache[o].at <= cache[h].at}

\* _cache_ip
Put(h, a) ==
    \E O \in IF Cardinality(Cached) >= Size THEN Oldest(Cached, Dropped) ELSE {{}} :
        cache' = [i \in Host |-> IF i = h THEN [ip |-> a, at |-> now]
                                 ELSE IF i \in O THEN Nothing ELSE cache[i]]

\* _cleanup_stale_ips
Swept ==
    IF now - cleaned < Interval THEN UNCHANGED <<cache, cleaned>>
    ELSE /\ cache' = [h \in Host |->
                IF now - cache[h].at > TTL THEN Nothing ELSE cache[h]]
         /\ cleaned' = now

-----------------------------------------------------------------------------
(* A request *)

Start(t, h) ==
    /\ pc[t] = "idle" /\ count' = (count + 1) % Every
    /\ for' = [for EXCEPT ![t] = h] /\ steady' = [steady EXCEPT ![t] = TRUE]
    /\ Go(t, IF count' = 0 THEN "clean" ELSE "look")
    /\ UNCHANGED <<cache, lock, ip, cleaned, dns, rotated, now>>

Clean(t) ==
    /\ pc[t] = "clean" /\ CacheOpen /\ Swept /\ Go(t, "look")
    /\ UNCHANGED <<lock, for, ip, count, net, now>>

Look(t) ==
    /\ pc[t] = "look" /\ CacheOpen /\ GetCached(t, "wait")
    /\ UNCHANGED <<lock, for, sweep, net, now>>

\* The lock of lookups is taken, and the cache asked once more.
Enter(t) ==
    /\ pc[t] = "wait" /\ lock = Nobody /\ GetCached(t, "resolve")
    /\ lock' = IF Fresh(for[t]) THEN Nobody ELSE t
    /\ UNCHANGED <<for, sweep, net, now>>

Answer(t) ==
    /\ pc[t] = "resolve" /\ ip' = [ip EXCEPT ![t] = dns[for[t]]]
    /\ Go(t, "store")
    /\ UNCHANGED <<cache, lock, for, sweep, net, now>>

\* Variant: a lookup that fails keeps the lock.
NoAnswerHeld(t) ==
    /\ pc[t] = "resolve" /\ Go(t, "end") /\ UNCHANGED lock
    /\ UNCHANGED <<cache, for, ip, sweep, net, now>>

\* The lookup fails, or an address is refused.
NoAnswer(t) ==
    /\ pc[t] = "resolve" /\ Go(t, "end") /\ lock' = Nobody
    /\ UNCHANGED <<cache, for, ip, sweep, net, now>>

Store(t) ==
    /\ pc[t] = "store" /\ Put(for[t], ip[t]) /\ lock' = Nobody
    /\ Go(t, "connect")
    /\ UNCHANGED <<for, ip, sweep, net, now>>

Answers(t) == ip[t] = dns[for[t]]

Connect(t) ==
    /\ pc[t] = "connect" /\ ~ Async
    /\ Go(t, IF Answers(t) THEN "end" ELSE "forget")
    /\ UNCHANGED <<cache, lock, for, ip, sweep, net, now>>

AsyncConnect(t) ==
    /\ pc[t] = "connect" /\ Async
    /\ Go(t, IF Answers(t) THEN "end" ELSE "failed")
    /\ UNCHANGED <<cache, lock, for, ip, sweep, net, now>>

\* Variant: the retry goes to the address it had.
ForgetNotAsked(t) ==
    /\ pc[t] = "forget" /\ CacheOpen
    /\ cache' = [cache EXCEPT ![for[t]] = Nothing] /\ Go(t, "reconnect")
    /\ UNCHANGED <<lock, for, ip, sweep, net, now>>

\* A ConnectError of the threads' transport.
Forget(t) ==
    /\ pc[t] = "forget" /\ CacheOpen
    /\ cache' = [cache EXCEPT ![for[t]] = Nothing] /\ Go(t, "again")
    /\ UNCHANGED <<lock, for, ip, sweep, net, now>>

\* The second lookup holds no lock.
AnswerAgain(t) ==
    /\ pc[t] = "again" /\ ip' = [ip EXCEPT ![t] = dns[for[t]]]
    /\ Go(t, "renew")
    /\ UNCHANGED <<cache, lock, for, sweep, net, now>>

NoAnswerAgain(t) ==
    /\ pc[t] = "again" /\ Go(t, "end")
    /\ UNCHANGED <<cache, lock, for, ip, sweep, net, now>>

Renew(t) ==
    /\ pc[t] = "renew" /\ CacheOpen /\ Put(for[t], ip[t]) /\ Go(t, "reconnect")
    /\ UNCHANGED <<lock, for, ip, sweep, net, now>>

Reconnect(t) ==
    /\ pc[t] = "reconnect" /\ Go(t, IF Answers(t) THEN "end" ELSE "failed")
    /\ UNCHANGED <<cache, lock, for, ip, sweep, net, now>>

End(t) ==
    /\ pc[t] \in {"end", "failed"} /\ Go(t, "idle")
    /\ for' = [for EXCEPT ![t] = NoHost] /\ ip' = [ip EXCEPT ![t] = 0]
    /\ UNCHANGED <<cache, lock, sweep, net, now>>

-----------------------------------------------------------------------------
(* The rest *)

Clear ==
    /\ ~ Async /\ CacheOpen /\ Cached # {}
    /\ cache' = [h \in Host |-> Nothing]
    /\ UNCHANGED <<lock, pc, for, ip, sweep, net, now>>

AsyncClear ==
    /\ Async /\ Cached # {} /\ cache' = [h \in Host |-> Nothing]
    /\ UNCHANGED <<lock, pc, for, ip, sweep, net, now>>

\* The name service changes the address of a host.
Rotate(h) ==
    /\ dns[h] <= Rotations /\ dns' = [dns EXCEPT ![h] = @ + 1]
    /\ rotated' = [rotated EXCEPT ![h] = now]
    /\ steady' = [t \in Thread |-> steady[t] /\ for[t] # h]
    /\ UNCHANGED <<cache, lock, pc, for, ip, sweep, now>>

\* An answer is stored at once; a retry may wait for the lock first.
Tick ==
    /\ now < Horizon /\ now' = now + 1 /\ \A t \in Thread : pc[t] # "store"
    /\ UNCHANGED <<cache, lock, pc, for, ip, sweep, net>>

Next ==
    \/ \E t \in Thread :
        \/ \E h \in Host : Start(t, h)
        \/ Clean(t) \/ Look(t) \/ Enter(t) \/ Answer(t) \/ NoAnswer(t)
        \/ Store(t) \/ Connect(t) \/ AsyncConnect(t) \/ Forget(t)
        \/ AnswerAgain(t) \/ NoAnswerAgain(t) \/ Renew(t) \/ Reconnect(t)
        \/ End(t)
    \/ Clear \/ AsyncClear \/ Tick
    \/ \E h \in Host : Rotate(h)

Spec == Init /\ [][Next]_vars

-----------------------------------------------------------------------------
(* Properties *)

TypeOK ==
    /\ cache \in [Host -> [ip : 0 .. Rotations + 1, at : 0 .. now]]
    /\ pc \in [Thread -> {"idle", "clean", "look", "wait", "resolve", "store",
            "connect", "forget", "again", "renew", "reconnect", "end", "failed"}]
    /\ for \in [Thread -> Host \union {NoHost}]
    /\ ip \in [Thread -> 0 .. Rotations + 1]
    /\ count \in 0 .. Every - 1 /\ cleaned \in 0 .. now
    /\ lock \in Thread \union {Nobody}
    /\ \A t \in Thread : lock = t <=> pc[t] \in {"resolve", "store"}

\* "Prevent unbounded growth" (transport.py:35): whatever the requests store
\* and the retries store over it, the cache keeps its size.
CacheBounded == Cardinality(Cached) <= Size

\* Requests that found nothing cached and waited for the lock do not look up
\* what the first of them has looked up (transport.py:135-140, 300-307).
LookedUpOnce == \A t \in Thread : pc[t] = "resolve" => ~ Fresh(for[t])

\* "DNS rotation or dead IP: clear cache and retry once" (transport.py:161): a
\* request fails only if its host moved while it was under way, whatever stale
\* address the cache had or other requests put there.
RotationSurvived == \A t \in Thread : pc[t] = "failed" => ~ steady[t]
=============================================================================
