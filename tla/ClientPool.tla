----------------------------- MODULE ClientPool -----------------------------
(***************************************************************************)
(* connection.py: ConnectionPool. Threads get the HTTP client of an origin *)
(* from a shared table that makes clients on demand, keeps a limited       *)
(* number, and closes those it drops. A thread uses its client outside the *)
(* lock. The table is looked up once without the lock; everything else is  *)
(* under it, and is one step here.                                         *)
(***************************************************************************)
EXTENDS Naturals, FiniteSets

CONSTANTS
    Thread, Origin,
    Sizes,          \* values of max_pools; the first one is initial
    Initial,
    Idle,           \* idle_timeout, in uses of the pool
    Clients,        \* bounds of a behaviour: clients made ...
    Uses            \* ... and uses of the pool

\* Assumed of the constants wherever the module is instantiated.
PoolAssumption ==
    /\ Sizes \subseteq Nat \ {0} /\ Initial \in Sizes
    /\ {Idle, Clients, Uses} \subseteq Nat

VARIABLES
    pools,          \* pools[o]: the client of o, 0 if there is none
    last,           \* last[o]: last_used
    max,            \* max_pools
    made,           \* clients made
    open,           \* clients that are not closed
    broken,         \* clients whose close() failed
    pc,             \* pc[t]: "idle", "hit", "miss" or "using"
    for,            \* for[t]: the origin t asks for
    client,         \* client[t]: what t was given
    now             \* uses so far: last_used in order

vars == <<pools, last, max, made, open, broken, pc, for, client, now>>

NoOrigin == "none"

Pooled == {o \in Origin : pools[o] # 0}
Held == {pools[o] : o \in Pooled}

Init ==
    /\ pools = [o \in Origin |-> 0] /\ last = [o \in Origin |-> 0]
    /\ max = Initial /\ made = 0 /\ open = {} /\ broken = {} /\ now = 0
    /\ pc = [t \in Thread |-> "idle"] /\ for = [t \in Thread |-> NoOrigin]
    /\ client = [t \in Thread |-> 0]

-----------------------------------------------------------------------------
(* get_client *)

Look(t, o) ==
    /\ pc[t] = "idle" /\ now < Uses
    /\ for' = [for EXCEPT ![t] = o]
    /\ pc' = [pc EXCEPT ![t] = IF pools[o] # 0 THEN "hit" ELSE "miss"]
    /\ UNCHANGED <<pools, last, max, made, open, broken, client, now>>

Hand(t, c) ==
    /\ pc' = [pc EXCEPT ![t] = "using"] /\ client' = [client EXCEPT ![t] = c]
    /\ now' = now + 1 /\ last' = [last EXCEPT ![for[t]] = now + 1]

Hit(t) ==
    LET o == for[t] IN
    /\ pc[t] \in {"hit", "miss"} /\ pools[o] # 0
    /\ Hand(t, pools[o])
    /\ UNCHANGED <<pools, max, made, open, broken, for>>

\* Gone since the first look: on to the slow path.
FallThrough(t) ==
    /\ pc[t] = "hit" /\ pools[for[t]] = 0
    /\ pc' = [pc EXCEPT ![t] = "miss"]
    /\ UNCHANGED <<pools, last, max, made, open, broken, for, client, now>>

Oldest == {o \in Pooled : \A p \in Pooled : last[o] <= last[p]}

\* _evict_oldest_pool, before a client is made at capacity.
Evicted == IF Cardinality(Pooled) >= max THEN {{o} : o \in Oldest} ELSE {{}}

Without(O) == [o \in Origin |-> IF o \in O THEN 0 ELSE pools[o]]

\* close() may fail; whatever it does, eviction drops the client.
Closes(O) ==
    \E bad \in SUBSET O :
        /\ open' = open \ {pools[o] : o \in O \ bad}
        /\ broken' = broken \union {pools[o] : o \in bad}

Miss(t) ==
    /\ pc[t] = "miss" /\ pools[for[t]] = 0 /\ made < Clients
    /\ \E O \in Evicted :
        /\ \E bad \in SUBSET O :
            /\ open' = (open \ {pools[o] : o \in O \ bad}) \union {made + 1}
            /\ broken' = broken \union {pools[o] : o \in bad}
        /\ pools' = [Without(O) EXCEPT ![for[t]] = made + 1]
    /\ made' = made + 1 /\ Hand(t, made + 1)
    /\ UNCHANGED <<max, for>>

EndUse(t) ==
    /\ pc[t] = "using"
    /\ pc' = [pc EXCEPT ![t] = "idle"] /\ client' = [client EXCEPT ![t] = 0]
    /\ for' = [for EXCEPT ![t] = NoOrigin]
    /\ UNCHANGED <<pools, last, max, made, open, broken, now>>

-----------------------------------------------------------------------------
(* The other operations *)

\* Variant: the table is emptied first, and what it held is lost.
CloseAllEmptied ==
    /\ Pooled # {} /\ pools' = [o \in Origin |-> 0]
    /\ UNCHANGED <<last, max, made, open, broken, pc, for, client, now>>

CloseAll ==
    /\ Pooled # {} /\ Closes(Pooled)
    /\ pools' = [o \in Origin |-> 0]
    /\ UNCHANGED <<last, max, made, pc, for, client, now>>

\* Here a client whose close() failed stays in the table.
ClearIdle ==
    LET idle == {o \in Pooled : now - last[o] > Idle} IN
    /\ idle # {}
    /\ \E bad \in SUBSET idle :
        /\ open' = open \ {pools[o] : o \in idle \ bad}
        /\ broken' = broken \union {pools[o] : o \in bad}
        /\ pools' = Without(idle \ bad)
    /\ UNCHANGED <<last, max, made, pc, for, client, now>>

\* The excess is evicted, the least recently used first.
Resize(n) ==
    /\ n # max /\ max' = n
    /\ \E O \in SUBSET Pooled :
        /\ Cardinality(O) = IF n < Cardinality(Pooled) THEN Cardinality(Pooled) - n ELSE 0
        /\ \A o \in O, p \in Pooled \ O : last[o] <= last[p]
        /\ Closes(O) /\ pools' = Without(O)
    /\ UNCHANGED <<last, made, pc, for, client, now>>

Next ==
    \/ \E t \in Thread :
        \/ Hit(t) \/ FallThrough(t) \/ Miss(t) \/ EndUse(t)
        \/ \E o \in Origin : Look(t, o)
    \/ CloseAll \/ ClearIdle \/ \E n \in Sizes : Resize(n)

Spec == Init /\ [][Next]_vars

-----------------------------------------------------------------------------
(* Properties *)

TypeOK ==
    /\ pools \in [Origin -> 0 .. Clients] /\ max \in Sizes
    /\ open \subseteq 1 .. made /\ broken \subseteq 1 .. made
    /\ pc \in [Thread -> {"idle", "hit", "miss", "using"}]
    /\ client \in [Thread -> 0 .. made]
    /\ \A t \in Thread : pc[t] = "using" <=> client[t] # 0

\* Every open client is in the table, and the table holds open clients only
\* (connection.py:126, 207-214, 307-318): none is made twice for one origin and
\* lost, none is dropped and left open, and a closed one is never handed out.
\* Those whose close() failed are open or not, and are let go.
OpenClientsTracked == Held \ broken = open \ broken

\* "Bounded at max_pools" (connection.py:213), also while many threads ask for
\* new origins at once and after the limit was lowered.
PoolsBounded == Cardinality(Pooled) <= max
=============================================================================
