------------------------- MODULE Connections_proofs -------------------------
(***************************************************************************)
(* For any number of threads, hosts, callers, runs and checks, and any     *)
(* intervals, limits and sizes: everything the parts behind a request      *)
(* promise. A part that moves leaves the others alone, so the invariant is *)
(* the conjunction of one inductive invariant for each part (IInv):        *)
(*  - BudgetInv counts slots by who holds them: a request, a submission or *)
(*    a task;                                                              *)
(*  - PoolInv says that no two origins share a client, and that a client   *)
(*    that works is in the table;                                          *)
(*  - SessionInv counts the checks of a loop and says who names a client;  *)
(*  - AddressInv says what a request or a lookup in flight knows;          *)
(*  - HealthInv relates the list of a run and the file to all incidents:   *)
(*    the one is the end of the other (Truncated), or at least an          *)
(*    injective selection of it (Among);                                   *)
(*  - HeldInv spaces the starts; ReservedInv gives every start, and every  *)
(*    sleeper, a place an interval from the others, and says that the      *)
(*    sleepers cover the time up to the last place (Covered); SpentInv     *)
(*    keeps the instants the bytes were paid with (Taken).                 *)
(* The intervals behind two places are disjoint sets of instants: counting *)
(* such sets bounds how soon requests follow, how long a caller sleeps and *)
(* how many bytes pass, whatever the order of the callers.                 *)
(***************************************************************************)
EXTENDS Connections, FiniteSetTheorems, SequenceTheorems, TLAPS

-----------------------------------------------------------------------------
(* Counting *)

\* One element more.
LEMMA CountMore ==
    ASSUME NEW S, NEW T, NEW x, IsFiniteSet(S), x \notin S, T = S \union {x}
    PROVE  IsFiniteSet(T) /\ Cardinality(T) = Cardinality(S) + 1
  BY FS_AddElement

\* One element less.
LEMMA CountLess ==
    ASSUME NEW S, NEW T, NEW x, IsFiniteSet(S), x \in S, T = S \ {x}
    PROVE  /\ IsFiniteSet(T) /\ Cardinality(T) = Cardinality(S) - 1
           /\ Cardinality(S) >= 1
  BY FS_RemoveElement, FS_CardinalityType

-----------------------------------------------------------------------------
(* The thread budget *)

Holding == {r \in Thread : request[r] \in {"held", "streaming"}}
Slotted == {s \in Submitter : submit[s] = "slot"}
Tasked == {s \in Submitter : task[s] # "none"}
Trying == {s \in Submitter : submit[s] = "trying"}
Asleep == {s \in Submitter : submit[s] = "waiting"}

\* SlotsConserved and FreeSlotOffered in the terms above; and a submission that
\* is under way has no task yet, so that a slot turned into a task is counted once.
BudgetInv ==
    /\ Budget!TypeOK
    /\ active = Cardinality(Holding) + Cardinality(Slotted) + Cardinality(Tasked)
    /\ Asleep # {} /\ ~shut => Limit - active <= Cardinality(Trying)
    /\ \A s \in Submitter : submit[s] \in {"trying", "waiting", "slot"} => task[s] = "none"

\* ThreadBudget counts as this module does.
LEMMA BudgetCounts ==
    \A S : (Budget!IsFiniteSet(S) <=> IsFiniteSet(S)) /\ Budget!Cardinality(S) = Cardinality(S)
  BY DEF Budget!IsFiniteSet, IsFiniteSet, Budget!Cardinality, Cardinality

\* The invariant of the budget in the words of its module.
LEMMA BudgetImplies ==
    BudgetInv => Budget!TypeOK /\ Budget!SlotsConserved /\ Budget!FreeSlotOffered
  BY BudgetCounts
  DEF BudgetInv, Budget!SlotsConserved, Budget!FreeSlotOffered, Budget!Waiting,
      Holding, Slotted, Tasked, Trying, Asleep

\* Threads are finitely many, and so are the holders of slots.
LEMMA BudgetFinite ==
    /\ \A S : S \subseteq Thread \/ S \subseteq Submitter => IsFiniteSet(S) /\ Cardinality(S) \in Nat
    /\ Limit \in Nat \ {0}
    /\ IsFiniteSet(Holding) /\ Cardinality(Holding) \in Nat
    /\ IsFiniteSet(Slotted) /\ Cardinality(Slotted) \in Nat
    /\ IsFiniteSet(Tasked) /\ Cardinality(Tasked) \in Nat
    /\ IsFiniteSet(Trying) /\ Cardinality(Trying) \in Nat
  <1>1. IsFiniteSet(Thread) /\ IsFiniteSet(Submitter) /\ Limit \in Nat \ {0}
    BY PartsAssumption, BudgetCounts DEF Budget!BudgetAssumption
  <1>2. Holding \in SUBSET Thread /\ Slotted \in SUBSET Submitter /\ Tasked \in SUBSET Submitter
        /\ Trying \in SUBSET Submitter
    BY DEF Holding, Slotted, Tasked, Trying
  <1> QED
    BY <1>1, <1>2, FS_Subset, FS_CardinalityType

\* No slot is held at the start.
LEMMA BudgetInit == Budget!Init => BudgetInv
  <1> SUFFICES ASSUME Budget!Init PROVE BudgetInv
    OBVIOUS
  <1>1. Holding = {} /\ Slotted = {} /\ Tasked = {} /\ Asleep = {}
    BY DEF Budget!Init, Holding, Slotted, Tasked, Asleep
  <1> QED
    BY <1>1, FS_EmptySet, BudgetFinite DEF Budget!Init, BudgetInv, Budget!TypeOK

\* A request takes a slot, passes it to a stream, or gives it back and wakes all.
LEMMA BudgetRequest ==
    ASSUME BudgetInv, NEW r \in Thread,
           Budget!Acquire(r) \/ Budget!Stream(r) \/ Budget!Return(r) \/ Budget!Close(r)
    PROVE  BudgetInv'
  <1> USE BudgetFinite DEF BudgetInv, Budget!TypeOK, Budget!poolVars
  <1>1. CASE Budget!Acquire(r)
    <2> USE <1>1 DEF Budget!Acquire
    <2>1. Holding' = Holding \union {r} /\ r \notin Holding
      BY DEF Holding
    <2>2. Cardinality(Holding') = Cardinality(Holding) + 1
      BY <2>1, CountMore
    <2>3. Slotted' = Slotted /\ Tasked' = Tasked /\ Trying' = Trying /\ Asleep' = Asleep
      BY DEF Slotted, Tasked, Trying, Asleep
    <2> QED
      BY <2>2, <2>3
  <1>2. CASE Budget!Stream(r)
    <2> USE <1>2 DEF Budget!Stream
    <2>1. Holding' = Holding
      BY DEF Holding
    <2>2. Slotted' = Slotted /\ Tasked' = Tasked /\ Trying' = Trying /\ Asleep' = Asleep
      BY DEF Slotted, Tasked, Trying, Asleep
    <2> QED
      BY <2>1, <2>2
  <1>3. CASE Budget!Return(r) \/ Budget!Close(r)
    <2> USE <1>3 DEF Budget!Return, Budget!Close, Budget!NotifyAll, Budget!Woken, Budget!Waiting
    <2>1. Holding' = Holding \ {r} /\ r \in Holding
      BY DEF Holding
    <2>2. Cardinality(Holding') = Cardinality(Holding) - 1 /\ Cardinality(Holding) >= 1
      BY <2>1, CountLess
    <2>3. Slotted' = Slotted /\ Tasked' = Tasked /\ Asleep' = {}
      BY DEF Slotted, Tasked, Asleep
    <2> QED
      BY <2>2, <2>3
  <1> QED
    BY <1>1, <1>2, <1>3

\* A submission asks for a slot, takes it, sleeps or gives up.
LEMMA BudgetSubmission ==
    ASSUME BudgetInv, NEW s \in Submitter, Budget!Submit(s) \/ Budget!Try(s) \/ Budget!Poll(s)
    PROVE  BudgetInv'
  <1> USE BudgetFinite DEF BudgetInv, Budget!TypeOK, Budget!poolVars
  <1>1. CASE Budget!Submit(s)
    <2>a. /\ submit' = [submit EXCEPT ![s] = "raised"] \/ submit' = [submit EXCEPT ![s] = "trying"]
          /\ submit[s] \in {"none", "given", "raised"} /\ task[s] = "none"
          /\ UNCHANGED <<active, shut, pool, request, task>> /\ expired' = expired \ {s}
      BY <1>1 DEF Budget!Submit
    <2>1. Holding' = Holding /\ Slotted' = Slotted /\ Tasked' = Tasked /\ Asleep' = Asleep
      BY <2>a DEF Holding, Slotted, Tasked, Asleep
    <2>2. Trying' = Trying \/ (Trying' = Trying \union {s} /\ s \notin Trying)
      BY <2>a DEF Trying
    <2>3. CASE Trying' = Trying
      BY <2>a, <2>1, <2>3
    <2>4. CASE Trying' = Trying \union {s} /\ s \notin Trying
      <3>1. Cardinality(Trying') = Cardinality(Trying) + 1
        BY <2>4, CountMore
      <3> QED
        BY <2>a, <2>1, <3>1
    <2> QED
      BY <2>2, <2>3, <2>4
  <1>2. CASE Budget!Try(s) /\ submit'[s] = "slot"
    <2> USE <1>2 DEF Budget!Try
    <2>1. /\ active' = active + 1 /\ active < Limit
          /\ submit' = [submit EXCEPT ![s] = "slot"] /\ submit[s] = "trying"
      OBVIOUS
    <2>2. Holding' = Holding /\ Tasked' = Tasked /\ Asleep' = Asleep
      BY DEF Holding, Tasked, Asleep
    <2>3. /\ Slotted' = Slotted \union {s} /\ s \notin Slotted
          /\ Trying' = Trying \ {s} /\ s \in Trying
      BY DEF Slotted, Trying
    <2>4. /\ Cardinality(Slotted') = Cardinality(Slotted) + 1
          /\ Cardinality(Trying') = Cardinality(Trying) - 1
      BY <2>3, CountMore, CountLess
    <2> QED
      BY <2>1, <2>2, <2>4
  <1>3. CASE Budget!Try(s) /\ submit'[s] # "slot"
    <2>1. /\ active' = active /\ (shut \/ active = Limit)
          /\ submit' = [submit EXCEPT ![s] = "raised"] \/ submit' = [submit EXCEPT ![s] = "waiting"]
          /\ submit[s] = "trying" /\ UNCHANGED <<shut, pool, expired, request, task>>
      BY <1>3 DEF Budget!Try
    <2>2. Holding' = Holding /\ Slotted' = Slotted /\ Tasked' = Tasked
      BY <2>1 DEF Holding, Slotted, Tasked
    <2>3. Cardinality(Trying') \in Nat
      BY DEF Trying
    <2> QED
      BY <2>1, <2>2, <2>3
  <1>4. CASE Budget!Poll(s)
    <2> USE <1>4 DEF Budget!Poll
    <2>1. Holding' = Holding /\ Slotted' = Slotted /\ Tasked' = Tasked /\ Asleep # {}
      BY DEF Holding, Slotted, Tasked, Asleep
    <2>2. Trying' = Trying \union {s} /\ s \notin Trying
      BY DEF Trying
    <2>3. Cardinality(Trying') = Cardinality(Trying) + 1
      BY <2>2, CountMore
    <2> QED
      BY <2>1, <2>3
  <1> QED
    BY <1>1, <1>2, <1>3, <1>4

\* A slot becomes a task, or is given back; a task runs, and gives it back.
LEMMA BudgetTask ==
    ASSUME BudgetInv, NEW s \in Submitter, Budget!Post(s) \/ Budget!Begin(s) \/ Budget!Done(s)
    PROVE  BudgetInv'
  <1> USE BudgetFinite DEF BudgetInv, Budget!TypeOK
  <1>1. CASE Budget!Post(s) /\ pool = "open"
    <2> USE <1>1 DEF Budget!Post
    <2>1. Holding' = Holding /\ Trying' = Trying /\ Asleep' = Asleep
      BY DEF Holding, Trying, Asleep
    <2>2. /\ Slotted' = Slotted \ {s} /\ s \in Slotted
          /\ Tasked' = Tasked \union {s} /\ s \notin Tasked
      BY DEF Slotted, Tasked
    <2>3. /\ Cardinality(Slotted') = Cardinality(Slotted) - 1
          /\ Cardinality(Tasked') = Cardinality(Tasked) + 1
      BY <2>2, CountMore, CountLess
    <2> QED
      BY <2>1, <2>3
  <1>2. CASE Budget!Post(s) /\ pool # "open"
    <2> USE <1>2 DEF Budget!Post
    <2>1. PICK S \in SUBSET Submitter :
              /\ submit' = Budget!Woken([submit EXCEPT ![s] = "raised"], S)
              /\ \A t \in S : submit[t] = "waiting"
      <3>1. CASE Budget!Waiting = {}
        <4>1. submit' = Budget!Woken([submit EXCEPT ![s] = "raised"], {})
          BY <3>1 DEF Budget!NotifyOne, Budget!Woken
        <4> QED
          BY <4>1
      <3>2. CASE Budget!Waiting # {}
        <4>1. PICK t \in Budget!Waiting : submit' = Budget!Woken([submit EXCEPT ![s] = "raised"], {t})
          BY <3>2 DEF Budget!NotifyOne
        <4> QED
          BY <4>1 DEF Budget!Waiting
      <3> QED
        BY <3>1, <3>2
    <2>2. Holding' = Holding /\ Tasked' = Tasked
      BY DEF Holding, Tasked
    <2>3. Slotted' = Slotted \ {s} /\ s \in Slotted
      BY <2>1 DEF Slotted, Budget!Woken
    <2>4. Cardinality(Slotted') = Cardinality(Slotted) - 1 /\ Cardinality(Slotted) >= 1
      BY <2>3, CountLess
    <2> QED
      BY <2>1, <2>2, <2>4 DEF Budget!Woken
  <1>3. CASE Budget!Begin(s)
    <2> USE <1>3 DEF Budget!Begin
    <2>1. Holding' = Holding /\ Slotted' = Slotted /\ Trying' = Trying /\ Asleep' = Asleep
      BY DEF Holding, Slotted, Trying, Asleep
    <2>2. Tasked' = Tasked
      BY DEF Tasked
    <2> QED
      BY <2>1, <2>2
  <1>4. CASE Budget!Done(s)
    <2> USE <1>4 DEF Budget!Done
    <2>1. Tasked' = Tasked \ {s} /\ s \in Tasked
      BY DEF Tasked
    <2>2. Cardinality(Tasked') = Cardinality(Tasked) - 1 /\ Cardinality(Tasked) >= 1
      BY <2>1, CountLess
    <2>3. Holding' = Holding
      BY DEF Holding
    <2>4. CASE Asleep = {}
      <3>1. submit' = submit
        BY <2>4 DEF Asleep, Budget!Waiting, Budget!NotifyOne
      <3>2. Slotted' = Slotted /\ Asleep' = {}
        BY <3>1, <2>4 DEF Slotted, Asleep
      <3> QED
        BY <2>2, <2>3, <3>1, <3>2
    <2>5. CASE Asleep # {}
      <3>1. PICK t \in Asleep : submit' = Budget!Woken(submit, {t})
        BY <2>5 DEF Asleep, Budget!Waiting, Budget!NotifyOne
      <3>2. Slotted' = Slotted /\ Trying' = Trying \union {t} /\ t \notin Trying
        BY <3>1 DEF Slotted, Trying, Asleep, Budget!Woken
      <3>3. Cardinality(Trying') = Cardinality(Trying) + 1
        BY <3>2, CountMore
      <3> QED
        BY <2>2, <2>3, <2>5, <3>1, <3>2, <3>3 DEF Asleep, Budget!Woken
    <2> QED
      BY <2>4, <2>5
  <1> QED
    BY <1>1, <1>2, <1>3, <1>4

\* shutdown and a thread that gives up.
LEMMA BudgetShutdown ==
    ASSUME BudgetInv, Budget!Shutdown \/ Budget!ClosePool \/ Budget!PoolGone
    PROVE  BudgetInv'
  <1> USE BudgetFinite DEF BudgetInv, Budget!TypeOK
  <1>1. Holding' = Holding /\ Tasked' = Tasked
    BY DEF Budget!Shutdown, Budget!ClosePool, Budget!PoolGone, Holding, Tasked
  <1>2. Slotted' = Slotted
    BY DEF Budget!Shutdown, Budget!ClosePool, Budget!PoolGone, Slotted,
           Budget!NotifyAll, Budget!Woken, Budget!Waiting
  <1> QED
    BY <1>1, <1>2 DEF Budget!Shutdown, Budget!ClosePool, Budget!PoolGone,
                      Budget!NotifyAll, Budget!Woken, Budget!Waiting

\* Every step of the budget keeps its invariant.
LEMMA BudgetStep == BudgetInv /\ Budget!Next => BudgetInv'
  BY BudgetRequest, BudgetSubmission, BudgetTask, BudgetShutdown DEF Budget!Next

-----------------------------------------------------------------------------
(* The pool of clients *)

Pooled == {o \in Origin : pools[o] # 0}

\* OpenClientsTracked and PoolsBounded in the terms above; and no two origins
\* share a client, so that the one that is closed is nobody else's.
PoolInv ==
    /\ Pool!TypeOK /\ clients \in 0 .. Clients
    /\ poolFor \in [Thread -> Origin \union {Pool!NoOrigin}]
    /\ \A t \in Thread : poolPc[t] \in {"hit", "miss"} => poolFor[t] \in Origin
    /\ \A o \in Origin : pools[o] \in 0 .. clients
    /\ \A o, p \in Origin : pools[o] # 0 /\ pools[o] = pools[p] => o = p
    /\ \A o \in Pooled : pools[o] \in open \union broken
    /\ \A c \in open \ broken : \E o \in Pooled : pools[o] = c
    /\ IsFiniteSet(Pooled) /\ Cardinality(Pooled) <= max

\* ClientPool counts as this module does.
LEMMA PoolCounts == \A S : Pool!Cardinality(S) = Cardinality(S)
  BY DEF Pool!Cardinality, Cardinality

\* The invariant of the pool in the words of its module.
LEMMA PoolImplies ==
    PoolInv => Pool!TypeOK /\ Pool!OpenClientsTracked /\ Pool!PoolsBounded
  <1>1. Pool!Pooled = Pooled
    BY DEF Pool!Pooled, Pooled
  <1> QED
    BY <1>1, PoolCounts
    DEF PoolInv, Pool!OpenClientsTracked, Pool!PoolsBounded, Pool!Held, Pooled

\* What is assumed of the pool's constants.
LEMMA PoolConstants ==
    /\ PoolSizes \subseteq Nat \ {0} /\ InitialSize \in PoolSizes /\ Clients \in Nat
  BY PartsAssumption DEF Pool!PoolAssumption

\* No client is open at the start.
LEMMA PoolInit == Pool!Init => PoolInv
  <1> SUFFICES ASSUME Pool!Init PROVE PoolInv
    OBVIOUS
  <1>1. Pooled = {}
    BY DEF Pool!Init, Pooled
  <1> QED
    BY <1>1, FS_EmptySet, PoolConstants DEF Pool!Init, PoolInv, Pool!TypeOK

\* What a thread does without the table.
LEMMA PoolUse ==
    ASSUME PoolInv, NEW t \in Thread,
           \/ Pool!Hit(t) \/ Pool!FallThrough(t) \/ Pool!EndUse(t)
           \/ \E o \in Origin : Pool!Look(t, o)
    PROVE  PoolInv'
  <1>1. /\ UNCHANGED <<pools, max, clients, open, broken>>
        /\ poolPc' \in [Thread -> {"idle", "hit", "miss", "using"}]
        /\ client' \in [Thread -> 0 .. clients]
        /\ \A u \in Thread : poolPc'[u] = "using" <=> client'[u] # 0
        /\ poolFor' \in [Thread -> Origin \union {Pool!NoOrigin}]
        /\ \A u \in Thread : poolPc'[u] \in {"hit", "miss"} => poolFor'[u] \in Origin
    <2> USE DEF PoolInv, Pool!TypeOK
    <2>1. CASE Pool!Hit(t)
      BY <2>1 DEF Pool!Hit, Pool!Hand
    <2>2. CASE Pool!FallThrough(t)
      BY <2>2 DEF Pool!FallThrough
    <2>3. CASE Pool!EndUse(t)
      BY <2>3 DEF Pool!EndUse
    <2>4. ASSUME NEW o \in Origin, Pool!Look(t, o)
          PROVE  <1>1!:
      BY <2>4 DEF Pool!Look
    <2> QED
      BY <2>1, <2>2, <2>3, <2>4
  <1>2. Pooled' = Pooled
    BY <1>1 DEF Pooled
  <1> QED
    BY <1>1, <1>2 DEF PoolInv, Pool!TypeOK

\* Clients of O are closed, but for those of Bad, and the origins in Dropped go.
LEMMA PoolDrop ==
    ASSUME PoolInv, NEW O \in SUBSET Pooled, NEW Bad \in SUBSET O, NEW Out \in SUBSET O,
           O \ Bad \subseteq Out,
           open' = open \ {pools[o] : o \in O \ Bad},
           broken' = broken \union {pools[o] : o \in Bad},
           pools' = [o \in Origin |-> IF o \in Out THEN 0 ELSE pools[o]],
           UNCHANGED <<clients, poolPc, poolFor, client>>,
           max' \in PoolSizes, Cardinality(Pooled \ Out) <= max'
    PROVE  PoolInv'
  <1> USE DEF PoolInv, Pool!TypeOK
  <1>1. Pooled' = Pooled \ Out
    BY DEF Pooled
  <1>2. IsFiniteSet(Pooled')
    BY <1>1, FS_Subset
  <1>3. \A o \in Pooled' : pools'[o] \in open' \union broken'
    BY <1>1 DEF Pooled
  <1>4. \A c \in open' \ broken' : \E o \in Pooled' : pools'[o] = c
    <2> SUFFICES ASSUME NEW c \in open', c \notin broken'
                 PROVE  \E o \in Pooled' : pools'[o] = c
      OBVIOUS
    <2>1. PICK o \in Pooled : pools[o] = c
      OBVIOUS
    <2>2. o \notin Out
      BY <2>1
    <2> QED
      BY <1>1, <2>1, <2>2 DEF Pooled
  <1>5. \A o \in Pooled : pools[o] \in 1 .. clients
    BY DEF Pooled
  <1>6. open' \subseteq 1 .. clients /\ broken' \subseteq 1 .. clients
    BY <1>5
  <1>7. /\ pools' \in [Origin -> 0 .. Clients]
        /\ \A o \in Origin : pools'[o] \in 0 .. clients
        /\ \A o, p \in Origin : pools'[o] # 0 /\ pools'[o] = pools'[p] => o = p
    <2>1. \A o \in Origin : pools'[o] = 0 \/ pools'[o] = pools[o]
      OBVIOUS
    <2>2. pools' \in [Origin -> 0 .. Clients] /\ \A o \in Origin : pools'[o] \in 0 .. clients
      BY <2>1, PoolConstants
    <2> QED
      BY <2>1, <2>2
  <1> QED
    BY <1>1, <1>2, <1>3, <1>4, <1>6, <1>7

\* Closing all, clearing the idle ones, and another size.
LEMMA PoolOthers ==
    ASSUME PoolInv, Pool!CloseAll \/ Pool!ClearIdle \/ \E n \in PoolSizes : Pool!Resize(n)
    PROVE  PoolInv'
  <1>0. /\ Pool!Pooled = Pooled /\ pools \in [Origin -> 0 .. Clients]
        /\ max \in PoolSizes /\ max \in Nat
        /\ IsFiniteSet(Pooled) /\ Cardinality(Pooled) <= max /\ Cardinality(Pooled) \in Nat
    BY PoolConstants, FS_CardinalityType DEF PoolInv, Pool!TypeOK, Pool!Pooled, Pooled
  <1>1. CASE Pool!CloseAll
    <2>1. PICK Bad \in SUBSET Pooled :
              /\ open' = open \ {pools[o] : o \in Pooled \ Bad}
              /\ broken' = broken \union {pools[o] : o \in Bad}
      BY <1>0, <1>1 DEF Pool!CloseAll, Pool!Closes
    <2>2. pools' = [o \in Origin |-> IF o \in Pooled THEN 0 ELSE pools[o]]
      BY <1>1 DEF Pool!CloseAll, Pooled
    <2>3. Cardinality(Pooled \ Pooled) <= max
      BY <1>0, FS_EmptySet
    <2> QED
      BY <1>0, <1>1, <2>1, <2>2, <2>3, PoolDrop DEF Pool!CloseAll
  <1>2. CASE Pool!ClearIdle
    <2> DEFINE O == {o \in Pooled : uses - lastUsed[o] > Idle}
    <2>1. PICK Bad \in SUBSET O :
              /\ open' = open \ {pools[o] : o \in O \ Bad}
              /\ broken' = broken \union {pools[o] : o \in Bad}
              /\ pools' = Pool!Without(O \ Bad)
      BY <1>0, <1>2 DEF Pool!ClearIdle
    <2>2. pools' = [o \in Origin |-> IF o \in O \ Bad THEN 0 ELSE pools[o]]
      BY <2>1 DEF Pool!Without
    <2>3. Cardinality(Pooled \ (O \ Bad)) <= max
      <3>1. IsFiniteSet(Pooled \ (O \ Bad)) /\ Cardinality(Pooled \ (O \ Bad)) <= Cardinality(Pooled)
        BY <1>0, FS_Subset
      <3> QED
        BY <1>0, <3>1, FS_CardinalityType
    <2>4. UNCHANGED <<max, clients, poolPc, poolFor, client>> /\ O \in SUBSET Pooled
      BY <1>2 DEF Pool!ClearIdle
    <2> HIDE DEF O
    <2> QED
      BY <1>0, <2>1, <2>2, <2>3, <2>4, PoolDrop
  <1>3. ASSUME NEW n \in PoolSizes, Pool!Resize(n)
        PROVE  PoolInv'
    <2>1. PICK O \in SUBSET Pooled :
              /\ Cardinality(O) = IF n < Cardinality(Pooled) THEN Cardinality(Pooled) - n ELSE 0
              /\ Pool!Closes(O) /\ pools' = Pool!Without(O)
      BY <1>0, <1>3, PoolCounts DEF Pool!Resize
    <2>2. PICK Bad \in SUBSET O :
              /\ open' = open \ {pools[o] : o \in O \ Bad}
              /\ broken' = broken \union {pools[o] : o \in Bad}
      BY <2>1 DEF Pool!Closes
    <2>3. Cardinality(Pooled \ O) <= n
      <3>1. Pooled \cap O = O
        OBVIOUS
      <3>2. Cardinality(Pooled \ O) = Cardinality(Pooled) - Cardinality(O)
        BY <1>0, <3>1, FS_Difference
      <3> QED
        BY <1>0, <2>1, <3>2, PoolConstants
    <2>4. pools' = [o \in Origin |-> IF o \in O THEN 0 ELSE pools[o]]
      BY <2>1 DEF Pool!Without
    <2>5. UNCHANGED <<clients, poolPc, poolFor, client>> /\ max' = n
      BY <1>3 DEF Pool!Resize
    <2> QED
      BY <2>1, <2>2, <2>3, <2>4, <2>5, PoolDrop
  <1> QED
    BY <1>1, <1>2, <1>3

\* A new client, after the oldest one went if the pool is full.
LEMMA PoolMiss ==
    ASSUME PoolInv, NEW t \in Thread, Pool!Miss(t)
    PROVE  PoolInv'
  <1> DEFINE a == poolFor[t]  new == clients + 1
  <1>0. /\ a \in Origin /\ pools[a] = 0 /\ new \in 1 .. Clients /\ clients' = new /\ max' = max
        /\ Pool!Pooled = Pooled /\ max \in Nat \ {0}
        /\ IsFiniteSet(Pooled) /\ Cardinality(Pooled) \in Nat /\ Cardinality(Pooled) <= max
    BY PoolConstants, FS_CardinalityType
    DEF Pool!Miss, PoolInv, Pool!TypeOK, Pool!Pooled, Pooled
  <1>1. PICK O \in Pool!Evicted :
            /\ \E bad \in SUBSET O :
                /\ open' = (open \ {pools[o] : o \in O \ bad}) \union {new}
                /\ broken' = broken \union {pools[o] : o \in bad}
            /\ pools' = [Pool!Without(O) EXCEPT ![a] = new]
    BY DEF Pool!Miss
  <1>2. PICK Bad \in SUBSET O :
            /\ open' = (open \ {pools[o] : o \in O \ Bad}) \union {new}
            /\ broken' = broken \union {pools[o] : o \in Bad}
    BY <1>1
  <1>3. O \subseteq Pooled /\ Cardinality(Pooled \ O) + 1 <= max
    <2>1. CASE Cardinality(Pooled) >= max
      <3>1. PICK o \in Pooled : O = {o}
        BY <1>0, <1>1, <2>1, PoolCounts DEF Pool!Evicted, Pool!Oldest
      <3>2. Cardinality(Pooled \ {o}) = Cardinality(Pooled) - 1
        BY <1>0, FS_RemoveElement
      <3> QED
        BY <1>0, <3>1, <3>2
    <2>2. CASE ~ (Cardinality(Pooled) >= max)
      <3>1. O = {} /\ Pooled \ O = Pooled
        BY <1>0, <1>1, <2>2, PoolCounts DEF Pool!Evicted
      <3> QED
        BY <1>0, <2>2, <3>1
    <2> QED
      BY <2>1, <2>2
  <1>4. pools' = [o \in Origin |-> IF o = a THEN new ELSE IF o \in O THEN 0 ELSE pools[o]]
    BY <1>0, <1>1 DEF Pool!Without
  <1>5. Pooled' = (Pooled \ O) \union {a} /\ a \notin Pooled
    BY <1>0, <1>4 DEF Pooled
  <1>6. IsFiniteSet(Pooled') /\ Cardinality(Pooled') <= max'
    <2>1. IsFiniteSet(Pooled \ O)
      BY <1>0, FS_Subset
    <2>2. IsFiniteSet(Pooled') /\ Cardinality(Pooled') = Cardinality(Pooled \ O) + 1
      BY <1>5, <2>1, CountMore
    <2> QED
      BY <1>0, <1>3, <2>2
  <1>7. /\ \A o \in Pooled : pools[o] \in 1 .. clients
        /\ open \subseteq 1 .. clients /\ broken \subseteq 1 .. clients /\ clients \in Nat
    BY DEF PoolInv, Pool!TypeOK, Pooled
  <1>8. open' \subseteq 1 .. new /\ broken' \subseteq 1 .. new
    <2>1. open' \subseteq open \union {new}
      BY <1>2
    <2>2. broken' \subseteq broken \union (1 .. clients)
      BY <1>2, <1>3, <1>7
    <2> QED
      BY <1>0, <1>7, <2>1, <2>2
  <1>9. /\ pools' \in [Origin -> 0 .. Clients]
        /\ \A o \in Origin : pools'[o] \in 0 .. new
        /\ \A o, p \in Origin : pools'[o] # 0 /\ pools'[o] = pools'[p] => o = p
    <2>1. \A o \in Origin : pools'[o] = 0 \/ pools'[o] = pools[o] \/ (o = a /\ pools'[o] = new)
      BY <1>4
    <2>2. \A o \in Origin : pools[o] \in 0 .. clients
      BY DEF PoolInv
    <2>3. \A o \in Origin : pools'[o] \in 0 .. Clients /\ pools'[o] \in 0 .. new
      BY <1>0, <1>7, <2>1, <2>2, PoolConstants
    <2> QED
      BY <1>0, <1>4, <1>7, <2>1, <2>2, <2>3 DEF PoolInv
  <1>10. \A o \in Pooled' : pools'[o] \in open' \union broken'
    BY <1>0, <1>2, <1>3, <1>4, <1>5, <1>7 DEF PoolInv, Pooled
  <1>11. \A c \in open' \ broken' : \E o \in Pooled' : pools'[o] = c
    <2> SUFFICES ASSUME NEW c \in open', c \notin broken'
                 PROVE  \E o \in Pooled' : pools'[o] = c
      OBVIOUS
    <2>1. CASE c = new
      BY <1>0, <1>4, <1>5, <2>1
    <2>2. CASE c # new
      <3>1. PICK o \in Pooled : pools[o] = c
        BY <1>2, <2>2 DEF PoolInv
      <3>2. o \notin O
        BY <1>2, <3>1, <2>2
      <3> QED
        BY <1>4, <1>5, <3>1, <3>2 DEF Pooled
    <2> QED
      BY <2>1, <2>2
  <1>12. /\ poolPc' = [poolPc EXCEPT ![t] = "using"] /\ client' = [client EXCEPT ![t] = new]
         /\ poolFor' = poolFor
    BY DEF Pool!Miss, Pool!Hand
  <1>13. Pool!TypeOK'
    BY <1>0, <1>7, <1>8, <1>9, <1>12 DEF PoolInv, Pool!TypeOK
  <1> QED
    BY <1>0, <1>6, <1>9, <1>10, <1>11, <1>12, <1>13 DEF PoolInv

\* Every step of the pool keeps its invariant.
LEMMA PoolStep == PoolInv /\ Pool!Next => PoolInv'
  BY PoolUse, PoolOthers, PoolMiss DEF Pool!Next

-----------------------------------------------------------------------------
(* Sessions of asynchronous checks *)

Begun == {t \in Check : check[t] # "none"}
InCheck == {t \in Check : check[t] = "running"}

SessionTypes ==
    /\ step \in {"idle", "made", "checks", "leaving", "unwinding", "left"}
    /\ frozen \in BOOLEAN /\ cleaner \in {"none", "tasks", "client", "done"}
    /\ check \in [Check -> {"none", "running", "ended"}]
    /\ removals \in [Check -> 0 .. 2]
    /\ stopped \in BOOLEAN /\ taskLock \in {"none", "checks", "cleanup"}
    /\ closed \in BOOLEAN /\ held \in BOOLEAN /\ headClient \in {"none", "open", "closed"}

\* Only a check that ended is removed; what the manager tracks has begun, and
\* its numbers differ by what it tracks.
ChecksCounted ==
    /\ \A t \in Check : removals[t] > 0 => check[t] = "ended"
    /\ tracked \subseteq Begun /\ completed \in Nat
    /\ created = completed + Cardinality(tracked) /\ created <= Cardinality(Begun)

\* Before a signal: checks run between the entry and the exit only, with an open
\* client, and each is tracked until it is removed.
BeforeSignal ==
    /\ ~ frozen /\ step \in {"idle", "made", "checks", "leaving"}
    /\ InCheck \subseteq tracked
    /\ \A t \in tracked : check[t] = "running" \/ removals[t] > 0
    /\ step # "checks" => InCheck = {}
    /\ step \in {"made", "checks"} => ~ closed
    /\ step = "checks" => headClient = "open"
    /\ step = "leaving" => headClient = "closed"

\* After it the main thread stands still until its handler exits. An open client
\* is named by its manager, and no manager names one outside the checks.
SessionInv ==
    /\ SessionTypes /\ ChecksCounted
    /\ cleaner = "none" => BeforeSignal
    /\ cleaner # "none" => frozen \/ step \in {"unwinding", "left"}
    /\ headClient = "open" => held
    /\ step \in {"idle", "made", "left"} => ~ held

\* AsyncSession counts as this module does.
LEMMA SessionCounts ==
    \A S : (Session!IsFiniteSet(S) <=> IsFiniteSet(S)) /\ Session!Cardinality(S) = Cardinality(S)
  BY DEF Session!IsFiniteSet, IsFiniteSet, Session!Cardinality, Cardinality

\* Checks are finitely many.
LEMMA SessionFinite ==
    IsFiniteSet(Check) /\ \A S \in SUBSET Check : IsFiniteSet(S) /\ Cardinality(S) \in Nat
                                               /\ Cardinality(S) <= Cardinality(Check)
  BY PartsAssumption, SessionCounts, FS_Subset, FS_CardinalityType DEF Session!SessionAssumption

\* The invariant of the sessions in the words of their module.
LEMMA SessionImplies ==
    SessionInv =>
        /\ Session!TypeOK /\ Session!ClientOutlivesChecks
        /\ Session!TasksForgotten /\ Session!ClosedInTheEnd
  <1> SUFFICES ASSUME SessionInv
               PROVE  /\ Session!TypeOK /\ Session!ClientOutlivesChecks
                      /\ Session!TasksForgotten /\ Session!ClosedInTheEnd
    OBVIOUS
  <1>1. /\ tracked \subseteq Check /\ Cardinality(tracked) \in Nat
        /\ Cardinality(Begun) \in Nat /\ Cardinality(Begun) <= Cardinality(Check)
        /\ Cardinality(Check) \in Nat
    BY SessionFinite DEF SessionInv, ChecksCounted, Begun
  <1>2. Session!TypeOK
    BY <1>1, SessionCounts DEF Session!TypeOK, SessionInv, SessionTypes, ChecksCounted
  <1>3. Session!ClientOutlivesChecks
    BY DEF Session!ClientOutlivesChecks, Session!Running, SessionInv, BeforeSignal, InCheck
  <1>4. Session!TasksForgotten
    BY <1>1, SessionCounts
    DEF Session!TasksForgotten, SessionInv, BeforeSignal, ChecksCounted, InCheck
  <1>5. Session!ClosedInTheEnd
    BY DEF Session!ClosedInTheEnd, SessionInv
  <1> QED
    BY <1>2, <1>3, <1>4, <1>5

\* No check has begun at the start.
LEMMA SessionInit == Session!Init => SessionInv
  <1> SUFFICES ASSUME Session!Init PROVE SessionInv
    OBVIOUS
  <1>1. Begun = {} /\ InCheck = {} /\ tracked = {}
    BY DEF Session!Init, Session!Untracked, Begun, InCheck
  <1>2. SessionTypes
    <2>1. frozen \in BOOLEAN /\ stopped \in BOOLEAN /\ closed \in BOOLEAN /\ held \in BOOLEAN
      BY Zenon DEF Session!Init
    <2>2. check \in [Check -> {"none", "running", "ended"}] /\ removals \in [Check -> 0 .. 2]
      BY DEF Session!Init, Session!Untracked, Session!NoRemoval
    <2> QED
      BY <2>1, <2>2 DEF Session!Init, SessionTypes
  <1>3. ChecksCounted
    <2>1. \A t \in Check : removals[t] = 0
      BY DEF Session!Init, Session!NoRemoval
    <2> QED
      BY <1>1, <2>1, FS_EmptySet DEF Session!Init, ChecksCounted
  <1>4. BeforeSignal
    BY <1>1 DEF Session!Init, BeforeSignal
  <1> QED
    BY <1>2, <1>3, <1>4 DEF Session!Init, SessionInv

\* The steps that leave the checks and their numbers alone.
LEMMA SessionRest ==
    ASSUME SessionInv,
           \/ Session!Enter \/ Session!Leave \/ Session!Left \/ Session!Signal
           \/ Session!HandlerExits \/ Session!UnwindExit \/ Session!CloseClient
    PROVE  SessionInv'
  <1> USE DEF Session!clientVars, Session!taskVars, Session!Closes, Session!LoopOpen
  <1>1. UNCHANGED <<check, removals, tracked, created, completed, stopped, taskLock>>
    BY DEF Session!Enter, Session!Leave, Session!Left, Session!Signal,
           Session!HandlerExits, Session!UnwindExit, Session!CloseClient
  <1>2. ChecksCounted' /\ InCheck' = InCheck
    BY <1>1 DEF SessionInv, ChecksCounted, Begun, InCheck
  <1>3. CASE Session!Enter
    <2>1. cleaner = "none" /\ InCheck = {}
      BY <1>3 DEF Session!Enter, SessionInv, BeforeSignal
    <2>2. held' \in BOOLEAN /\ held'
      BY <1>3, Zenon DEF Session!Enter
    <2>3. closed' = closed /\ ~ closed
      BY <1>3 DEF Session!Enter, SessionInv, BeforeSignal
    <2> QED
      BY <1>1, <1>2, <1>3, <2>1, <2>2, <2>3 DEF Session!Enter, SessionInv, SessionTypes, BeforeSignal
  <1>4. CASE Session!Leave
    <2>1. InCheck = {}
      BY <1>4 DEF Session!Leave, Session!Running, InCheck
    <2> QED
      BY <1>1, <1>2, <1>4, <2>1 DEF Session!Leave, SessionInv, SessionTypes, BeforeSignal
  <1>5. CASE Session!Left
    BY <1>1, <1>2, <1>5 DEF Session!Left, SessionInv, SessionTypes, BeforeSignal
  <1>6. CASE Session!Signal
    BY <1>1, <1>2, <1>6 DEF Session!Signal, SessionInv, SessionTypes, BeforeSignal
  <1>7. CASE Session!HandlerExits
    BY <1>1, <1>2, <1>7 DEF Session!HandlerExits, SessionInv, SessionTypes, BeforeSignal
  <1>8. CASE Session!UnwindExit
    BY <1>1, <1>2, <1>8 DEF Session!UnwindExit, SessionInv, SessionTypes, BeforeSignal
  <1>9. CASE Session!CloseClient
    BY <1>1, <1>2, <1>9 DEF Session!CloseClient, SessionInv, SessionTypes, BeforeSignal
  <1> QED
    BY <1>3, <1>4, <1>5, <1>6, <1>7, <1>8, <1>9

\* A new loop for the next batch starts with no check.
LEMMA SessionRecreate ==
    ASSUME SessionInv, Session!Recreate
    PROVE  SessionInv'
  <1> USE DEF Session!Recreate
  <1>1. Begun' = {} /\ InCheck' = {}
    BY DEF Begun, InCheck, Session!Untracked
  <1>2. SessionTypes'
    <2>1. frozen' \in BOOLEAN /\ stopped' \in BOOLEAN /\ closed' \in BOOLEAN /\ held' \in BOOLEAN
      BY Zenon DEF SessionInv, SessionTypes
    <2>2. check' \in [Check -> {"none", "running", "ended"}] /\ removals' \in [Check -> 0 .. 2]
      BY DEF Session!Untracked, Session!NoRemoval
    <2> QED
      BY <2>1, <2>2 DEF SessionInv, SessionTypes
  <1>3. ChecksCounted'
    <2>1. \A t \in Check : removals'[t] = 0
      BY DEF Session!NoRemoval
    <2> QED
      BY <1>1, <2>1, FS_EmptySet DEF ChecksCounted
  <1>4. cleaner = "none" /\ BeforeSignal'
    BY <1>1 DEF SessionInv, BeforeSignal
  <1> QED
    BY <1>2, <1>3, <1>4 DEF SessionInv

\* A check is created, ends, and is forgotten by its callback.
LEMMA SessionTask ==
    ASSUME SessionInv, NEW t \in Check,
           Session!CreateTask(t) \/ Session!TaskDone(t) \/ Session!RemoveTask(t)
    PROVE  SessionInv'
  <1> USE DEF Session!clientVars, Session!LoopOpen
  <1>0. /\ tracked \in SUBSET Check /\ IsFiniteSet(tracked) /\ Cardinality(tracked) \in Nat
        /\ IsFiniteSet(Begun) /\ Cardinality(Begun) \in Nat
    BY SessionFinite DEF SessionInv, ChecksCounted, Begun
  <1>1. CASE Session!CreateTask(t)
    <2> USE <1>1 DEF Session!CreateTask
    <2>1. /\ Begun' = Begun \union {t} /\ t \notin Begun
          /\ tracked' = tracked \union {t} /\ t \notin tracked
      BY DEF Begun, SessionInv, SessionTypes, ChecksCounted
    <2>2. /\ Cardinality(Begun') = Cardinality(Begun) + 1
          /\ Cardinality(tracked') = Cardinality(tracked) + 1
      BY <1>0, <2>1, CountMore
    <2>3. SessionTypes'
      BY DEF SessionInv, SessionTypes
    <2>4. ChecksCounted'
      <3>1. removals[t] = 0
        BY DEF SessionInv, SessionTypes, ChecksCounted
      <3> QED
        BY <1>0, <2>1, <2>2, <3>1 DEF SessionInv, SessionTypes, ChecksCounted
    <2>5. BeforeSignal => BeforeSignal'
      BY DEF SessionInv, SessionTypes, BeforeSignal, InCheck
    <2> QED
      BY <2>3, <2>4, <2>5 DEF SessionInv
  <1>2. CASE Session!TaskDone(t)
    <2> USE <1>2 DEF Session!TaskDone
    <2>1. Begun' = Begun
      BY DEF Begun, SessionInv, SessionTypes
    <2>2. PICK n \in {1, 2} : removals' = [removals EXCEPT ![t] = n]
      OBVIOUS
    <2>3. SessionTypes'
      BY <2>2 DEF SessionInv, SessionTypes
    <2>4. ChecksCounted'
      BY <2>1, <2>2 DEF SessionInv, SessionTypes, ChecksCounted
    <2>5. BeforeSignal => BeforeSignal'
      BY <2>2 DEF SessionInv, SessionTypes, BeforeSignal, InCheck
    <2> QED
      BY <2>3, <2>4, <2>5 DEF SessionInv
  <1>3. CASE Session!RemoveTask(t)
    <2> USE <1>3 DEF Session!RemoveTask
    <2>1. Begun' = Begun /\ InCheck' = InCheck /\ t \notin InCheck
      BY DEF Begun, InCheck, SessionInv, SessionTypes, ChecksCounted
    <2>2. SessionTypes'
      BY DEF SessionInv, SessionTypes
    <2>3. tracked' = tracked \ {t}
      OBVIOUS
    <2>4. created' = completed' + Cardinality(tracked') /\ completed' \in Nat
      <3>1. CASE t \in tracked
        <4>1. Cardinality(tracked') = Cardinality(tracked) - 1
          BY <1>0, <2>3, <3>1, CountLess
        <4> QED
          BY <1>0, <3>1, <4>1 DEF SessionInv, ChecksCounted
      <3>2. CASE t \notin tracked
        BY <3>2 DEF SessionInv, ChecksCounted
      <3> QED
        BY <3>1, <3>2
    <2>5. ChecksCounted'
      BY <2>1, <2>3, <2>4 DEF SessionInv, SessionTypes, ChecksCounted
    <2>6. BeforeSignal => BeforeSignal'
      BY <2>1, <2>3 DEF SessionInv, SessionTypes, BeforeSignal
    <2> QED
      BY <2>2, <2>5, <2>6 DEF SessionInv
  <1> QED
    BY <1>1, <1>2, <1>3

\* The shutdown waits for the tasks, or the loop unwinds.
LEMMA SessionShutdown ==
    ASSUME SessionInv, Session!UnwindLoop \/ Session!ShutdownTasks
    PROVE  SessionInv'
  <1> USE DEF Session!clientVars
  <1>0. tracked \in SUBSET Check /\ Cardinality(tracked) \in Nat /\ Cardinality(Begun) \in Nat
    BY SessionFinite DEF SessionInv, ChecksCounted, Begun
  <1>1. CASE Session!UnwindLoop
    <2>1. Begun' = Begun
      BY <1>1 DEF Session!UnwindLoop, Begun
    <2> QED
      BY <1>1, <2>1
      DEF Session!UnwindLoop, Session!NoRemoval, SessionInv, SessionTypes, ChecksCounted, BeforeSignal
  <1>2. CASE Session!ShutdownTasks
    <2>1. Begun' = Begun
      BY <1>2 DEF Session!ShutdownTasks, Begun
    <2>2. ChecksCounted'
      BY <1>0, <1>2, <2>1, FS_EmptySet
      DEF Session!ShutdownTasks, Session!Forgotten, SessionInv, ChecksCounted
    <2> QED
      BY <1>2, <2>2
      DEF Session!ShutdownTasks, Session!Forgotten, SessionInv, SessionTypes, BeforeSignal
  <1> QED
    BY <1>1, <1>2

\* Every step of a session keeps its invariant.
LEMMA SessionStep == SessionInv /\ Session!Next => SessionInv'
  BY SessionRest, SessionRecreate, SessionTask, SessionShutdown DEF Session!Next, Session!Checks

-----------------------------------------------------------------------------
(* The address caches *)

Nothing == [ip |-> 0, at |-> 0]
Cached == {h \in Host : cache[h] # Nothing}

AddressTypes ==
    /\ cache \in [Host -> [ip : 0 .. Rotations + 1, at : 0 .. now]]
    /\ addressPc \in [Thread -> {"idle", "clean", "look", "wait", "resolve", "store",
            "connect", "forget", "again", "renew", "reconnect", "end", "failed"}]
    /\ addressFor \in [Thread -> Host \union {"none"}]
    /\ ip \in [Thread -> 0 .. Rotations + 1] /\ dns \in [Host -> 1 .. Rotations + 1]
    /\ count \in 0 .. SweepEvery - 1 /\ now \in Nat /\ cleaned \in 0 .. now
    /\ cacheLock \in Thread \union {"nobody"}
    /\ \A t \in Thread : cacheLock = t <=> addressPc[t] \in {"resolve", "store"}
    /\ steady \in [Thread -> BOOLEAN]

\* A request names its host; one that resolves found nothing cached, and nobody
\* stores meanwhile; one that retries has the host's present address, or the
\* host moved after the request began.
RequestsKnow(async) ==
    /\ \A t \in Thread : addressPc[t] # "idle" => addressFor[t] \in Host
    /\ \A t \in Thread : addressPc[t] = "resolve" => cache[addressFor[t]] = Nothing
    /\ async => \A t \in Thread : addressPc[t] \notin {"forget", "again", "renew", "reconnect"}
    /\ ~ async => \A t \in Thread : steady[t] =>
            /\ addressPc[t] \in {"renew", "reconnect"} => ip[t] = dns[addressFor[t]]
            /\ addressPc[t] # "failed"

AddressInv(async) ==
    /\ AddressTypes /\ RequestsKnow(async)
    /\ IsFiniteSet(Cached) /\ Cardinality(Cached) <= CacheSize

\* AddressCache counts as this module does.
LEMMA AddressCounts == \A a, S : Addresses(a)!Cardinality(S) = Cardinality(S)
  BY DEF Addresses!Cardinality, Cardinality

\* What is assumed of the caches' constants.
LEMMA AddressConstants ==
    /\ "nobody" \notin Thread /\ {TTL, CacheSize, Dropped, SweepEvery} \subseteq Nat \ {0}
    /\ Dropped <= CacheSize /\ {SweepInterval, Horizon, Rotations} \subseteq Nat
  BY PartsAssumption DEF Addresses!AddressAssumption, Addresses!Nobody

\* The invariant of a cache in the words of its module.
LEMMA AddressImplies ==
    ASSUME NEW a \in BOOLEAN, AddressInv(a)
    PROVE  /\ Addresses(FALSE)!TypeOK /\ Addresses(a)!LookedUpOnce /\ Addresses(a)!CacheBounded
           /\ ~ a => Addresses(a)!RotationSurvived
  <1> USE DEF AddressInv, AddressTypes, RequestsKnow
  <1>1. Addresses(FALSE)!TypeOK
    BY DEF Addresses!TypeOK, Addresses!NoHost, Addresses!Nobody
  <1>2. Addresses(a)!LookedUpOnce
    BY DEF Addresses!LookedUpOnce, Addresses!Fresh, Addresses!Nothing, Nothing
  <1>3. Addresses(a)!CacheBounded
    <2>1. Addresses(a)!Cached = Cached
      BY DEF Addresses!Cached, Cached, Addresses!Nothing, Nothing
    <2> QED
      BY <2>1, AddressCounts DEF Addresses!CacheBounded
  <1>4. ~ a => Addresses(a)!RotationSurvived
    BY DEF Addresses!RotationSurvived
  <1> QED
    BY <1>1, <1>2, <1>3, <1>4

\* The caches are empty at the start.
LEMMA AddressInit ==
    ASSUME NEW a \in BOOLEAN, Addresses(FALSE)!Init
    PROVE  AddressInv(a)
  <1> USE DEF Addresses!Init
  <1>1. Cached = {}
    BY DEF Cached, Addresses!Nothing, Nothing
  <1>2. AddressTypes
    BY AddressConstants DEF AddressTypes, Addresses!Nothing, Addresses!Nobody, Addresses!NoHost
  <1>3. RequestsKnow(a)
    BY DEF RequestsKnow
  <1> QED
    BY <1>1, <1>2, <1>3, FS_EmptySet, AddressConstants DEF AddressInv

\* An entry is dropped or stays: the cache keeps its size, and what was not
\* cached is not.
LEMMA AddressShrinks ==
    ASSUME NEW a \in BOOLEAN, AddressInv(a), cache' \in [Host -> [ip : 0 .. Rotations + 1, at : 0 .. now]],
           \A h \in Host : cache'[h] \in {cache[h], Nothing}
    PROVE  IsFiniteSet(Cached') /\ Cardinality(Cached') <= CacheSize
  <1>1. Cached' \subseteq Cached
    BY DEF Cached
  <1>2. IsFiniteSet(Cached') /\ Cardinality(Cached') <= Cardinality(Cached)
    BY <1>1, FS_Subset DEF AddressInv
  <1>3. Cardinality(Cached') \in Nat /\ Cardinality(Cached) \in Nat
    BY <1>2, FS_CardinalityType DEF AddressInv
  <1> QED
    BY <1>2, <1>3, AddressConstants DEF AddressInv

\* An entry is stored, after the oldest ones went if the cache is full.
LEMMA AddressGrows ==
    ASSUME NEW a \in BOOLEAN, AddressInv(a), NEW h \in Host, NEW i \in 0 .. Rotations + 1,
           Addresses(a)!Put(h, i)
    PROVE  /\ cache' \in [Host -> [ip : 0 .. Rotations + 1, at : 0 .. now]]
           /\ \A g \in Host \ {h} : cache'[g] \in {cache[g], Nothing}
           /\ IsFiniteSet(Cached') /\ Cardinality(Cached') <= CacheSize
  <1>1. Addresses(a)!Cached = Cached
    BY DEF Addresses!Cached, Cached, Addresses!Nothing, Nothing
  <1>2. /\ Cardinality(Cached) \in Nat /\ CacheSize \in Nat \ {0} /\ Dropped \in Nat \ {0}
        /\ IsFiniteSet(Cached) /\ Cardinality(Cached) <= CacheSize
    BY AddressConstants, FS_CardinalityType DEF AddressInv
  <1>3. PICK O \in SUBSET Cached :
            /\ Cardinality(Cached) >= CacheSize => Cardinality(O) = Dropped
            /\ cache' = [g \in Host |-> IF g = h THEN [ip |-> i, at |-> now]
                                        ELSE IF g \in O THEN Nothing ELSE cache[g]]
    <2>1. CASE Cardinality(Cached) >= CacheSize
      <3>1. PICK O \in Addresses(a)!Oldest(Cached, Dropped) :
                cache' = [g \in Host |-> IF g = h THEN [ip |-> i, at |-> now]
                                        ELSE IF g \in O THEN Addresses(a)!Nothing ELSE cache[g]]
        BY <1>1, <2>1, AddressCounts DEF Addresses!Put
      <3> QED
        BY <3>1, AddressCounts DEF Addresses!Oldest, Addresses!Nothing, Nothing
    <2>2. CASE ~ (Cardinality(Cached) >= CacheSize)
      <3>1. cache' = [g \in Host |-> IF g = h THEN [ip |-> i, at |-> now]
                                    ELSE IF g \in {} THEN Nothing ELSE cache[g]]
        BY <1>1, <2>2, AddressCounts DEF Addresses!Put, Addresses!Nothing, Nothing
      <3> WITNESS {} \in SUBSET Cached
      <3> QED
        BY <3>1, <2>2
    <2> QED
      BY <2>1, <2>2
  <1>4. Cached' \subseteq (Cached \ O) \union {h}
    BY <1>3 DEF Cached
  <1>5. IsFiniteSet(Cached \ O) /\ Cardinality(Cached \ O) + 1 <= CacheSize
    <2>1. IsFiniteSet(Cached \ O) /\ Cardinality(Cached \ O) = Cardinality(Cached) - Cardinality(O)
      <3>1. Cached \cap O = O
        OBVIOUS
      <3> QED
        BY <1>2, <3>1, FS_Difference
    <2>2. Cardinality(O) \in Nat
      BY <1>2, FS_Subset, FS_CardinalityType
    <2> QED
      BY <1>2, <1>3, <2>1, <2>2
  <1>6. IsFiniteSet(Cached') /\ Cardinality(Cached') <= CacheSize
    <2>1. /\ IsFiniteSet((Cached \ O) \union {h})
          /\ Cardinality((Cached \ O) \union {h}) <= Cardinality(Cached \ O) + 1
      <3> DEFINE S == Cached \ O
      <3>1. IsFiniteSet(S) /\ Cardinality(S) \in Nat
        BY <1>5, FS_CardinalityType
      <3> HIDE DEF S
      <3>2. IsFiniteSet(S \union {h}) /\ Cardinality(S \union {h}) <= Cardinality(S) + 1
        BY <3>1, FS_AddElement
      <3> QED
        BY <3>2 DEF S
    <2>2. IsFiniteSet(Cached') /\ Cardinality(Cached') <= Cardinality((Cached \ O) \union {h})
      BY <1>4, <2>1, FS_Subset
    <2> QED
      BY <1>2, <1>5, <2>1, <2>2, FS_CardinalityType
  <1>7. /\ cache' \in [Host -> [ip : 0 .. Rotations + 1, at : 0 .. now]]
        /\ \A g \in Host \ {h} : cache'[g] \in {cache[g], Nothing}
    BY <1>3, AddressConstants DEF AddressInv, AddressTypes, Nothing
  <1> QED
    BY <1>6, <1>7

\* What a request does without the lock of lookups.
LEMMA AddressRequest ==
    ASSUME NEW a \in BOOLEAN, AddressInv(a), NEW t \in Thread,
           \/ \E h \in Host : Addresses(a)!Start(t, h)
           \/ Addresses(a)!Clean(t) \/ Addresses(a)!Look(t) \/ Addresses(a)!Connect(t)
           \/ Addresses(a)!AsyncConnect(t) \/ Addresses(a)!Forget(t) \/ Addresses(a)!AnswerAgain(t)
           \/ Addresses(a)!NoAnswerAgain(t) \/ Addresses(a)!Reconnect(t) \/ Addresses(a)!End(t)
    PROVE  AddressInv(a)'
  <1> USE AddressConstants
      DEF Addresses!Go, Addresses!sweep, Addresses!net, Addresses!Nobody, Addresses!NoHost,
          Addresses!Nothing, Nothing, Addresses!CacheOpen, Addresses!Answers,
          AddressTypes, RequestsKnow
  <1>1. CASE \E h \in Host : Addresses(a)!Start(t, h)
    <2>1. PICK h \in Host : Addresses(a)!Start(t, h)
      BY <1>1
    <2>2. count' \in 0 .. SweepEvery - 1
      BY <2>1 DEF Addresses!Start, AddressInv
    <2>3. AddressTypes'
      BY <2>1, <2>2 DEF Addresses!Start, AddressInv
    <2>4. RequestsKnow(a)'
      BY <2>1 DEF Addresses!Start, AddressInv
    <2>5. cache' = cache
      BY <2>1 DEF Addresses!Start
    <2> QED
      BY <2>3, <2>4, <2>5, AddressShrinks DEF AddressInv
  <1>2. CASE Addresses(a)!Clean(t)
    <2>1. \A h \in Host : cache'[h] \in {cache[h], Nothing}
      BY <1>2 DEF Addresses!Clean, Addresses!Swept, AddressInv
    <2>2. AddressTypes'
      BY <1>2 DEF Addresses!Clean, Addresses!Swept, AddressInv
    <2>3. RequestsKnow(a)'
      BY <1>2, <2>1 DEF Addresses!Clean, AddressInv
    <2> QED
      BY <2>1, <2>2, <2>3, <1>2, AddressShrinks DEF AddressInv, Addresses!Clean
  <1>3. CASE Addresses(a)!Look(t)
    <2>0. /\ addressPc[t] = "look" /\ addressFor[t] \in Host
          /\ UNCHANGED <<cacheLock, addressFor, count, cleaned, dns, rotated, steady, now>>
      BY <1>3 DEF Addresses!Look, AddressInv
    <2>1. CASE Addresses(a)!Fresh(addressFor[t])
      <3>1. /\ ip' = [ip EXCEPT ![t] = cache[addressFor[t]].ip]
            /\ addressPc' = [addressPc EXCEPT ![t] = "connect"] /\ cache' = cache
        BY <1>3, <2>1 DEF Addresses!Look, Addresses!GetCached
      <3>2. AddressTypes'
        BY <2>0, <3>1 DEF AddressInv
      <3>3. RequestsKnow(a)'
        BY <2>0, <3>1 DEF AddressInv
      <3> QED
        BY <3>1, <3>2, <3>3, AddressShrinks DEF AddressInv
    <2>2. CASE ~ Addresses(a)!Fresh(addressFor[t])
      <3>1. /\ cache' = [cache EXCEPT ![addressFor[t]] = Nothing]
            /\ ip' = ip /\ addressPc' = [addressPc EXCEPT ![t] = "wait"]
        BY <1>3, <2>2 DEF Addresses!Look, Addresses!GetCached
      <3>2. \A h \in Host : cache'[h] \in {cache[h], Nothing}
        BY <2>0, <3>1 DEF AddressInv
      <3>3. AddressTypes'
        BY <2>0, <3>1 DEF AddressInv
      <3>4. RequestsKnow(a)'
        BY <2>0, <3>1, <3>2 DEF AddressInv
      <3> QED
        BY <2>0, <3>2, <3>3, <3>4, AddressShrinks DEF AddressInv
    <2> QED
      BY <2>1, <2>2
  <1>4. CASE Addresses(a)!Forget(t)
    <2>1. \A h \in Host : cache'[h] \in {cache[h], Nothing}
      BY <1>4 DEF Addresses!Forget, AddressInv
    <2>2. AddressTypes'
      BY <1>4 DEF Addresses!Forget, AddressInv
    <2>3. RequestsKnow(a)'
      BY <1>4, <2>1 DEF Addresses!Forget, AddressInv
    <2> QED
      BY <2>1, <2>2, <2>3, <1>4, AddressShrinks DEF AddressInv, Addresses!Forget
  <1>5. CASE Addresses(a)!Connect(t) \/ Addresses(a)!AsyncConnect(t)
    <2>1. AddressTypes' /\ cache' = cache
      BY <1>5 DEF Addresses!Connect, Addresses!AsyncConnect, AddressInv
    <2>2. RequestsKnow(a)'
      BY <1>5 DEF Addresses!Connect, Addresses!AsyncConnect, AddressInv
    <2> QED
      BY <2>1, <2>2, AddressShrinks DEF AddressInv
  <1>6. CASE Addresses(a)!AnswerAgain(t) \/ Addresses(a)!NoAnswerAgain(t)
    <2>1. AddressTypes' /\ cache' = cache
      BY <1>6, SMTT(30) DEF Addresses!AnswerAgain, Addresses!NoAnswerAgain, AddressInv
    <2>2. RequestsKnow(a)'
      BY <1>6 DEF Addresses!AnswerAgain, Addresses!NoAnswerAgain, AddressInv
    <2> QED
      BY <2>1, <2>2, AddressShrinks DEF AddressInv
  <1>7. CASE Addresses(a)!Reconnect(t)
    <2>1. AddressTypes' /\ cache' = cache
      BY <1>7 DEF Addresses!Reconnect, AddressInv
    <2>2. RequestsKnow(a)'
      <3>1. addressPc[t] = "reconnect" /\ UNCHANGED <<cache, addressFor, ip, dns, steady>>
        BY <1>7 DEF Addresses!Reconnect
      <3>2. \/ addressPc' = [addressPc EXCEPT ![t] = "end"]
            \/ /\ addressPc' = [addressPc EXCEPT ![t] = "failed"]
               /\ ip[t] # dns[addressFor[t]]
        BY <1>7 DEF Addresses!Reconnect
      <3> QED
        BY <3>1, <3>2 DEF AddressInv
    <2> QED
      BY <2>1, <2>2, AddressShrinks DEF AddressInv
  <1>8. CASE Addresses(a)!End(t)
    <2>1. AddressTypes' /\ cache' = cache
      BY <1>8 DEF Addresses!End, AddressInv
    <2>2. RequestsKnow(a)'
      BY <1>8 DEF Addresses!End, AddressInv
    <2> QED
      BY <2>1, <2>2, AddressShrinks DEF AddressInv
  <1> QED
    BY <1>1, <1>2, <1>3, <1>4, <1>5, <1>6, <1>7, <1>8

\* A lookup, from the lock to the store; a retry stores without the lock.
LEMMA AddressLookup ==
    ASSUME NEW a \in BOOLEAN, AddressInv(a), NEW t \in Thread,
           \/ Addresses(a)!Enter(t) \/ Addresses(a)!Answer(t) \/ Addresses(a)!NoAnswer(t)
           \/ Addresses(a)!Store(t) \/ Addresses(a)!Renew(t)
    PROVE  AddressInv(a)'
  <1> USE AddressConstants
      DEF Addresses!Go, Addresses!sweep, Addresses!net, Addresses!Nobody, Addresses!NoHost,
          Addresses!Nothing, Nothing, Addresses!CacheOpen, AddressTypes, RequestsKnow
  <1>1. CASE Addresses(a)!Enter(t)
    <2>1. \A h \in Host : cache'[h] \in {cache[h], Nothing}
      BY <1>1 DEF Addresses!Enter, Addresses!GetCached, AddressInv
    <2>2. AddressTypes'
      BY <1>1 DEF Addresses!Enter, Addresses!GetCached, AddressInv
    <2>3. RequestsKnow(a)'
      BY <1>1, <2>1 DEF Addresses!Enter, Addresses!GetCached, AddressInv
    <2> QED
      BY <2>1, <2>2, <2>3, <1>1, AddressShrinks DEF AddressInv, Addresses!Enter
  <1>2. CASE Addresses(a)!Answer(t) \/ Addresses(a)!NoAnswer(t)
    <2>1. AddressTypes' /\ cache' = cache
      BY <1>2 DEF Addresses!Answer, Addresses!NoAnswer, AddressInv
    <2>2. RequestsKnow(a)'
      BY <1>2 DEF Addresses!Answer, Addresses!NoAnswer, AddressInv
    <2> QED
      BY <2>1, <2>2, AddressShrinks DEF AddressInv
  <1>3. CASE Addresses(a)!Store(t) \/ Addresses(a)!Renew(t)
    <2>0. addressFor[t] \in Host /\ ip[t] \in 0 .. Rotations + 1 /\ Addresses(a)!Put(addressFor[t], ip[t])
      BY <1>3 DEF Addresses!Store, Addresses!Renew, AddressInv
    <2>1. /\ cache' \in [Host -> [ip : 0 .. Rotations + 1, at : 0 .. now]]
          /\ \A g \in Host \ {addressFor[t]} : cache'[g] \in {cache[g], Nothing}
          /\ IsFiniteSet(Cached') /\ Cardinality(Cached') <= CacheSize
      BY <2>0, AddressGrows
    <2>2. AddressTypes'
      BY <1>3, <2>1 DEF Addresses!Store, Addresses!Renew, AddressInv
    <2>3. RequestsKnow(a)'
      BY <1>3, <2>1, SMTT(30) DEF Addresses!Store, Addresses!Renew, AddressInv
    <2> QED
      BY <2>1, <2>2, <2>3 DEF AddressInv
  <1> QED
    BY <1>1, <1>2, <1>3

\* Clearing, the passing of time, and a host that gets another address.
LEMMA AddressRest ==
    ASSUME NEW a \in BOOLEAN, AddressInv(a),
           \/ Addresses(a)!Clear \/ Addresses(a)!AsyncClear \/ Addresses(a)!Tick
           \/ \E h \in Host : Addresses(a)!Rotate(h)
    PROVE  AddressInv(a)'
  <1> USE AddressConstants
      DEF Addresses!sweep, Addresses!net, Addresses!Nothing, Nothing, AddressTypes, RequestsKnow
  <1>1. CASE Addresses(a)!Clear \/ Addresses(a)!AsyncClear
    <2>1. cache' = [h \in Host |-> Nothing] /\ now' = now
      BY <1>1 DEF Addresses!Clear, Addresses!AsyncClear
    <2>2. AddressTypes'
      BY <1>1, <2>1 DEF Addresses!Clear, Addresses!AsyncClear, AddressInv
    <2>3. RequestsKnow(a)'
      BY <1>1, <2>1 DEF Addresses!Clear, Addresses!AsyncClear, AddressInv
    <2> QED
      BY <2>1, <2>2, <2>3, AddressShrinks DEF AddressInv
  <1>2. CASE Addresses(a)!Tick
    <2>1. cache' = cache /\ now' = now + 1 /\ Cached' = Cached
      BY <1>2 DEF Addresses!Tick, Cached
    <2>2. AddressTypes'
      BY <1>2 DEF Addresses!Tick, AddressInv
    <2>3. RequestsKnow(a)'
      BY <1>2 DEF Addresses!Tick, AddressInv
    <2> QED
      BY <2>1, <2>2, <2>3 DEF AddressInv
  <1>3. ASSUME NEW h \in Host, Addresses(a)!Rotate(h)
        PROVE  AddressInv(a)'
    <2>1. cache' = cache /\ now' = now
      BY <1>3 DEF Addresses!Rotate
    <2>2. AddressTypes'
      BY <1>3 DEF Addresses!Rotate, AddressInv
    <2>3. RequestsKnow(a)'
      BY <1>3 DEF Addresses!Rotate, AddressInv
    <2> QED
      BY <2>1, <2>2, <2>3, AddressShrinks DEF AddressInv
  <1> QED
    BY <1>1, <1>2, <1>3

\* Every step of a cache keeps its invariant.
LEMMA AddressStep ==
    ASSUME NEW a \in BOOLEAN, AddressInv(a), Addresses(a)!Next
    PROVE  AddressInv(a)'
  BY AddressRequest, AddressLookup, AddressRest DEF Addresses!Next

-----------------------------------------------------------------------------
(* The history of a domain *)

Recents(times, date) == {i \in 1 .. Len(times) : times[i] >= date - Window}

\* short is what a full list keeps of long, whose times go up until then.
Truncated(short, long, date) ==
    /\ Len(short) <= Len(long) /\ (Len(short) < Len(long) => Len(short) = Stored)
    /\ \A i \in 1 .. Len(short) : short[i] = long[i + (Len(long) - Len(short))]
    /\ \A i, j \in 1 .. Len(long) : i <= j => long[i] <= long[j]
    /\ \A i \in 1 .. Len(long) : long[i] <= date

\* Every time in part is one in whole, and no two are the same one.
Among(fewer, more) ==
    \E f \in [1 .. Len(fewer) -> 1 .. Len(more)] :
        /\ \A i \in 1 .. Len(fewer) : fewer[i] = more[f[i]]
        /\ \A i, j \in 1 .. Len(fewer) : f[i] = f[j] => i = j

HealthTypes ==
    /\ healthClock \in 1 .. LastTime /\ loaded \subseteq up /\ up \subseteq Run
    /\ file \in Seq(Nat) /\ Len(file) <= Stored
    /\ all \in Seq(Nat) /\ Len(all) <= Incidents
    /\ data \in [Run -> Seq(Nat)] /\ \A r \in Run : Len(data[r]) <= Stored
    /\ known \in [Run -> Seq(Nat)]
    /\ failed \in [read : Nat, write : Nat]
    /\ verdict \in [Run -> {"none", "throttled", "clear"}]

\* A run's list is what is kept of all it knows, and nothing in it or in the
\* file is counted twice. Runs that do not overlap agree with the file, and the
\* file is what is kept of everything.
HealthInv(overlap) ==
    /\ HealthTypes
    /\ Truncated(file, file, healthClock) /\ Among(file, all)
    /\ \A r \in Run :
        /\ Truncated(data[r], known[r], healthClock) /\ Among(data[r], all)
        /\ r \notin loaded => known[r] = <<>> /\ data[r] = <<>>
        /\ verdict[r] # "none" =>
               (verdict[r] = "throttled" <=> Cardinality(Recents(data[r], healthClock)) >= Threshold)
    /\ ~ overlap =>
        /\ Truncated(file, all, healthClock)
        /\ \A r \in loaded : data[r] = file
        /\ \A q, r \in up : q = r

\* What is assumed of the history's constants.
LEMMA HealthConstants ==
    /\ Window \in Nat /\ Threshold \in Nat \ {0} /\ Stored \in Nat /\ Threshold <= Stored
    /\ {ReadFaults, WriteFaults, Incidents} \subseteq Nat /\ LastTime \in Nat \ {0}
  BY PartsAssumption DEF Health!HealthAssumption

\* The incidents inside the window are finitely many.
LEMMA RecentsFinite ==
    ASSUME NEW s \in Seq(Nat)
    PROVE  IsFiniteSet(Recents(s, healthClock)) /\ Cardinality(Recents(s, healthClock)) \in Nat
  <1>1. IsFiniteSet(1 .. Len(s)) /\ Recents(s, healthClock) \in SUBSET (1 .. Len(s))
    BY FS_Interval, LenProperties DEF Recents
  <1> QED
    BY <1>1, FS_Subset, FS_CardinalityType

\* DomainHealth counts as this module does, and a list that lost only its oldest
\* times decides as the whole list: it is full of times that are at least as recent.
LEMMA HealthCounts ==
    ASSUME NEW o \in BOOLEAN, NEW s \in Seq(Nat)
    PROVE  Health(o)!Throttled(s) <=> Cardinality(Recents(s, healthClock)) >= Threshold
  <1>1. \A S : Health(o)!Cardinality(S) = Cardinality(S)
    BY DEF Health!Cardinality, Cardinality
  <1>2. Recents(s, healthClock) = {i \in DOMAIN s : s[i] >= healthClock - Window}
    BY LenProperties DEF Recents
  <1> QED
    BY <1>1, <1>2 DEF Health!Throttled, Health!Recent

\* What is counted in a part is counted in the whole.
LEMMA AmongCounts ==
    ASSUME NEW s \in Seq(Nat), NEW l \in Seq(Nat), Among(s, l)
    PROVE  Cardinality(Recents(s, healthClock)) <= Cardinality(Recents(l, healthClock))
  <1>1. PICK f \in [1 .. Len(s) -> 1 .. Len(l)] :
            /\ \A i \in 1 .. Len(s) : s[i] = l[f[i]]
            /\ \A i, j \in 1 .. Len(s) : f[i] = f[j] => i = j
    BY DEF Among
  <1> DEFINE g == [i \in Recents(s, healthClock) |-> f[i]]
  <1>2. g \in Injection(Recents(s, healthClock), Recents(l, healthClock))
    <2>1. \A i \in Recents(s, healthClock) : i \in 1 .. Len(s) /\ f[i] \in Recents(l, healthClock)
      BY <1>1 DEF Recents
    <2>2. g \in [Recents(s, healthClock) -> Recents(l, healthClock)]
      BY <2>1
    <2>3. \A i, j \in Recents(s, healthClock) : g[i] = g[j] => i = j
      BY <1>1, <2>1
    <2> HIDE DEF g
    <2> QED
      BY <2>2, <2>3 DEF Injection, IsInjective
  <1> HIDE DEF g
  <1> QED
    BY <1>2, RecentsFinite, FS_Injection

\* The times dropped from a full list decide nothing: if one of them is recent,
\* so are all that were kept, and they are enough.
LEMMA TruncatedDecides ==
    ASSUME NEW s \in Seq(Nat), NEW l \in Seq(Nat), Truncated(s, l, healthClock), healthClock \in Nat
    PROVE  Cardinality(Recents(s, healthClock)) >= Threshold <=> Cardinality(Recents(l, healthClock)) >= Threshold
  <1> DEFINE d == Len(l) - Len(s)
             g == [i \in Recents(s, healthClock) |-> i + d]
  <1>0. /\ Len(s) \in Nat /\ Len(l) \in Nat /\ d \in Nat /\ (d > 0 => Len(s) = Stored)
        /\ \A i \in 1 .. Len(s) : s[i] = l[i + d]
        /\ \A i \in 1 .. Len(l) : l[i] \in Nat
        /\ \A i, j \in 1 .. Len(l) : i <= j => l[i] <= l[j]
    BY LenProperties, ElementOfSeq, SMTT(30) DEF Truncated
  <1>1. /\ Cardinality(Recents(s, healthClock)) \in Nat /\ Cardinality(Recents(l, healthClock)) \in Nat
        /\ IsFiniteSet(Recents(l, healthClock))
    BY RecentsFinite
  <1> HIDE DEF d
  <1>2. g \in Injection(Recents(s, healthClock), Recents(l, healthClock))
    <2>1. \A i \in Recents(s, healthClock) : i \in 1 .. Len(s) /\ i + d \in Recents(l, healthClock)
      <3>1. \A i \in 1 .. Len(s) : i + d \in 1 .. Len(l)
        BY <1>0 DEF d
      <3> QED
        BY <1>0, <3>1 DEF Recents
    <2>2. g \in [Recents(s, healthClock) -> Recents(l, healthClock)]
      BY <2>1
    <2>3. \A i, j \in Recents(s, healthClock) : g[i] = g[j] => i = j
      BY <1>0, <2>1
    <2> HIDE DEF g
    <2> QED
      BY <2>2, <2>3 DEF Injection, IsInjective
  <1>3. CASE \E i \in 1 .. d : l[i] >= healthClock - Window
    <2>1. PICK i \in 1 .. d : l[i] >= healthClock - Window
      BY <1>3
    <2>2. i \in 1 .. Len(l)
      BY <1>0, <2>1 DEF d
    <2>3. ASSUME NEW j \in 1 .. Len(s) PROVE s[j] >= l[i]
      BY <1>0, <2>1, <2>2, SMTT(30) DEF d
    <2>4. Recents(s, healthClock) = 1 .. Len(s)
      <3>1. healthClock - Window \in Int /\ l[i] \in Nat /\ \A j \in 1 .. Len(s) : s[j] \in Nat
        BY <1>0, <2>2, ElementOfSeq, HealthConstants, SMTT(30)
      <3> QED
        BY <2>1, <2>3, <3>1 DEF Recents
    <2>5. Cardinality(Recents(s, healthClock)) = Stored
      BY <1>0, <2>1, <2>4, FS_Interval, HealthConstants
    <2>6. Cardinality(Recents(s, healthClock)) <= Cardinality(Recents(l, healthClock))
      BY <1>1, <1>2, FS_Injection
    <2> QED
      BY <1>1, <2>5, <2>6, HealthConstants
  <1>4. CASE ~ \E i \in 1 .. d : l[i] >= healthClock - Window
    <2>1. g \in Surjection(Recents(s, healthClock), Recents(l, healthClock))
      <3>1. ASSUME NEW j \in Recents(l, healthClock) PROVE \E i \in Recents(s, healthClock) : g[i] = j
        <4>1. j \in 1 .. Len(l) /\ j \notin 1 .. d
          BY <1>4, <3>1 DEF Recents
        <4>2. j - d \in 1 .. Len(s) /\ (j - d) + d = j
          BY <1>0, <4>1 DEF d
        <4>3. j - d \in Recents(s, healthClock)
          BY <1>0, <4>2, <3>1 DEF Recents
        <4> QED
          BY <4>2, <4>3
      <3> QED
        BY <1>2, <3>1 DEF Injection, Surjection
    <2>2. Cardinality(Recents(s, healthClock)) = Cardinality(Recents(l, healthClock))
      BY <1>1, <1>2, <2>1, FS_Injection
    <2> QED
      BY <2>2
  <1> QED
    BY <1>3, <1>4

\* A list that is full loses its first time to a new one: k is how many go.
Extends(p, s, c, k) ==
    /\ k \in {0, 1} /\ Len(p) = Len(s) + 1 - k /\ Len(p) >= 1 /\ Len(p) <= Stored
    /\ k = 1 => Len(p) = Stored
    /\ p[Len(p)] = c
    /\ \A i \in 1 .. Len(p) - 1 : p[i] = s[i + k]

\* _prune of a list with one more time: all of it, or all but the first.
LEMMA HealthPruned ==
    ASSUME NEW o \in BOOLEAN, NEW s \in Seq(Nat), NEW c \in Nat, Len(s) <= Stored,
           NEW p, p = Health(o)!Pruned(Append(s, c))
    PROVE  p \in Seq(Nat) /\ \E k \in {0, 1} : Extends(p, s, c, k)
  <1> DEFINE t == Append(s, c)
             k == IF Len(t) > Stored THEN Len(t) - Stored ELSE 0
  <1>1. /\ Len(s) \in Nat /\ t \in Seq(Nat) /\ Len(t) = Len(s) + 1
        /\ t[Len(s) + 1] = c /\ \A i \in 1 .. Len(s) : t[i] = s[i]
        /\ \A i \in 1 .. Len(t) : t[i] \in Nat
    BY LenProperties, ElementOfSeq
  <1>2. k \in {0, 1} /\ (k = 1 => Len(s) = Stored) /\ (k = 0 => Len(s) < Stored)
    BY <1>1, HealthConstants
  <1>3. p = SubSeq(t, 1 + k, Len(t))
    BY DEF Health!Pruned
  <1> HIDE DEF t, k
  <1>4. /\ p \in Seq(Nat) /\ Len(p) = Len(t) - k
        /\ \A i \in 1 .. Len(t) - k : p[i] = t[i + k]
    <2>1. \A i \in 1 + k .. Len(t) : t[i] \in Nat
      BY <1>1, <1>2
    <2>2. /\ SubSeq(t, 1 + k, Len(t)) \in Seq(Nat)
          /\ Len(SubSeq(t, 1 + k, Len(t))) =
                 IF 1 + k <= Len(t) THEN Len(t) - (1 + k) + 1 ELSE 0
          /\ \A i \in 1 .. Len(t) - (1 + k) + 1 : SubSeq(t, 1 + k, Len(t))[i] = t[(1 + k) + i - 1]
      BY <1>1, <1>2, <2>1, SubSeqProperties
    <2> QED
      BY <1>1, <1>2, <1>3, <2>2, HealthConstants, SMTT(30)
  <1>5. /\ Len(p) = Len(s) + 1 - k /\ Len(p) <= Stored /\ Len(p) >= 1
        /\ k = 1 => Len(p) = Stored
    BY <1>1, <1>2, <1>4, HealthConstants, SMTT(30)
  <1>6. p[Len(p)] = c /\ \A i \in 1 .. Len(p) - 1 : p[i] = s[i + k]
    <2>1. p[Len(t) - k] = t[Len(t)]
      <3>1. Len(t) - k \in 1 .. Len(t) - k /\ (Len(t) - k) + k = Len(t)
        BY <1>1, <1>2, <1>4, <1>5
      <3> QED
        BY <1>4, <3>1
    <2>2. ASSUME NEW i \in 1 .. Len(p) - 1 PROVE p[i] = s[i + k]
      <3>1. i \in 1 .. Len(t) - k /\ i + k \in 1 .. Len(s)
        BY <1>1, <1>2, <1>4, <1>5, SMTT(30)
      <3> QED
        BY <1>1, <1>4, <3>1
    <2> QED
      BY <1>1, <1>4, <2>1, <2>2
  <1> QED
    BY <1>2, <1>4, <1>5, <1>6 DEF Extends

\* A sequence with one more element.
LEMMA Appended ==
    ASSUME NEW s \in Seq(Nat), NEW c \in Nat, NEW m, m = Append(s, c)
    PROVE  /\ m \in Seq(Nat) /\ Len(m) = Len(s) + 1 /\ m[Len(s) + 1] = c
           /\ \A i \in 1 .. Len(s) : m[i] = s[i] /\ m[i] \in Nat
  BY LenProperties, ElementOfSeq

\* One more time, the present one, in a list and in what it is kept of. (The
\* arithmetic of the positions, apart from the theory of sequences.)
Follows(m, l, c) ==
    /\ Len(m) = Len(l) + 1 /\ m[Len(m)] = c
    /\ \A i \in 1 .. Len(l) : m[i] = l[i] /\ m[i] \in Nat

\* One more time in both lists keeps the end of one the end of the other.
LEMMA TruncatedExtends ==
    ASSUME NEW s, NEW l, NEW p, NEW m, NEW k \in {0, 1}, Len(s) \in Nat, Len(l) \in Nat,
           Len(p) \in Nat, Len(s) <= Stored, healthClock \in Nat, Truncated(s, l, healthClock),
           Extends(p, s, healthClock, k), Follows(m, l, healthClock)
    PROVE  Truncated(p, m, healthClock)
  <1>0. /\ Len(p) = Len(s) + 1 - k /\ Len(p) <= Stored /\ (k = 1 => Len(p) = Stored)
        /\ Len(m) = Len(l) + 1 /\ Len(s) <= Len(l) /\ (Len(s) < Len(l) => Len(s) = Stored)
    BY DEF Truncated, Extends, Follows
  <1>1. Len(p) <= Len(m) /\ (Len(p) < Len(m) => Len(p) = Stored)
    BY <1>0, HealthConstants
  <1>2. \A i \in 1 .. Len(p) : p[i] = m[i + (Len(m) - Len(p))]
    <2> SUFFICES ASSUME NEW i \in 1 .. Len(p) PROVE p[i] = m[i + (Len(m) - Len(p))]
      OBVIOUS
    <2>1. CASE i = Len(p)
      BY <2>1 DEF Extends, Follows
    <2>2. CASE i # Len(p)
      <3>1. /\ i + k \in 1 .. Len(s) /\ p[i] = s[i + k] /\ Len(s) <= Len(l)
            /\ s[i + k] = l[(i + k) + (Len(l) - Len(s))]
        BY <2>2 DEF Extends, Truncated
      <3>2. /\ (i + k) + (Len(l) - Len(s)) \in 1 .. Len(l)
            /\ i + (Len(m) - Len(p)) = (i + k) + (Len(l) - Len(s))
        BY <3>1 DEF Extends, Follows
      <3> QED
        BY <3>1, <3>2 DEF Follows
    <2> QED
      BY <2>1, <2>2
  <1>3. /\ \A i, j \in 1 .. Len(m) : i <= j => m[i] <= m[j]
        /\ \A i \in 1 .. Len(m) : m[i] <= healthClock
    <2>1. /\ \A i, j \in 1 .. Len(l) : i <= j => m[i] <= m[j]
          /\ \A i \in 1 .. Len(l) : m[i] <= healthClock /\ m[i] \in Nat
      BY DEF Truncated, Follows
    <2>2. \A i \in 1 .. Len(m) : i \in 1 .. Len(l) \/ i = Len(m)
      BY DEF Follows
    <2> QED
      BY <2>1, <2>2 DEF Follows
  <1> QED
    BY <1>1, <1>2, <1>3 DEF Truncated

\* One more time in both lists keeps the one among the other.
LEMMA AmongExtends ==
    ASSUME NEW s, NEW l, NEW p, NEW m, NEW c, NEW k \in {0, 1}, Len(s) \in Nat, Len(l) \in Nat,
           Len(p) \in Nat, Among(s, l), Extends(p, s, c, k), Follows(m, l, c)
    PROVE  Among(p, m) /\ Among(s, m)
  <1>0. PICK f \in [1 .. Len(s) -> 1 .. Len(l)] :
            /\ \A i \in 1 .. Len(s) : s[i] = l[f[i]]
            /\ \A i, j \in 1 .. Len(s) : f[i] = f[j] => i = j
    BY DEF Among
  <1>1. \A i \in 1 .. Len(s) : f[i] \in 1 .. Len(l) /\ f[i] \in 1 .. Len(m) /\ s[i] = m[f[i]]
    BY <1>0 DEF Follows
  <1>2. Among(s, m)
    <2>1. f \in [1 .. Len(s) -> 1 .. Len(m)]
      BY <1>0, <1>1
    <2> QED
      BY <1>0, <1>1, <2>1 DEF Among
  <1>3. Among(p, m)
    <2> DEFINE g == [i \in 1 .. Len(p) |-> IF i = Len(p) THEN Len(l) + 1 ELSE f[i + k]]
    <2>1. \A i \in 1 .. Len(p) : i # Len(p) => i + k \in 1 .. Len(s) /\ p[i] = s[i + k]
      BY SMTT(30) DEF Extends
    <2>2. \A i \in 1 .. Len(p) :
              /\ i # Len(p) => g[i] = f[i + k] /\ g[i] \in 1 .. Len(l)
              /\ i = Len(p) => g[i] = Len(m)
      BY <1>1, <2>1 DEF Follows
    <2>3. g \in [1 .. Len(p) -> 1 .. Len(m)]
      <3>1. \A i \in 1 .. Len(p) : g[i] \in 1 .. Len(m)
        BY <2>2 DEF Follows
      <3>2. g \in [1 .. Len(p) -> {g[i] : i \in 1 .. Len(p)}]
        OBVIOUS
      <3> HIDE DEF g
      <3> QED
        BY <3>1, <3>2
    <2> HIDE DEF g
    <2>4. \A i \in 1 .. Len(p) : p[i] = m[g[i]]
      BY <1>1, <2>1, <2>2 DEF Extends, Follows
    <2>5. \A i, j \in 1 .. Len(p) : g[i] = g[j] => i = j
      <3> SUFFICES ASSUME NEW i \in 1 .. Len(p), NEW j \in 1 .. Len(p), g[i] = g[j]
                   PROVE  i = j
        OBVIOUS
      <3>1. i = Len(p) <=> j = Len(p)
        BY <2>2 DEF Follows
      <3>2. CASE i # Len(p) /\ j # Len(p)
        BY <1>0, <2>1, <2>2, <3>2
      <3> QED
        BY <3>1, <3>2
    <2> QED
      BY <2>3, <2>4, <2>5 DEF Among
  <1> QED
    BY <1>2, <1>3

\* The two facts above of the list the code prunes.
LEMMA HealthGrows ==
    ASSUME NEW o \in BOOLEAN, NEW s \in Seq(Nat), NEW l \in Seq(Nat), Len(s) <= Stored,
           healthClock \in Nat,
           NEW p, p = Health(o)!Pruned(Append(s, healthClock)), NEW m, m = Append(l, healthClock)
    PROVE  /\ p \in Seq(Nat) /\ m \in Seq(Nat) /\ Len(p) <= Stored
           /\ Truncated(s, l, healthClock) => Truncated(p, m, healthClock)
           /\ Among(s, l) => Among(p, m) /\ Among(s, m)
  <1>1. p \in Seq(Nat) /\ \E k \in {0, 1} : Extends(p, s, healthClock, k)
    BY HealthPruned
  <1>2. m \in Seq(Nat) /\ Follows(m, l, healthClock)
    BY Appended DEF Follows
  <1>3. PICK k \in {0, 1} : Extends(p, s, healthClock, k)
    BY <1>1
  <1>4. Len(s) \in Nat /\ Len(l) \in Nat /\ Len(p) \in Nat
    BY <1>1, LenProperties
  <1>5. Truncated(s, l, healthClock) => Truncated(p, m, healthClock)
    BY <1>2, <1>3, <1>4, TruncatedExtends
  <1>6. Among(s, l) => Among(p, m) /\ Among(s, m)
    BY <1>2, <1>3, <1>4, AmongExtends
  <1> QED
    BY <1>1, <1>2, <1>3, <1>5, <1>6 DEF Extends

\* A list that is the end of one in order is in order.
LEMMA TruncatedItself ==
    ASSUME NEW s, NEW l, Len(s) \in Nat, Len(l) \in Nat, NEW date, Truncated(s, l, date)
    PROVE  Truncated(s, s, date)
  <1>1. \A i \in 1 .. Len(s) : i + (Len(l) - Len(s)) \in 1 .. Len(l) /\ s[i] = l[i + (Len(l) - Len(s))]
    BY DEF Truncated
  <1>2. ASSUME NEW i \in 1 .. Len(s), NEW j \in 1 .. Len(s), i <= j PROVE s[i] <= s[j]
    <2>1. i + (Len(l) - Len(s)) <= j + (Len(l) - Len(s))
      BY <1>2
    <2> QED
      BY <1>1, <2>1 DEF Truncated
  <1>3. \A i \in 1 .. Len(s) : s[i] <= date
    BY <1>1 DEF Truncated
  <1> QED
    BY <1>2, <1>3 DEF Truncated

\* Times that are past stay past.
LEMMA TruncatedLater ==
    ASSUME NEW s, NEW l \in Seq(Nat), NEW date \in Nat, Truncated(s, l, date)
    PROVE  Truncated(s, l, date + 1)
  <1>1. \A i \in 1 .. Len(l) : l[i] \in Nat
    BY ElementOfSeq
  <1>2. \A i \in 1 .. Len(l) : l[i] <= date
    BY DEF Truncated
  <1>3. \A i \in 1 .. Len(l) : l[i] <= date + 1
    BY <1>1, <1>2
  <1> QED
    BY <1>3 DEF Truncated

\* An empty list is the end of an empty one, and among every list.
LEMMA NothingKept ==
    /\ <<>> \in Seq(Nat) /\ Len(<<>>) = 0
    /\ \A date : Truncated(<<>>, <<>>, date)
    /\ \A l \in Seq(Nat) : Among(<<>>, l)
  <1>1. <<>> \in Seq(Nat) /\ Len(<<>>) = 0
    OBVIOUS
  <1>2. \A date : Truncated(<<>>, <<>>, date)
    BY <1>1 DEF Truncated
  <1>3. ASSUME NEW l \in Seq(Nat) PROVE Among(<<>>, l)
    <2>1. \A i : i \notin 1 .. Len(<<>>)
      BY <1>1
    <2> DEFINE f == [i \in 1 .. Len(<<>>) |-> 1]
    <2>2. f \in [1 .. Len(<<>>) -> 1 .. Len(l)]
      BY <2>1
    <2> HIDE DEF f
    <2> QED
      BY <2>1, <2>2 DEF Among
  <1> QED
    BY <1>1, <1>2, <1>3

\* What a run has once it has read the file, or failed to.
LEMMA HealthLoad ==
    ASSUME NEW o \in BOOLEAN, HealthInv(o), NEW r \in up, NEW load \in Health(o)!Loads(r)
    PROVE  /\ load.times \in Seq(Nat) /\ Len(load.times) <= Stored
           /\ Health(o)!Knows(r, load) \in Seq(Nat)
           /\ Truncated(load.times, Health(o)!Knows(r, load), healthClock)
           /\ Among(load.times, all) /\ (~ o => load.times = file)
  <1>0. /\ r \in Run /\ file \in Seq(Nat) /\ Len(file) <= Stored /\ all \in Seq(Nat)
        /\ data[r] \in Seq(Nat) /\ Len(data[r]) <= Stored /\ known[r] \in Seq(Nat)
        /\ Truncated(data[r], known[r], healthClock) /\ Among(data[r], all)
        /\ Truncated(file, file, healthClock) /\ Among(file, all)
    BY DEF HealthInv, HealthTypes
  <1>1. CASE r \in loaded
    <2>1. load = [times |-> data[r], how |-> "kept"]
      BY <1>1 DEF Health!Loads
    <2>2. Health(o)!Knows(r, load) = known[r] /\ (~ o => data[r] = file)
      BY <1>1, <2>1 DEF Health!Knows, HealthInv
    <2> QED
      BY <1>0, <2>1, <2>2
  <1>2. CASE r \notin loaded
    <2>0. known[r] = <<>>
      BY <1>0, <1>2 DEF HealthInv
    <2>1. CASE load = [times |-> file, how |-> "read"]
      <3>1. Health(o)!Knows(r, load) = file
        BY <1>0, <2>0, <2>1, ConcatEmptySeq DEF Health!Knows
      <3> QED
        BY <1>0, <2>1, <3>1
    <2>2. CASE load = [times |-> <<>>, how |-> "failed"] /\ failed.read < IF o THEN ReadFaults ELSE 0
      <3>1. Health(o)!Knows(r, load) = <<>> /\ load.times = <<>>
        BY <2>0, <2>2 DEF Health!Knows
      <3>2. failed.read \in Nat
        BY DEF HealthInv, HealthTypes
      <3>3. o
        BY <2>2, <3>2
      <3>4. Stored \in Nat
        BY HealthConstants
      <3> QED
        BY <1>0, <3>1, <3>3, <3>4, NothingKept
    <2> QED
      BY <1>2, <2>1, <2>2 DEF Health!Loads
  <1> QED
    BY <1>1, <1>2

\* No incident at the start.
LEMMA HealthInit == ASSUME NEW o \in BOOLEAN, Health(o)!Init PROVE HealthInv(o)
  <1> USE DEF Health!Init, Health!NoVerdict
  <1>1. HealthTypes
    <2>1. \A r \in Run : data[r] = <<>> /\ known[r] = <<>> /\ verdict[r] = "none"
      OBVIOUS
    <2>2. data \in [Run -> Seq(Nat)] /\ known \in [Run -> Seq(Nat)]
      BY NothingKept
    <2>3. Stored \in Nat /\ Incidents \in Nat /\ LastTime \in Nat \ {0}
      BY HealthConstants
    <2> QED
      BY <2>1, <2>2, <2>3, NothingKept DEF HealthTypes
  <1>2. Truncated(file, file, healthClock) /\ Among(file, all)
    BY NothingKept
  <1>3. \A r \in Run : data[r] = <<>> /\ known[r] = <<>> /\ verdict[r] = "none"
    OBVIOUS
  <1>4. Truncated(file, all, healthClock) /\ loaded = {} /\ up = {}
    BY NothingKept
  <1> QED
    BY <1>1, <1>2, <1>3, <1>4, NothingKept DEF HealthInv

\* A run begins or ends: the file and the incidents are as they were.
LEMMA HealthRuns ==
    ASSUME NEW o \in BOOLEAN, HealthInv(o), NEW r \in Run,
           Health(o)!Begin(r) \/ Health(o)!End(r)
    PROVE  HealthInv(o)'
  <1>0. UNCHANGED <<healthClock, file, all, failed>>
    BY DEF Health!Begin, Health!End
  <1>1. CASE Health(o)!Begin(r)
    <2>1. UNCHANGED <<loaded, data, known, verdict>> /\ up' = up \union {r} /\ (o \/ up = {})
      BY <1>1 DEF Health!Begin
    <2>2. HealthTypes'
      BY <1>0, <2>1 DEF HealthInv, HealthTypes
    <2>3. ~ o => up = {}
      BY <2>1
    <2>4. ~ o => \A q, s \in up' : q = s
      BY <2>1, <2>3
    <2> QED
      BY <1>0, <2>1, <2>2, <2>4 DEF HealthInv
  <1>2. CASE Health(o)!End(r)
    <2>1. /\ up' = up \ {r} /\ loaded' = loaded \ {r} /\ data' = [data EXCEPT ![r] = <<>>]
          /\ known' = [known EXCEPT ![r] = <<>>] /\ verdict' = [verdict EXCEPT ![r] = "none"]
      BY <1>2 DEF Health!End, Health!NoVerdict
    <2>2. HealthTypes'
      <3>1. data' \in [Run -> Seq(Nat)] /\ known' \in [Run -> Seq(Nat)]
        BY <2>1, NothingKept DEF HealthInv, HealthTypes
      <3>2. \A q \in Run : Len(data'[q]) <= Stored
        BY <2>1, NothingKept, HealthConstants DEF HealthInv, HealthTypes
      <3> QED
        BY <1>0, <2>1, <3>1, <3>2 DEF HealthInv, HealthTypes
    <2>3. ASSUME NEW q \in Run
          PROVE  /\ q = r => data'[q] = <<>> /\ known'[q] = <<>> /\ verdict'[q] = "none"
                 /\ q # r => data'[q] = data[q] /\ known'[q] = known[q] /\ verdict'[q] = verdict[q]
      BY <2>1 DEF HealthInv, HealthTypes
    <2>4. \A q \in Run :
              /\ Truncated(data[q], known[q], healthClock)' /\ Among(data[q], all)'
              /\ q \notin loaded' => known'[q] = <<>> /\ data'[q] = <<>>
              /\ verdict'[q] # "none" => (verdict'[q] = "throttled" <=>
                     Cardinality(Recents(data'[q], healthClock')) >= Threshold)
      <3> TAKE q \in Run
      <3>1. CASE q = r
        BY <1>0, <2>3, <3>1, NothingKept DEF HealthInv, HealthTypes
      <3>2. CASE q # r
        BY <1>0, <2>1, <2>3, <3>2 DEF HealthInv
      <3> QED
        BY <3>1, <3>2
    <2>5. ~ o => /\ \A q \in loaded' : data'[q] = file'
                 /\ \A q, s \in up' : q = s
      BY <1>0, <2>1, <2>3 DEF HealthInv, HealthTypes
    <2> QED
      BY <1>0, <2>2, <2>4, <2>5 DEF HealthInv
  <1> QED
    BY <1>1, <1>2

\* A run asks for a verdict.
LEMMA HealthAsk ==
    ASSUME NEW o \in BOOLEAN, HealthInv(o), NEW r \in Run, Health(o)!Ask(r)
    PROVE  HealthInv(o)'
  <1>1. PICK load \in Health(o)!Loads(r) :
            /\ data' = [data EXCEPT ![r] = load.times]
            /\ known' = [known EXCEPT ![r] = Health(o)!Knows(r, load)]
            /\ verdict' = [verdict EXCEPT ![r] =
                   IF Health(o)!Throttled(load.times) THEN "throttled" ELSE "clear"]
            /\ Health(o)!CountFailure(load, 0)
    BY DEF Health!Ask
  <1>2. PICK k : k = Health(o)!Knows(r, load)
    OBVIOUS
  <1>3. PICK s : s = load.times
    OBVIOUS
  <1>4. r \in up /\ loaded' = loaded \union {r} /\ UNCHANGED <<healthClock, file, up, all>>
    BY DEF Health!Ask
  <1>5. /\ s \in Seq(Nat) /\ Len(s) <= Stored /\ k \in Seq(Nat) /\ Truncated(s, k, healthClock)
        /\ Among(s, all) /\ (~ o => s = file)
    BY <1>2, <1>3, <1>4, HealthLoad
  <1>6. failed' \in [read : Nat, write : Nat]
    <2>1. /\ failed.read \in Nat /\ failed.write \in Nat
      BY DEF HealthInv, HealthTypes
    <2> QED
      BY <1>1, <2>1 DEF Health!CountFailure
  <1>7. Health(o)!Throttled(s) <=> Cardinality(Recents(s, healthClock)) >= Threshold
    BY <1>5, HealthCounts
  <1>8. ASSUME NEW q \in Run
        PROVE  /\ q = r => /\ data'[q] = s /\ known'[q] = k /\ verdict'[q] \in {"throttled", "clear"}
                           /\ verdict'[q] = "throttled" <=> Health(o)!Throttled(s)
               /\ q # r => data'[q] = data[q] /\ known'[q] = known[q] /\ verdict'[q] = verdict[q]
    BY <1>1, <1>2, <1>3 DEF HealthInv, HealthTypes
  <1>9. HealthTypes'
    <2>1. data' \in [Run -> Seq(Nat)] /\ known' \in [Run -> Seq(Nat)]
      BY <1>1, <1>2, <1>3, <1>5 DEF HealthInv, HealthTypes
    <2>2. verdict' \in [Run -> {"none", "throttled", "clear"}]
      BY <1>1 DEF HealthInv, HealthTypes
    <2>3. \A q \in Run : Len(data'[q]) <= Stored
      BY <1>5, <1>8 DEF HealthInv, HealthTypes
    <2> QED
      BY <1>4, <1>6, <2>1, <2>2, <2>3 DEF HealthInv, HealthTypes
  <1>10. \A q \in Run :
             /\ Truncated(data[q], known[q], healthClock)' /\ Among(data[q], all)'
             /\ q \notin loaded' => known'[q] = <<>> /\ data'[q] = <<>>
             /\ verdict'[q] # "none" => (verdict'[q] = "throttled" <=>
                    Cardinality(Recents(data'[q], healthClock')) >= Threshold)
    <2> TAKE q \in Run
    <2>1. CASE q = r
      BY <1>4, <1>5, <1>7, <1>8, <2>1
    <2>2. CASE q # r
      BY <1>4, <1>8, <2>2 DEF HealthInv
    <2> QED
      BY <2>1, <2>2
  <1>11. ~ o => \A q \in loaded' : data'[q] = file'
    BY <1>4, <1>5, <1>8 DEF HealthInv, HealthTypes
  <1> QED
    BY <1>4, <1>9, <1>10, <1>11 DEF HealthInv

\* Time passes.
LEMMA HealthTick ==
    ASSUME NEW o \in BOOLEAN, HealthInv(o), Health(o)!Tick
    PROVE  HealthInv(o)'
  <1>1. /\ healthClock \in Nat /\ healthClock < LastTime /\ healthClock' = healthClock + 1
        /\ UNCHANGED <<file, up, loaded, data, known, all, failed>>
        /\ \A r \in Run : verdict'[r] = "none"
    BY HealthConstants DEF Health!Tick, Health!NoVerdict, HealthInv, HealthTypes
  <1>2. HealthTypes'
    <2>1. verdict' \in [Run -> {"none", "throttled", "clear"}]
      BY DEF Health!Tick, Health!NoVerdict
    <2> QED
      BY <1>1, <2>1, HealthConstants DEF HealthInv, HealthTypes
  <1>3. Truncated(file, file, healthClock)' /\ (~ o => Truncated(file, all, healthClock)')
    BY <1>1, TruncatedLater DEF HealthInv, HealthTypes
  <1>4. \A r \in Run : Truncated(data[r], known[r], healthClock)'
    <2> TAKE r \in Run
    <2>1. known[r] \in Seq(Nat) /\ Truncated(data[r], known[r], healthClock)
      BY DEF HealthInv, HealthTypes
    <2> QED
      BY <1>1, <2>1, TruncatedLater
  <1> QED
    BY <1>1, <1>2, <1>3, <1>4 DEF HealthInv

\* An incident: one more time in the run's list, and the list in the file
\* unless the write fails.
LEMMA HealthRecord ==
    ASSUME NEW o \in BOOLEAN, HealthInv(o), NEW r \in Run, Health(o)!Record(r)
    PROVE  HealthInv(o)'
  <1>1. PICK load \in Health(o)!Loads(r), saved \in BOOLEAN :
            /\ data' = [data EXCEPT ![r] = Health(o)!Pruned(Append(load.times, healthClock))]
            /\ known' = [known EXCEPT ![r] = Append(Health(o)!Knows(r, load), healthClock)]
            /\ ~ saved => failed.write < IF o THEN WriteFaults ELSE 0
            /\ file' = IF saved THEN data'[r] ELSE file
            /\ Health(o)!CountFailure(load, IF saved THEN 0 ELSE 1)
    BY DEF Health!Record
  <1>2. PICK k, s : k = Health(o)!Knows(r, load) /\ s = load.times
    OBVIOUS
  <1>3. PICK p, m, n : /\ p = Health(o)!Pruned(Append(s, healthClock))
                       /\ m = Append(k, healthClock) /\ n = Append(all, healthClock)
    OBVIOUS
  <1>4. /\ r \in up /\ Len(all) < Incidents /\ all' = n /\ loaded' = loaded \union {r}
        /\ verdict' = [verdict EXCEPT ![r] = "none"] /\ UNCHANGED <<healthClock, up>>
    BY <1>3 DEF Health!Record, Health!NoVerdict
  <1>5. /\ s \in Seq(Nat) /\ Len(s) <= Stored /\ k \in Seq(Nat) /\ Truncated(s, k, healthClock)
        /\ Among(s, all) /\ (~ o => s = file)
    BY <1>2, <1>4, HealthLoad
  <1>6. healthClock \in Nat /\ all \in Seq(Nat) /\ file \in Seq(Nat) /\ Len(file) <= Stored
    BY HealthConstants DEF HealthInv, HealthTypes
  <1>7. /\ p \in Seq(Nat) /\ m \in Seq(Nat) /\ Len(p) <= Stored
        /\ Truncated(p, m, healthClock) /\ Truncated(p, p, healthClock)
    <2>1. p \in Seq(Nat) /\ m \in Seq(Nat) /\ Len(p) <= Stored /\ Truncated(p, m, healthClock)
      BY <1>3, <1>5, <1>6, HealthGrows, ZenonT(60)
    <2> QED
      BY <2>1, LenProperties, TruncatedItself
  <1>8. n \in Seq(Nat) /\ Len(n) <= Incidents /\ Among(p, n)
    <2>1. n \in Seq(Nat) /\ Among(p, n)
      BY <1>3, <1>5, <1>6, HealthGrows
    <2>2. Len(n) = Len(all) + 1 /\ Len(all) \in Nat
      BY <1>3, <1>6, LenProperties
    <2> QED
      BY <1>4, <2>1, <2>2, HealthConstants
  <1>9. ASSUME NEW q \in Seq(Nat), Len(q) <= Stored, Among(q, all) PROVE Among(q, n)
    <2>1. PICK pq : pq = Health(o)!Pruned(Append(q, healthClock))
      OBVIOUS
    <2> QED
      BY <1>3, <1>6, <1>9, <2>1, HealthGrows
  <1>10. ASSUME NEW q \in Run
         PROVE  /\ q = r => data'[q] = p /\ known'[q] = m /\ verdict'[q] = "none"
                /\ q # r => data'[q] = data[q] /\ known'[q] = known[q] /\ verdict'[q] = verdict[q]
    BY <1>1, <1>2, <1>3, <1>4 DEF HealthInv, HealthTypes
  <1>11. (saved /\ file' = p) \/ (~ saved /\ file' = file)
    BY <1>1, <1>10
  <1>12. Truncated(file, file, healthClock)' /\ Among(file, all)' /\ file' \in Seq(Nat)
         /\ Len(file') <= Stored
    <2>1. Truncated(file, file, healthClock) /\ Among(file, n)
      BY <1>6, <1>9 DEF HealthInv
    <2> QED
      BY <1>4, <1>6, <1>7, <1>8, <1>11, <2>1
  <1>13. failed' \in [read : Nat, write : Nat]
    <2>1. failed.read \in Nat /\ failed.write \in Nat
      BY DEF HealthInv, HealthTypes
    <2> QED
      BY <1>1, <2>1 DEF Health!CountFailure
  <1>14. HealthTypes'
    <2>1. data' \in [Run -> Seq(Nat)] /\ known' \in [Run -> Seq(Nat)]
      BY <1>1, <1>2, <1>3, <1>7 DEF HealthInv, HealthTypes
    <2>2. verdict' \in [Run -> {"none", "throttled", "clear"}]
      BY <1>4 DEF HealthInv, HealthTypes
    <2>3. \A q \in Run : Len(data'[q]) <= Stored
      BY <1>7, <1>10 DEF HealthInv, HealthTypes
    <2> QED
      BY <1>4, <1>8, <1>12, <1>13, <2>1, <2>2, <2>3 DEF HealthInv, HealthTypes
  <1>15. \A q \in Run :
             /\ Truncated(data[q], known[q], healthClock)' /\ Among(data[q], all)'
             /\ q \notin loaded' => known'[q] = <<>> /\ data'[q] = <<>>
             /\ verdict'[q] # "none" => (verdict'[q] = "throttled" <=>
                    Cardinality(Recents(data'[q], healthClock')) >= Threshold)
    <2> TAKE q \in Run
    <2>1. CASE q = r
      BY <1>4, <1>7, <1>8, <1>10, <2>1
    <2>2. CASE q # r
      <3>1. Among(data[q], n)
        BY <1>9 DEF HealthInv, HealthTypes
      <3> QED
        BY <1>4, <1>10, <2>2, <3>1 DEF HealthInv
    <2> QED
      BY <2>1, <2>2
  <1>16. ~ o => /\ Truncated(file, all, healthClock)'
                /\ \A q \in loaded' : data'[q] = file'
                /\ \A q, t \in up' : q = t
    <2> SUFFICES ASSUME ~ o
                 PROVE  /\ Truncated(file, all, healthClock)'
                        /\ \A q \in loaded' : data'[q] = file'
                        /\ \A q, t \in up' : q = t
      OBVIOUS
    <2>1. failed.write \in Nat
      BY DEF HealthInv, HealthTypes
    <2>2. saved
      BY <1>1, <2>1
    <2>3. Truncated(file, all, healthClock)
      BY DEF HealthInv
    <2>4. Truncated(p, n, healthClock)
      BY <1>3, <1>5, <1>6, <2>3, HealthGrows
    <2>5. \A q \in loaded' : q = r
      BY <1>4 DEF HealthInv, HealthTypes
    <2> QED
      BY <1>4, <1>10, <1>11, <2>2, <2>4, <2>5 DEF HealthInv
  <1> QED
    BY <1>12, <1>14, <1>15, <1>16 DEF HealthInv

\* Every step of the history keeps its invariant.
LEMMA HealthStep == \A o \in BOOLEAN : HealthInv(o) /\ Health(o)!Next => HealthInv(o)'
  BY HealthRuns, HealthAsk, HealthRecord, HealthTick DEF Health!Next

\* The invariant of the history in the words of its module.
LEMMA HealthImplies ==
    ASSUME NEW o \in BOOLEAN, HealthInv(o)
    PROVE  /\ Health(TRUE)!TypeOK /\ Health(o)!NeverOverstated /\ Health(o)!PruningDecidesNothing
           /\ Health(o)!HistorySurvivesRuns
  <1>1. Health(TRUE)!TypeOK
    BY DEF HealthInv, HealthTypes, Health!TypeOK, Health!NoVerdict
  <1>2. /\ all \in Seq(Nat) /\ file \in Seq(Nat) /\ healthClock \in Nat /\ Threshold \in Nat
        /\ \A r \in Run : data[r] \in Seq(Nat) /\ known[r] \in Seq(Nat)
    BY HealthConstants DEF HealthInv, HealthTypes
  <1>3. Health(o)!NeverOverstated
    <2> SUFFICES ASSUME NEW r \in Run, verdict[r] = "throttled" PROVE Health(o)!Throttled(all)
      BY DEF Health!NeverOverstated
    <2>1. Cardinality(Recents(data[r], healthClock)) >= Threshold /\ Among(data[r], all)
      BY DEF HealthInv
    <2>2. Cardinality(Recents(data[r], healthClock)) <= Cardinality(Recents(all, healthClock))
      BY <1>2, <2>1, AmongCounts
    <2>3. Cardinality(Recents(all, healthClock)) >= Threshold
      BY <1>2, <2>1, <2>2, RecentsFinite
    <2> QED
      BY <1>2, <2>3, HealthCounts
  <1>4. Health(o)!PruningDecidesNothing
    <2> SUFFICES ASSUME NEW r \in Run, verdict[r] # "none"
                 PROVE  (verdict[r] = "throttled") = Health(o)!Throttled(known[r])
      BY DEF Health!PruningDecidesNothing, Health!NoVerdict
    <2>1. /\ verdict[r] = "throttled" <=> Cardinality(Recents(data[r], healthClock)) >= Threshold
          /\ Truncated(data[r], known[r], healthClock)
      BY DEF HealthInv
    <2>2. verdict[r] = "throttled" <=> Health(o)!Throttled(known[r])
      BY <1>2, <2>1, TruncatedDecides, HealthCounts
    <2>3. Health(o)!Throttled(known[r]) \in BOOLEAN
      BY DEF Health!Throttled
    <2> QED
      BY <2>2, <2>3
  <1>5. Health(o)!HistorySurvivesRuns
    <2> SUFFICES ASSUME ~ o PROVE Health(o)!Throttled(file) = Health(o)!Throttled(all)
      BY DEF Health!HistorySurvivesRuns
    <2>1. Truncated(file, all, healthClock)
      BY DEF HealthInv
    <2>2. Health(o)!Throttled(file) <=> Health(o)!Throttled(all)
      BY <1>2, <2>1, TruncatedDecides, HealthCounts
    <2>3. Health(o)!Throttled(file) \in BOOLEAN /\ Health(o)!Throttled(all) \in BOOLEAN
      BY DEF Health!Throttled
    <2> QED
      BY <2>2, <2>3
  <1> QED
    BY <1>1, <1>3, <1>4, <1>5

-----------------------------------------------------------------------------
(* Pacing *)

Where(d) == IF d = "spent" THEN {"total"} ELSE Address
Slack(d) == IF d = "reserved" THEN Scaling ELSE 0
Calling(a) == {c \in Caller : pc[c] # "idle" /\ asked[c].address = a}

\* Who asks, asks for an address at a cost; and a request let go was called for.
PaceTypes(d) ==
    /\ clock \in Nat /\ Interval + Slack(d) <= clock /\ clock <= Until[d]
    /\ made \in 0 .. Calls[d] /\ spent \in Nat
    /\ pc \in [Caller -> {"idle", "asks", "asleep"}] /\ lock \in Caller \union {"free"}
    /\ wake \in [Caller -> Nat]
    /\ asked \in [Caller -> [address : Where(d) \union {"none"}, cost : Nat]]
    /\ last \in [Where(d) -> Nat] /\ chunks \in [Where(d) -> 0 .. Slack(d) + 1]
    /\ starts \in [Where(d) -> Seq(Nat)]
    /\ \A c \in Caller : pc[c] # "idle" => asked[c].address \in Where(d) /\ asked[c].cost > 0
    /\ d # "spent" => \A c \in Caller : pc[c] # "idle" =>
           asked[c].cost >= Interval /\ asked[c].cost <= Interval + Slack(d)
    /\ \A a \in Where(d) : Len(starts[a]) + Cardinality(Calling(a)) <= made

\* What is assumed of the pacing's constants.
LEMMA PaceConstants ==
    ASSUME NEW d \in Disciplines
    PROVE  /\ Interval \in Nat \ {0} /\ Slack(d) \in Nat /\ Late \in Nat
           /\ Calls[d] \in Nat /\ Until[d] \in Nat /\ Interval + Slack(d) <= Until[d]
           /\ MaxAge \in Nat /\ MaxAge >= Interval + Slack(d)
           /\ IsFiniteSet(Caller) /\ "free" \notin Caller
           /\ d = "spent" => Blocks \subseteq Nat \ {0}
  <1>1. Pacing(d)!PacingAssumption
    BY PartsAssumption
  <1>2. Pacing(d)!IsFiniteSet(Caller) <=> IsFiniteSet(Caller)
    BY DEF Pacing!IsFiniteSet, IsFiniteSet
  <1> QED
    BY <1>1, <1>2 DEF Pacing!PacingAssumption, Slack, Pacing!Free

\* The later and the earlier of two times.
LEMMA PaceExtremes ==
    ASSUME NEW d \in Disciplines, NEW x \in Nat, NEW y \in Nat, NEW S, S = {x, y}
    PROVE  /\ Pacing(d)!Max(S) \in S /\ Pacing(d)!Max(S) >= x /\ Pacing(d)!Max(S) >= y
           /\ Pacing(d)!Min(S) \in S /\ Pacing(d)!Min(S) <= x /\ Pacing(d)!Min(S) <= y
  BY DEF Pacing!Max, Pacing!Min

\* What a request costs: bytes cost their number, the others an interval and slack.
LEMMA PaceCost ==
    ASSUME NEW d \in Disciplines, PaceTypes(d), NEW a \in Where(d), NEW n \in Pacing(d)!Cost(a)
    PROVE  /\ n \in Nat \ {0}
           /\ d # "spent" => n >= Interval /\ n <= Interval + Slack(d)
  <1>1. CASE d = "spent"
    BY <1>1, PaceConstants DEF Pacing!Cost
  <1>2. CASE d # "spent"
    <2>1. n = Pacing(d)!Scaled(chunks[a])
      BY <1>2 DEF Pacing!Cost
    <2>2. chunks[a] \in Nat
      BY PaceConstants DEF PaceTypes
    <2>3. PICK m \in Nat : m = Pacing(d)!Max({chunks[a], 1}) /\ m >= 1
      <3>1. PICK S : S = {chunks[a], 1}
        OBVIOUS
      <3>2. Pacing(d)!Max(S) \in S /\ Pacing(d)!Max(S) >= 1
        BY <2>2, <3>1, PaceExtremes
      <3> QED
        BY <2>2, <3>1, <3>2
    <2>4. PICK e \in Nat : e = Pacing(d)!Min({Slack(d), m - 1}) /\ e <= Slack(d)
      <3>1. PICK x \in Nat, y \in Nat : x = Slack(d) /\ y = m - 1
        BY <2>3, PaceConstants
      <3>2. PICK S : S = {x, y}
        OBVIOUS
      <3>3. Pacing(d)!Min(S) \in S /\ Pacing(d)!Min(S) <= x
        BY <3>1, <3>2, PaceExtremes
      <3> QED
        BY <3>1, <3>2, <3>3
    <2>5. n = Interval + e
      BY <2>1, <2>3, <2>4 DEF Pacing!Scaled, Slack
    <2> QED
      BY <2>4, <2>5, PaceConstants
  <1> QED
    BY <1>1, <1>2

\* Callers are finitely many.
LEMMA CallingFinite ==
    ASSUME NEW d \in Disciplines, NEW S, S \subseteq Caller
    PROVE  IsFiniteSet(S) /\ Cardinality(S) \in Nat
  BY PaceConstants, FS_Subset, FS_CardinalityType

\* The variables have their types at the start.
LEMMA PaceTypesInit ==
    ASSUME NEW d \in Disciplines, Pacing(d)!Init
    PROVE  PaceTypes(d)
  <1> USE PaceConstants DEF Pacing!Init, Pacing!Start, Pacing!Free, Pacing!NoCall
  <1>1. clock = Interval + Slack(d)
    BY DEF Slack
  <1>2. last = [a \in Where(d) |-> 0] /\ chunks = [a \in Where(d) |-> 0]
        /\ starts = [a \in Where(d) |-> <<>>]
    BY DEF Where
  <1>3. \A a : Calling(a) = {}
    BY DEF Calling
  <1>4. starts \in [Where(d) -> Seq(Nat)] /\ \A a \in Where(d) : Len(starts[a]) = 0
    BY <1>2, NothingKept
  <1>5. asked \in [Caller -> [address : Where(d) \union {"none"}, cost : Nat]]
    OBVIOUS
  <1>6. \A a \in Where(d) : Len(starts[a]) + Cardinality(Calling(a)) <= made
    <2> TAKE a \in Where(d)
    <2>1. Cardinality(Calling(a)) = 0
      BY <1>3, FS_EmptySet
    <2> QED
      BY <1>4, <2>1
  <1> QED
    BY <1>1, <1>2, <1>4, <1>5, <1>6 DEF PaceTypes

\* A caller asks.
LEMMA PaceTypesCall ==
    ASSUME NEW d \in Disciplines, PaceTypes(d), NEW c \in Caller, NEW a \in Where(d),
           Pacing(d)!Call(c, a)
    PROVE  PaceTypes(d)'
  <1>1. PICK n \in Pacing(d)!Cost(a) : asked' = [asked EXCEPT ![c] = [address |-> a, cost |-> n]]
    BY DEF Pacing!Call
  <1>2. n \in Nat \ {0} /\ (d # "spent" => n >= Interval /\ n <= Interval + Slack(d))
    BY <1>1, PaceCost
  <1>3. /\ pc[c] = "idle" /\ made < Calls[d] /\ made' = made + 1
        /\ pc' = [pc EXCEPT ![c] = "asks"]
        /\ UNCHANGED <<clock, last, chunks, wake, lock, starts, spent>>
    BY DEF Pacing!Call
  <1>4. \A b : /\ IsFiniteSet(Calling(b)) /\ Cardinality(Calling(b)) \in Nat
               /\ Calling(b)' = Calling(b) \union {c} \/ Calling(b)' = Calling(b)
    BY <1>1, <1>3, CallingFinite DEF Calling, PaceTypes
  <1>5. \A b \in Where(d) : Len(starts'[b]) + Cardinality(Calling(b)') <= made'
    <2> TAKE b \in Where(d)
    <2>1. Cardinality(Calling(b)') \in Nat /\ Cardinality(Calling(b)') <= Cardinality(Calling(b)) + 1
      <3>1. PICK S : S = Calling(b) /\ IsFiniteSet(S) /\ Cardinality(S) \in Nat
        BY <1>4
      <3>2. Cardinality(S \union {c}) \in {Cardinality(S), Cardinality(S) + 1}
        BY <3>1, FS_AddElement
      <3>3. Calling(b)' = S \union {c} \/ Calling(b)' = S
        BY <1>4, <3>1
      <3> QED
        <4>1. CASE Calling(b)' = S \union {c}
          BY <3>1, <3>2, <4>1
        <4>2. CASE Calling(b)' = S
          BY <3>1, <4>2
        <4> QED
          BY <3>3, <4>1, <4>2
    <2>2. Len(starts[b]) \in Nat /\ made \in Nat /\ Len(starts[b]) + Cardinality(Calling(b)) <= made
      BY PaceConstants, LenProperties DEF PaceTypes
    <2> QED
      BY <1>3, <1>4, <2>1, <2>2
  <1>6. \A e \in Caller : pc'[e] # "idle" =>
            \/ e = c /\ asked'[e] = [address |-> a, cost |-> n]
            \/ pc[e] # "idle" /\ asked'[e] = asked[e]
    BY <1>1, <1>3 DEF PaceTypes
  <1>7. made' \in 0 .. Calls[d]
    BY <1>3, PaceConstants DEF PaceTypes
  <1>8. asked' \in [Caller -> [address : Where(d) \union {"none"}, cost : Nat]]
    BY <1>1, <1>2 DEF PaceTypes
  <1>9. pc' \in [Caller -> {"idle", "asks", "asleep"}]
    BY <1>3 DEF PaceTypes
  <1> QED
    BY <1>2, <1>3, <1>5, <1>6, <1>7, <1>8, <1>9, SMTT(30) DEF PaceTypes

\* A request is let go.
LEMMA PaceTypesLetGo ==
    ASSUME NEW d \in Disciplines, PaceTypes(d), NEW c \in Caller, pc[c] # "idle",
           Pacing(d)!LetGo(c, asked[c].address), wake' \in [Caller -> Nat],
           last' \in [Where(d) -> Nat], lock' \in Caller \union {"free"},
           UNCHANGED <<clock, chunks, made>>
    PROVE  PaceTypes(d)'
  <1>1. PICK a \in Where(d) : a = asked[c].address
    BY DEF PaceTypes
  <1>2. /\ pc' = [pc EXCEPT ![c] = "idle"] /\ asked' = [asked EXCEPT ![c] = Pacing(d)!NoCall]
        /\ starts' = [starts EXCEPT ![a] = Append(starts[a], clock)]
        /\ spent' = spent + asked[c].cost
    BY <1>1 DEF Pacing!LetGo
  <1>3. PICK m : m = Append(starts[a], clock)
    OBVIOUS
  <1>4. m \in Seq(Nat) /\ Len(m) = Len(starts[a]) + 1 /\ starts' = [starts EXCEPT ![a] = m]
    BY <1>1, <1>2, <1>3, Appended DEF PaceTypes
  <1>5. /\ c \in Calling(a)
        /\ \A b : /\ IsFiniteSet(Calling(b)) /\ Cardinality(Calling(b)) \in Nat
                  /\ Calling(b)' \subseteq Calling(b) /\ IsFiniteSet(Calling(b)')
                  /\ Cardinality(Calling(b)') <= Cardinality(Calling(b))
    <2>1. c \in Calling(a) /\ \A b : Calling(b)' \subseteq Calling(b) /\ Calling(b) \subseteq Caller
      BY <1>1, <1>2 DEF Calling, PaceTypes
    <2> QED
      BY <2>1, CallingFinite, FS_Subset
  <1>6. \A b \in Where(d) : Len(starts'[b]) + Cardinality(Calling(b)') <= made'
    <2> TAKE b \in Where(d)
    <2>1. Len(starts[b]) \in Nat /\ made \in Nat /\ Len(starts[b]) + Cardinality(Calling(b)) <= made
      BY PaceConstants, LenProperties DEF PaceTypes
    <2>2. CASE b = a
      <3>1. c \in Calling(b) /\ c \notin Calling(b)' /\ Calling(b)' = Calling(b) \ {c}
        BY <1>1, <1>2, <2>2 DEF Calling, PaceTypes
      <3>2. Cardinality(Calling(b)') = Cardinality(Calling(b)) - 1
        BY <1>5, <3>1, FS_RemoveElement
      <3>3. starts'[b] = m
        BY <1>4, <2>2 DEF PaceTypes
      <3> QED
        BY <1>4, <2>1, <2>2, <3>2, <3>3, <1>5
    <2>3. CASE b # a
      <3>1. starts'[b] = starts[b]
        BY <1>4, <2>3 DEF PaceTypes
      <3>2. Cardinality(Calling(b)') <= Cardinality(Calling(b)) /\ Cardinality(Calling(b)') \in Nat
        BY <1>5, FS_CardinalityType
      <3> QED
        BY <1>5, <2>1, <3>1, <3>2
    <2> QED
      BY <2>2, <2>3
  <1>7. \A e \in Caller : pc'[e] # "idle" => pc[e] # "idle" /\ asked'[e] = asked[e]
    BY <1>2 DEF PaceTypes
  <1>8. asked' \in [Caller -> [address : Where(d) \union {"none"}, cost : Nat]]
    BY <1>2 DEF PaceTypes, Pacing!NoCall
  <1>9. starts' \in [Where(d) -> Seq(Nat)]
    BY <1>4 DEF PaceTypes
  <1>10. spent' \in Nat
    <2>1. asked[c].cost \in Nat /\ spent \in Nat
      BY DEF PaceTypes
    <2> QED
      BY <1>2, <2>1
  <1>11. pc' \in [Caller -> {"idle", "asks", "asleep"}]
    BY <1>2 DEF PaceTypes
  <1> QED
    BY <1>6, <1>7, <1>8, <1>9, <1>10, <1>11 DEF PaceTypes

\* A caller goes to sleep until its place.
LEMMA PaceTypesSleep ==
    ASSUME NEW d \in Disciplines, PaceTypes(d), NEW c \in Caller, pc[c] # "idle",
           NEW until \in Nat, Pacing(d)!Sleep(c, until), last' \in [Where(d) -> Nat],
           lock' \in Caller \union {"free"}, UNCHANGED <<clock, chunks, made>>
    PROVE  PaceTypes(d)'
  <1>1. /\ pc' = [pc EXCEPT ![c] = "asleep"] /\ wake' = [wake EXCEPT ![c] = until]
        /\ UNCHANGED <<asked, starts, spent>>
    BY DEF Pacing!Sleep
  <1>2. \A e \in Caller : pc'[e] # "idle" <=> pc[e] # "idle"
    BY <1>1 DEF PaceTypes
  <1>3. \A b : Calling(b)' = Calling(b)
    BY <1>1, <1>2 DEF Calling
  <1>4. pc' \in [Caller -> {"idle", "asks", "asleep"}] /\ wake' \in [Caller -> Nat]
    BY <1>1 DEF PaceTypes
  <1> QED
    BY <1>1, <1>2, <1>3, <1>4 DEF PaceTypes

\* What a request that goes leaves, in each of the disciplines.
LEMMA PaceMoves ==
    ASSUME NEW d \in Disciplines, PaceTypes(d), NEW c \in Caller, Pacing(d)!Goes(c)
    PROVE  /\ pc[c] # "idle" /\ UNCHANGED <<clock, chunks, made>>
           /\ last' \in [Where(d) -> Nat] /\ lock' \in Caller \union {"free"}
           /\ \/ wake' \in [Caller -> Nat] /\ Pacing(d)!LetGo(c, asked[c].address)
              \/ \E until \in Nat : Pacing(d)!Sleep(c, until)
  <1>0. /\ clock \in Nat /\ last \in [Where(d) -> Nat] /\ wake \in [Caller -> Nat]
        /\ lock \in Caller \union {"free"} /\ asked[c].cost \in Nat
    BY DEF PaceTypes
  <1>1. pc[c] # "idle" /\ UNCHANGED <<clock, chunks, made>>
    BY DEF Pacing!Goes, Pacing!Reserve, Pacing!Spend, Pacing!Hold, Pacing!Wake
  <1>2. PICK a \in Where(d) : a = asked[c].address /\ last[a] \in Nat
    BY <1>0, <1>1 DEF PaceTypes
  <1>3. CASE Pacing(d)!Reserve(c)
    BY <1>0, <1>1, <1>2, <1>3 DEF Pacing!Reserve
  <1>4. CASE Pacing(d)!Spend(c)
    <2>1. Pacing(d)!Max({clock, last[a]}) \in Nat
      <3>1. PICK S : S = {clock, last[a]}
        OBVIOUS
      <3>2. Pacing(d)!Max(S) \in S
        BY <1>0, <1>2, <3>1, PaceExtremes
      <3> QED
        BY <1>0, <1>2, <3>1, <3>2
    <2> QED
      BY <1>0, <1>1, <1>2, <1>4, <2>1 DEF Pacing!Spend
  <1>5. CASE Pacing(d)!Hold(c)
    BY <1>0, <1>1, <1>2, <1>5 DEF Pacing!Hold
  <1>6. CASE Pacing(d)!Wake(c)
    BY <1>0, <1>1, <1>2, <1>6 DEF Pacing!Wake, Pacing!Free
  <1> QED
    BY <1>3, <1>4, <1>5, <1>6 DEF Pacing!Goes

\* Every step of the pacing keeps the types.
LEMMA PaceTypesStep ==
    ASSUME NEW d \in Disciplines, PaceTypes(d), Pacing(d)!Next
    PROVE  PaceTypes(d)'
  <1>1. ASSUME NEW c \in Caller, Pacing(d)!Goes(c) PROVE PaceTypes(d)'
    BY <1>1, PaceMoves, PaceTypesLetGo, PaceTypesSleep
  <1>2. ASSUME NEW c \in Caller, NEW a \in Where(d), Pacing(d)!Call(c, a) PROVE PaceTypes(d)'
    BY <1>2, PaceTypesCall
  <1>3. ASSUME NEW a \in Where(d), Pacing(d)!Chunk(a) \/ Pacing(d)!Forget(a) PROVE PaceTypes(d)'
    <2>1. /\ UNCHANGED <<clock, pc, asked, wake, lock, starts, spent, made>>
          /\ last' \in [Where(d) -> Nat] /\ chunks' \in [Where(d) -> 0 .. Slack(d) + 1]
      <3>1. last \in [Where(d) -> Nat] /\ chunks \in [Where(d) -> 0 .. Slack(d) + 1]
        BY DEF PaceTypes
      <3>2. CASE Pacing(d)!Chunk(a)
        <4>1. PICK n \in 0 .. Slack(d) + 1 : chunks' = [chunks EXCEPT ![a] = n]
          BY <3>2 DEF Pacing!Chunk, Slack
        <4> QED
          BY <3>1, <3>2, <4>1 DEF Pacing!Chunk
      <3>3. CASE Pacing(d)!Forget(a)
        BY <3>1, <3>3 DEF Pacing!Forget
      <3> QED
        BY <1>3, <3>2, <3>3
    <2> QED
      BY <2>1 DEF PaceTypes, Calling
  <1>4. CASE Pacing(d)!Tick
    <2>1. /\ clock \in Nat /\ Until[d] \in Nat /\ clock < Until[d] /\ clock' = clock + 1
          /\ UNCHANGED <<last, chunks, pc, asked, wake, lock, starts, spent, made>>
      BY <1>4, PaceConstants DEF PaceTypes, Pacing!Tick
    <2> QED
      BY <2>1, PaceConstants DEF PaceTypes, Calling
  <1> QED
    BY <1>1, <1>2, <1>3, <1>4 DEF Pacing!Next, Where

\* The types in the words of the pacing's module.
LEMMA PaceTypesImply ==
    ASSUME NEW d \in Disciplines, PaceTypes(d)
    PROVE  Pacing(d)!TypeOK
  <1>1. \A a \in Where(d) : Len(starts[a]) <= Calls[d]
    <2> TAKE a \in Where(d)
    <2>1. /\ Len(starts[a]) \in Nat /\ made \in Nat /\ made <= Calls[d]
          /\ Len(starts[a]) + Cardinality(Calling(a)) <= made
      BY PaceConstants, LenProperties DEF PaceTypes
    <2>2. Cardinality(Calling(a)) \in Nat
      BY CallingFinite DEF Calling
    <2> QED
      BY <2>1, <2>2, PaceConstants
  <1> QED
    BY <1>1, PaceConstants
    DEF PaceTypes, Pacing!TypeOK, Pacing!Start, Pacing!Free, Where, Slack

\* At least an interval lies between any two of n times.
Spread(times, n) ==
    \A i, j \in 1 .. n : i # j =>
        times[i] + Interval <= times[j] \/ times[j] + Interval <= times[i]

\* How many numbers an interval has.
LEMMA UnitsCount ==
    ASSUME NEW a \in Int, NEW b \in Int, a <= b + 1
    PROVE  IsFiniteSet(a .. b) /\ Cardinality(a .. b) = b - a + 1
  BY FS_Interval

\* Requests that go up to late after places that are apart, in the order of
\* going: over a burst the lateness counts once.
LEMMA SpreadSpans ==
    ASSUME NEW late \in Nat, NEW n \in Nat,
           NEW s, NEW place, \A i \in 1 .. n : s[i] \in Nat /\ place[i] \in Nat,
           \A i \in 1 .. n : place[i] <= s[i] /\ s[i] <= place[i] + late,
           \A i, j \in 1 .. n : i < j => s[i] <= s[j], Spread(place, n),
           NEW i \in 1 .. n, NEW j \in 1 .. n, i < j
    PROVE  s[j] - s[i] >= (j - i) * Interval - late
  <1> DEFINE Units == (i .. j) \X (0 .. Interval - 1)
             Span == (s[i] - late) .. (s[j] + Interval - 1)
             f == [u \in Units |-> place[u[1]] + u[2]]
  <1>0. Interval \in Nat \ {0} /\ s[i] \in Nat /\ s[j] \in Nat /\ s[i] <= s[j]
    BY PaceConstants DEF Disciplines
  <1>1. ASSUME NEW k \in i .. j, NEW b \in 0 .. Interval - 1
        PROVE  k \in 1 .. n /\ place[k] \in Nat /\ place[k] + b \in Span
    <2>1. /\ k \in 1 .. n /\ place[k] \in Nat /\ s[k] \in Nat /\ place[k] <= s[k]
          /\ s[k] <= place[k] + late
      OBVIOUS
    <2>2. s[i] <= s[k] /\ s[k] <= s[j]
      BY <1>0, <2>1
    <2>3. b \in Nat /\ b <= Interval - 1
      BY <1>0
    <2> QED
      BY <1>0, <2>1, <2>2, <2>3
  <1>2. f \in [Units -> Span]
    <2>1. \A u \in Units : u[1] \in i .. j /\ u[2] \in 0 .. Interval - 1
      OBVIOUS
    <2> HIDE DEF Span, Units
    <2> QED
      BY <1>1, <2>1
  <1>3. ASSUME NEW k \in i .. j, NEW l \in i .. j, NEW a \in 0 .. Interval - 1,
               NEW b \in 0 .. Interval - 1, place[k] + a = place[l] + b
        PROVE  k = l /\ a = b
    <2>1. k \in 1 .. n /\ l \in 1 .. n /\ place[k] \in Nat /\ place[l] \in Nat
      OBVIOUS
    <2>2. k # l => place[k] + Interval <= place[l] \/ place[l] + Interval <= place[k]
      BY <2>1 DEF Spread
    <2>3. a \in Nat /\ b \in Nat /\ a < Interval /\ b < Interval
      BY <1>0
    <2>4. k = l
      BY <1>0, <1>3, <2>1, <2>2, <2>3
    <2> QED
      BY <1>3, <2>1, <2>3, <2>4
  <1>4. f \in Injection(Units, Span)
    <2>1. ASSUME NEW u \in Units, NEW v \in Units, f[u] = f[v] PROVE u = v
      <3>1. PICK k \in i .. j, a \in 0 .. Interval - 1 : u = <<k, a>>
        OBVIOUS
      <3>2. PICK l \in i .. j, b \in 0 .. Interval - 1 : v = <<l, b>>
        OBVIOUS
      <3>3. f[u] = place[k] + a /\ f[v] = place[l] + b
        BY <3>1, <3>2
      <3>4. k = l /\ a = b
        BY <1>3, <2>1, <3>3
      <3> QED
        BY <3>1, <3>2, <3>4
    <2> HIDE DEF f, Units, Span
    <2> QED
      BY <1>2, <2>1 DEF Injection, IsInjective
  <1>5. IsFiniteSet(Units) /\ Cardinality(Units) = (j - i + 1) * Interval
    <2>1. IsFiniteSet(i .. j) /\ Cardinality(i .. j) = j - i + 1
      BY UnitsCount
    <2>2. IsFiniteSet(0 .. Interval - 1) /\ Cardinality(0 .. Interval - 1) = Interval
      <3>1. PICK e \in Int : e = Interval - 1 /\ 0 <= e
        BY <1>0
      <3>2. IsFiniteSet(0 .. e) /\ Cardinality(0 .. e) = e - 0 + 1
        BY <3>1, UnitsCount
      <3>3. e - 0 + 1 = Interval
        BY <1>0, <3>1
      <3> QED
        BY <3>1, <3>2, <3>3
    <2> QED
      BY <2>1, <2>2, FS_Product, ZenonT(60)
  <1>6. IsFiniteSet(Span) /\ Cardinality(Span) = s[j] - s[i] + late + Interval
    <2>1. PICK a \in Int, b \in Int :
              a = s[i] - late /\ b = s[j] + Interval - 1 /\ a <= b
      BY <1>0
    <2>2a. a \in Int /\ b \in Int /\ a <= b + 1
      BY <2>1
    <2>2. IsFiniteSet(a .. b) /\ Cardinality(a .. b) = b - a + 1
      BY <2>2a, UnitsCount
    <2>3. b - a + 1 = s[j] - s[i] + late + Interval
      BY <1>0, <2>1
    <2> QED
      BY <2>1, <2>2, <2>3
  <1>7. Cardinality(Units) <= Cardinality(Span)
    <2> HIDE DEF Units, Span, f
    <2> QED
      BY <1>4, <1>5, <1>6, FS_Injection
  <1>8. (j - i + 1) * Interval = (j - i) * Interval + Interval
    BY <1>0
  <1>9. PICK m \in Int : m = (j - i) * Interval
    BY <1>0
  <1>10. (j - i) * Interval + Interval <= s[j] - s[i] + late + Interval
    BY <1>5, <1>6, <1>7, <1>8
  <1> QED
    BY <1>0, <1>9, <1>10

Apart(x, y) == x + Interval <= y \/ y + Interval <= x

\* The next start of an address is an interval after x.
Behind(x, l, t) == x <= l \/ x + Interval <= t

\* Who sleeps has the lock, and its start is due after the last one.
HeldInv ==
    /\ PaceTypes("held")
    /\ \A c \in Caller : pc[c] = "asleep" =>
           lock = c /\ wake[c] = last[asked[c].address] + asked[c].cost
    /\ \A a \in Address :
           /\ last[a] <= clock
           /\ \A i \in 1 .. Len(starts[a]) : Behind(starts[a][i], last[a], clock)
           /\ \A i, j \in 1 .. Len(starts[a]) : i < j => starts[a][i] + Interval <= starts[a][j]

\* Waiting under the lock spaces the requests.
LEMMA HeldImplies == HeldInv => Pacing("held")!TypeOK /\ Pacing("held")!RequestsSpaced
  <1> SUFFICES ASSUME HeldInv PROVE Pacing("held")!TypeOK /\ Pacing("held")!RequestsSpaced
    OBVIOUS
  <1>0. "held" \in Disciplines
    BY DEF Disciplines
  <1>1. Pacing("held")!TypeOK
    BY <1>0, PaceTypesImply DEF HeldInv
  <1>2. ASSUME NEW a \in Address, NEW i \in DOMAIN starts[a], NEW j \in DOMAIN starts[a], i < j
        PROVE  starts[a][j] - starts[a][i] >= (j - i) * Interval - 0
    <2>1. starts[a] \in Seq(Nat)
      BY DEF HeldInv, PaceTypes, Where
    <2>2. PICK s, n : s = starts[a] /\ n = Len(s) /\ n \in Nat /\ DOMAIN s = 1 .. n
      <3>1. Len(starts[a]) \in Nat /\ DOMAIN starts[a] = 1 .. Len(starts[a])
        BY <2>1, LenProperties
      <3> QED
        BY <3>1
    <2>3. \A k \in 1 .. n : s[k] \in Nat
      BY <2>1, <2>2, ElementOfSeq
    <2>4. \A k, l \in 1 .. n : k < l => s[k] + Interval <= s[l]
      BY <2>2 DEF HeldInv
    <2>5. Interval \in Nat \ {0}
      BY <1>0, PaceConstants
    <2>6. \A k, l \in 1 .. n : k < l => s[k] <= s[l]
      BY <2>3, <2>4, <2>5
    <2>7. Spread(s, n)
      BY <2>4 DEF Spread
    <2>8. n \in Nat /\ i \in 1 .. n /\ j \in 1 .. n
      BY <2>2
    <2>9. \A k \in 1 .. n : s[k] <= s[k] /\ s[k] <= s[k] + 0
      BY <2>3
    <2>10. s[j] - s[i] >= (j - i) * Interval - 0
      BY <1>2, <2>3, <2>6, <2>7, <2>8, <2>9, SpreadSpans
    <2> QED
      BY <2>2, <2>10
  <1>3. Pacing("held")!RequestsSpaced
    BY <1>2 DEF Pacing!RequestsSpaced
  <1> QED
    BY <1>1, <1>3

\* No request has gone at the start.
LEMMA HeldInit == Pacing("held")!Init => HeldInv
  <1> SUFFICES ASSUME Pacing("held")!Init PROVE HeldInv
    OBVIOUS
  <1>1. PaceTypes("held")
    BY PaceTypesInit DEF Disciplines
  <1>2. \A a \in Address : last[a] = 0 /\ starts[a] = <<>>
    BY DEF Pacing!Init
  <1>3. \A c \in Caller : pc[c] = "idle"
    BY DEF Pacing!Init
  <1>4. \A a \in Address : Len(starts[a]) = 0
    BY <1>2, NothingKept
  <1> QED
    BY <1>1, <1>2, <1>3, <1>4 DEF HeldInv, PaceTypes

\* A request goes an interval after all before it, and its start is stamped.
LEMMA HeldLetGo ==
    ASSUME HeldInv, PaceTypes("held")', NEW c \in Caller, NEW a \in Address,
           asked[c].address = a, Pacing("held")!LetGo(c, a), pc[c] # "idle",
           last' = [last EXCEPT ![a] = clock], last[a] + Interval <= clock, UNCHANGED clock,
           \A e \in Caller : e # c => pc[e] # "asleep"
    PROVE  HeldInv'
  <1>0. Interval \in Nat \ {0} /\ clock \in Nat /\ Where("held") = Address
    BY PaceConstants DEF Disciplines, HeldInv, PaceTypes, Where
  <1>1. pc' = [pc EXCEPT ![c] = "idle"] /\ starts' = [starts EXCEPT ![a] = Append(starts[a], clock)]
    BY DEF Pacing!LetGo
  <1>2. \A e \in Caller : pc'[e] # "asleep"
    BY <1>1 DEF HeldInv, PaceTypes
  <1>3. ASSUME NEW b \in Address
        PROVE  /\ last'[b] <= clock'
               /\ \A i \in 1 .. Len(starts'[b]) : Behind(starts'[b][i], last'[b], clock')
               /\ \A i, j \in 1 .. Len(starts'[b]) :
                      i < j => starts'[b][i] + Interval <= starts'[b][j]
    <2>1. CASE b = a
      <3>1. PICK s, m : s = starts[a] /\ m = Append(s, clock)
        OBVIOUS
      <3>2. s \in Seq(Nat) /\ last[a] \in Nat
        BY <1>0, <3>1 DEF HeldInv, PaceTypes
      <3>3. PICK n \in Nat : n = Len(s)
        BY <3>2, LenProperties
      <3>4. /\ Len(m) = n + 1 /\ m[n + 1] = clock
            /\ \A i \in 1 .. n : m[i] = s[i] /\ m[i] \in Nat
        BY <1>0, <3>1, <3>2, <3>3, Appended
      <3>5. starts'[b] = m /\ last'[b] = clock
        BY <1>0, <1>1, <2>1, <3>1 DEF HeldInv, PaceTypes
      <3>6. \A i \in 1 .. n : m[i] + Interval <= clock
        <4> TAKE i \in 1 .. n
        <4>1. s[i] <= last[a] \/ s[i] + Interval <= clock
          BY <3>1, <3>3 DEF HeldInv, Behind
        <4> QED
          BY <1>0, <3>2, <3>4, <4>1
      <3>7. \A i, j \in 1 .. n : i < j => m[i] + Interval <= m[j]
        BY <3>1, <3>3, <3>4 DEF HeldInv
      <3>8. \A i \in 1 .. n + 1 : i \in 1 .. n \/ i = n + 1
        OBVIOUS
      <3>9. \A i \in 1 .. n + 1 : m[i] <= clock
        BY <1>0, <3>4, <3>6, <3>8
      <3>10. \A i, j \in 1 .. n + 1 : i < j => m[i] + Interval <= m[j]
        BY <3>4, <3>6, <3>7, <3>8
      <3> QED
        BY <1>0, <3>4, <3>5, <3>9, <3>10 DEF Behind
    <2>2. CASE b # a
      BY <1>0, <1>1, <2>2 DEF HeldInv, PaceTypes
    <2> QED
      BY <2>1, <2>2
  <1> QED
    BY <1>2, <1>3 DEF HeldInv

\* Every step under the lock keeps its invariant.
LEMMA HeldStep == HeldInv /\ Pacing("held")!Next => HeldInv'
  <1> SUFFICES ASSUME HeldInv, Pacing("held")!Next PROVE HeldInv'
    OBVIOUS
  <1>0. /\ "held" \in Disciplines /\ Where("held") = Address /\ Slack("held") = 0
        /\ Interval \in Nat \ {0} /\ clock \in Nat
    BY PaceConstants DEF Disciplines, Where, Slack, HeldInv, PaceTypes
  <1>1. PaceTypes("held") /\ PaceTypes("held")'
    BY <1>0, PaceTypesStep DEF HeldInv
  <1>2. ASSUME NEW c \in Caller, Pacing("held")!Hold(c) PROVE HeldInv'
    <2>0. PICK a \in Address : a = asked[c].address /\ pc[c] = "asks" /\ lock = "free"
      BY <1>0, <1>1, <1>2 DEF Pacing!Hold, Pacing!Free, PaceTypes
    <2>1. last[a] \in Nat /\ asked[c].cost = Interval
      <3>1. /\ last[a] \in Nat /\ asked[c].cost \in Nat
            /\ asked[c].cost >= Interval /\ asked[c].cost <= Interval + Slack("held")
        BY <1>0, <1>1, <2>0 DEF PaceTypes
      <3> QED
        BY <1>0, <3>1
    <2>2. \A e \in Caller : pc[e] # "asleep"
      BY <1>0, <2>0, PaceConstants DEF HeldInv
    <2>3. CASE last[a] + asked[c].cost > clock
      <3>1. /\ pc' = [pc EXCEPT ![c] = "asleep"] /\ wake' = [wake EXCEPT ![c] = last[a] + asked[c].cost]
            /\ lock' = c /\ UNCHANGED <<asked, starts, last, clock>>
        BY <1>2, <2>0, <2>3 DEF Pacing!Hold, Pacing!Sleep
      <3>2. ASSUME NEW e \in Caller, pc'[e] = "asleep"
            PROVE  lock' = e /\ wake'[e] = last'[asked'[e].address] + asked'[e].cost
        <4>1. e = c
          BY <1>1, <2>2, <3>1, <3>2 DEF PaceTypes
        <4> QED
          BY <1>1, <2>0, <3>1, <4>1 DEF PaceTypes
      <3> QED
        BY <1>1, <3>1, <3>2 DEF HeldInv
    <2>4. CASE ~ last[a] + asked[c].cost > clock
      <3>1. /\ Pacing("held")!LetGo(c, a) /\ last' = [last EXCEPT ![a] = clock] /\ UNCHANGED clock
        BY <1>2, <2>0, <2>4 DEF Pacing!Hold
      <3>2. last[a] + Interval <= clock
        BY <1>0, <2>1, <2>4
      <3> QED
        BY <1>1, <2>0, <2>2, <3>1, <3>2, HeldLetGo
    <2> QED
      BY <2>3, <2>4
  <1>3. ASSUME NEW c \in Caller, Pacing("held")!Wake(c) PROVE HeldInv'
    <2>0. PICK a \in Address : a = asked[c].address /\ pc[c] = "asleep" /\ wake[c] <= clock
      <3>1. asked[c].address \in Address /\ pc[c] = "asleep" /\ wake[c] \in Nat /\ clock >= wake[c]
        BY <1>0, <1>1, <1>3 DEF Pacing!Wake, PaceTypes
      <3> QED
        BY <1>0, <3>1
    <2>1. wake[c] = last[a] + asked[c].cost /\ lock = c /\ last[a] \in Nat /\ asked[c].cost = Interval
      <3>1. /\ last[a] \in Nat /\ asked[c].cost \in Nat
            /\ asked[c].cost >= Interval /\ asked[c].cost <= Interval + Slack("held")
        BY <1>0, <1>1, <2>0 DEF PaceTypes
      <3>2. wake[c] = last[a] + asked[c].cost /\ lock = c
        BY <2>0 DEF HeldInv
      <3> QED
        BY <1>0, <3>1, <3>2
    <2>2. \A e \in Caller : e # c => pc[e] # "asleep"
      BY <2>1 DEF HeldInv
    <2>3. Pacing("held")!LetGo(c, a) /\ last' = [last EXCEPT ![a] = clock] /\ UNCHANGED clock
      BY <1>3, <2>0 DEF Pacing!Wake
    <2>4. last[a] + Interval <= clock
      BY <2>0, <2>1
    <2> QED
      BY <1>1, <2>0, <2>2, <2>3, <2>4, HeldLetGo
  <1>4. ASSUME NEW c \in Caller, NEW a \in Address, Pacing("held")!Call(c, a) PROVE HeldInv'
    <2>1. /\ pc[c] = "idle" /\ pc' = [pc EXCEPT ![c] = "asks"]
          /\ \A e \in Caller : e # c => asked'[e] = asked[e]
          /\ UNCHANGED <<clock, last, wake, lock, starts>>
      BY <1>1, <1>4 DEF Pacing!Call, PaceTypes
    <2>2. \A e \in Caller : pc'[e] = "asleep" => pc[e] = "asleep" /\ e # c
      BY <1>1, <2>1 DEF PaceTypes
    <2> QED
      BY <1>1, <2>1, <2>2 DEF HeldInv
  <1>5. ASSUME NEW a \in Address, Pacing("held")!Chunk(a) \/ Pacing("held")!Forget(a) PROVE HeldInv'
    <2>1. CASE Pacing("held")!Chunk(a)
      BY <1>1, <2>1 DEF Pacing!Chunk, HeldInv
    <2>2. CASE Pacing("held")!Forget(a)
      <3>1. /\ lock = "free" /\ clock - last[a] > MaxAge /\ last' = [last EXCEPT ![a] = 0]
            /\ UNCHANGED <<clock, pc, asked, wake, lock, starts>>
        BY <2>2 DEF Pacing!Forget, Pacing!Free
      <3>2. \A e \in Caller : pc[e] # "asleep"
        BY <1>0, <3>1, PaceConstants DEF HeldInv
      <3>3. ASSUME NEW b \in Address
            PROVE  /\ last'[b] <= clock'
                   /\ \A i \in 1 .. Len(starts'[b]) : Behind(starts'[b][i], last'[b], clock')
        <4>1. CASE b # a
          BY <1>0, <1>1, <3>1, <4>1 DEF HeldInv, PaceTypes
        <4>2. CASE b = a
          <5>1. last[a] \in Nat /\ last[a] + Interval <= clock /\ last'[b] = 0
            BY <1>0, <1>1, <3>1, <4>2, PaceConstants DEF PaceTypes
          <5>2. ASSUME NEW i \in 1 .. Len(starts[a]) PROVE starts[a][i] + Interval <= clock
            <6>1. starts[a][i] <= last[a] \/ starts[a][i] + Interval <= clock
              BY DEF HeldInv, Behind
            <6>2. starts[a][i] \in Nat
              BY <1>0, <1>1, ElementOfSeq DEF PaceTypes
            <6> QED
              BY <1>0, <5>1, <6>1, <6>2
          <5> QED
            BY <1>0, <3>1, <4>2, <5>1, <5>2 DEF Behind
        <4> QED
          BY <4>1, <4>2
      <3> QED
        BY <1>1, <3>1, <3>2, <3>3 DEF HeldInv
    <2> QED
      BY <1>5, <2>1, <2>2
  <1>6. CASE Pacing("held")!Tick
    <2>1. clock' = clock + 1 /\ UNCHANGED <<last, pc, asked, wake, lock, starts>>
      BY <1>6 DEF Pacing!Tick
    <2>2. ASSUME NEW b \in Address
          PROVE  /\ last'[b] <= clock'
                 /\ \A i \in 1 .. Len(starts'[b]) : Behind(starts'[b][i], last'[b], clock')
      <3>1. last[b] \in Nat /\ last[b] <= clock
        BY <1>0, <1>1 DEF HeldInv, PaceTypes
      <3>2. ASSUME NEW i \in 1 .. Len(starts[b]) PROVE Behind(starts[b][i], last[b], clock + 1)
        <4>1. starts[b][i] <= last[b] \/ starts[b][i] + Interval <= clock
          BY DEF HeldInv, Behind
        <4>2. starts[b][i] \in Nat
          BY <1>0, <1>1, ElementOfSeq DEF PaceTypes
        <4> QED
          BY <1>0, <4>1, <4>2 DEF Behind
      <3> QED
        BY <1>0, <2>1, <3>1, <3>2
    <2> QED
      BY <1>1, <2>1, <2>2 DEF HeldInv
  <1>7. ASSUME NEW c \in Caller, Pacing("held")!Goes(c) PROVE HeldInv'
    BY <1>2, <1>3, <1>7 DEF Pacing!Goes, Pacing!Reserve, Pacing!Spend
  <1> QED
    BY <1>0, <1>4, <1>5, <1>6, <1>7 DEF Pacing!Next

\* place[i] is the start that was reserved for the i-th request let go, W those
\* reserved for the ones asleep: all apart, and behind the next.
Placed(place, s, W, l, t) ==
    /\ place \in [1 .. Len(s) -> Nat] /\ Spread(place, Len(s))
    /\ \A i \in 1 .. Len(s) :
           /\ s[i] \in Nat /\ s[i] <= t /\ place[i] <= s[i] /\ s[i] <= place[i] + Late
           /\ Behind(place[i], l, t) /\ \A w \in W : Apart(place[i], w)
    /\ \A i, j \in 1 .. Len(s) : i < j => s[i] <= s[j]

Sleepers(a) == {c \in Caller : pc[c] = "asleep" /\ asked[c].address = a}
Wakes(a) == {wake[c] : c \in Sleepers(a)}

\* Until x, every moment to come is in the interval before somebody's start.
Covered(x) ==
    \A t \in clock + 1 .. x : \E e \in Caller :
        pc[e] = "asleep" /\ wake[e] <= x /\ t <= wake[e] /\ wake[e] < t + Interval + Scaling

ReservedInv ==
    /\ PaceTypes("reserved")
    /\ \A c \in Caller : pc[c] = "asleep" =>
           /\ clock <= wake[c] + Late /\ Behind(wake[c], last[asked[c].address], clock)
           /\ Covered(wake[c])
           /\ \A e \in Caller : e # c /\ pc[e] = "asleep" /\ asked[e].address = asked[c].address =>
                  Apart(wake[e], wake[c])
    /\ \A a \in Address :
           Covered(last[a]) /\ \E place : Placed(place, starts[a], Wakes(a), last[a], clock)

\* Nobody new goes: what was reserved stays so.
LEMMA PlacedStays ==
    ASSUME NEW place, NEW s, NEW W, NEW V, NEW l, NEW k, NEW t \in Nat, NEW u \in Nat, t <= u,
           Len(s) \in Nat, Placed(place, s, W, l, t),
           \A x \in Nat : Behind(x, l, t) => Behind(x, k, u),
           \A v \in V : v \in W \/ \A i \in 1 .. Len(s) : Apart(place[i], v)
    PROVE  Placed(place, s, V, k, u)
  <1>1. place \in [1 .. Len(s) -> Nat] /\ \A i \in 1 .. Len(s) : place[i] \in Nat
    BY DEF Placed
  <1>2. ASSUME NEW i \in 1 .. Len(s)
        PROVE  /\ s[i] \in Nat /\ s[i] <= u /\ place[i] <= s[i] /\ s[i] <= place[i] + Late
               /\ Behind(place[i], k, u) /\ \A v \in V : Apart(place[i], v)
    BY <1>1 DEF Placed
  <1> QED
    BY <1>1, <1>2 DEF Placed

\* A request goes at t from the place w.
LEMMA PlacedGoes ==
    ASSUME NEW place, NEW s \in Seq(Nat), NEW W, NEW V, NEW l, NEW k, NEW t \in Nat, NEW w \in Nat,
           w <= t, t <= w + Late, Placed(place, s, W, l, t),
           \A x \in Nat : Behind(x, l, t) => Behind(x, k, t), Behind(w, k, t),
           \A i \in 1 .. Len(s) : Apart(place[i], w),
           V \subseteq W, \A v \in V : Apart(w, v)
    PROVE  \E p : Placed(p, Append(s, t), V, k, t)
  <1>0. PICK m, n : m = Append(s, t) /\ n = Len(s) /\ n \in Nat
    BY LenProperties
  <1>1. /\ Len(m) = n + 1 /\ m[n + 1] = t
        /\ \A i \in 1 .. n : m[i] = s[i] /\ m[i] \in Nat
    BY <1>0, Appended
  <1> DEFINE p == [i \in 1 .. n + 1 |-> IF i = n + 1 THEN w ELSE place[i]]
  <1>2. \A i \in 1 .. n : i # n + 1 /\ i \in 1 .. n + 1 /\ place[i] \in Nat
    BY <1>0, SMTT(30) DEF Placed
  <1>3. n + 1 \in 1 .. n + 1 /\ \A i \in 1 .. n + 1 : i \in 1 .. n \/ i = n + 1
    BY <1>0
  <1>4. p[n + 1] = w /\ \A i \in 1 .. n : p[i] = place[i]
    BY <1>2, <1>3
  <1>5. p \in [1 .. n + 1 -> Nat]
    BY <1>2, <1>3
  <1> HIDE DEF p
  <1>6. Spread(p, n + 1)
    <2>1. ASSUME NEW i \in 1 .. n + 1, NEW j \in 1 .. n + 1, i # j PROVE Apart(p[i], p[j])
      <3>1. CASE i \in 1 .. n /\ j \in 1 .. n
        <4>1. Apart(place[i], place[j])
          BY <1>0, <2>1, <3>1 DEF Placed, Spread, Apart
        <4> QED
          BY <1>4, <3>1, <4>1
      <3>2. CASE i \in 1 .. n /\ j = n + 1
        BY <1>0, <1>4, <3>2
      <3>3. CASE i = n + 1 /\ j \in 1 .. n
        <4>1. Apart(place[j], w)
          BY <1>0, <3>3
        <4> QED
          BY <1>4, <3>3, <4>1 DEF Apart
      <3> QED
        BY <1>3, <2>1, <3>1, <3>2, <3>3
    <2> QED
      BY <2>1 DEF Spread, Apart
  <1>7. ASSUME NEW i \in 1 .. n + 1
        PROVE  /\ m[i] \in Nat /\ m[i] <= t /\ p[i] <= m[i] /\ m[i] <= p[i] + Late
               /\ Behind(p[i], k, t) /\ \A v \in V : Apart(p[i], v)
    <2>1. CASE i \in 1 .. n
      <3>1. /\ s[i] \in Nat /\ s[i] <= t /\ place[i] <= s[i] /\ s[i] <= place[i] + Late
            /\ Behind(place[i], l, t) /\ \A v \in W : Apart(place[i], v)
        BY <1>0, <2>1 DEF Placed
      <3> QED
        BY <1>1, <1>2, <1>4, <2>1, <3>1
    <2>2. CASE i = n + 1
      BY <1>1, <1>4, <2>2
    <2> QED
      BY <1>3, <2>1, <2>2
  <1>8. ASSUME NEW i \in 1 .. n + 1, NEW j \in 1 .. n + 1, i < j PROVE m[i] <= m[j]
    <2>1. CASE j = n + 1
      BY <1>1, <1>7, <2>1
    <2>2. CASE j # n + 1
      <3>1. i \in 1 .. n /\ j \in 1 .. n
        BY <1>3, <1>8, <2>2
      <3> QED
        BY <1>0, <1>1, <1>8, <3>1 DEF Placed
    <2> QED
      BY <2>1, <2>2
  <1>9. Placed(p, m, V, k, t)
    BY <1>1, <1>5, <1>6, <1>7, <1>8 DEF Placed
  <1> QED
    BY <1>0, <1>9

\* The constants of reserved starts.
LEMMA ReservedConstants ==
    /\ "reserved" \in Disciplines /\ Where("reserved") = Address /\ Slack("reserved") = Scaling
    /\ Interval \in Nat \ {0} /\ Scaling \in Nat /\ Late \in Nat
    /\ MaxAge \in Nat /\ MaxAge >= Interval + Scaling
  <1>1. "reserved" \in Disciplines /\ Where("reserved") = Address /\ Slack("reserved") = Scaling
    BY DEF Disciplines, Where, Slack
  <1> QED
    BY <1>1, PaceConstants

\* The variables of reserved starts.
LEMMA ReservedTypes ==
    ASSUME PaceTypes("reserved")
    PROVE  /\ clock \in Nat /\ Interval + Scaling <= clock
           /\ pc \in [Caller -> {"idle", "asks", "asleep"}] /\ wake \in [Caller -> Nat]
           /\ last \in [Address -> Nat] /\ starts \in [Address -> Seq(Nat)]
           /\ asked \in [Caller -> [address : Address \union {"none"}, cost : Nat]]
           /\ \A c \in Caller : pc[c] # "idle" => asked[c].address \in Address
           /\ \A c \in Caller : pc[c] # "idle" =>
                  asked[c].cost >= Interval /\ asked[c].cost <= Interval + Scaling
  BY ReservedConstants DEF PaceTypes

\* Nothing is reserved at the start.
LEMMA ReservedInit == Pacing("reserved")!Init => ReservedInv
  <1> SUFFICES ASSUME Pacing("reserved")!Init PROVE ReservedInv
    OBVIOUS
  <1>1. PaceTypes("reserved") /\ clock \in Nat
    BY PaceTypesInit, ReservedConstants DEF PaceTypes
  <1>2. /\ \A a \in Address : last[a] = 0 /\ starts[a] = <<>>
        /\ \A c \in Caller : pc[c] = "idle"
    BY DEF Pacing!Init
  <1>3. ASSUME NEW a \in Address
        PROVE  Covered(last[a]) /\ \E place : Placed(place, starts[a], Wakes(a), last[a], clock)
    <2>1. Len(starts[a]) = 0 /\ \A i : i \notin 1 .. Len(starts[a])
      BY <1>2, NothingKept
    <2> DEFINE place == [i \in 1 .. Len(starts[a]) |-> 1]
    <2>2. place \in [1 .. Len(starts[a]) -> Nat]
      OBVIOUS
    <2> HIDE DEF place
    <2>3. Placed(place, starts[a], Wakes(a), last[a], clock)
      BY <2>1, <2>2 DEF Placed, Spread
    <2>4. \A t : t \notin clock + 1 .. last[a]
      BY <1>1, <1>2
    <2> QED
      BY <2>3, <2>4 DEF Covered
  <1> QED
    BY <1>1, <1>2, <1>3 DEF ReservedInv

\* A step that lets nobody go to sleep or go.
LEMMA ReservedRest ==
    ASSUME ReservedInv, PaceTypes("reserved")', UNCHANGED <<clock, last, wake, starts>>,
           \A e \in Caller : /\ pc'[e] = "asleep" <=> pc[e] = "asleep"
                             /\ pc[e] = "asleep" => asked'[e] = asked[e]
    PROVE  ReservedInv'
  <1>1. \A b : Sleepers(b)' = Sleepers(b)
    BY DEF Sleepers
  <1>2. \A b : Wakes(b)' = Wakes(b)
    BY <1>1 DEF Wakes
  <1>3. \A x : Covered(x) <=> \A t \in clock' + 1 .. x : \E e \in Caller :
            pc'[e] = "asleep" /\ wake'[e] <= x /\ t <= wake'[e]
            /\ wake'[e] < t + Interval + Scaling
    BY DEF Covered
  <1>4. ASSUME NEW e \in Caller, pc'[e] = "asleep"
        PROVE  /\ clock' <= wake'[e] + Late /\ Behind(wake'[e], last'[asked'[e].address], clock')
               /\ Covered(wake[e])'
               /\ \A f \in Caller : f # e /\ pc'[f] = "asleep"
                      /\ asked'[f].address = asked'[e].address => Apart(wake'[f], wake'[e])
    BY <1>3, <1>4 DEF ReservedInv, Covered
  <1>5. ASSUME NEW b \in Address
        PROVE  Covered(last[b])' /\ \E place : Placed(place, starts'[b], Wakes(b)', last'[b], clock')
    BY <1>2, <1>3 DEF ReservedInv, Covered
  <1> QED
    BY <1>4, <1>5 DEF ReservedInv

\* A start is reserved after all others: the sleeper covers the time since the
\* last one.
LEMMA ReservedSleep ==
    ASSUME ReservedInv, PaceTypes("reserved")', NEW c \in Caller, NEW a \in Address,
           NEW w \in Nat, pc[c] = "asks", asked[c].address = a, w = last[a] + asked[c].cost,
           w > clock, pc' = [pc EXCEPT ![c] = "asleep"], wake' = [wake EXCEPT ![c] = w],
           last' = [last EXCEPT ![a] = w], UNCHANGED <<clock, asked, starts>>
    PROVE  ReservedInv'
  <1>0. PaceTypes("reserved") /\ Interval \in Nat \ {0} /\ Scaling \in Nat /\ Late \in Nat
    BY ReservedConstants DEF ReservedInv
  <1>1. /\ clock \in Nat /\ last[a] \in Nat /\ asked[c].cost \in Nat
        /\ asked[c].cost >= Interval /\ asked[c].cost <= Interval + Scaling
    BY <1>0, ReservedTypes
  <1>2. last[a] + Interval <= w /\ w <= last[a] + Interval + Scaling /\ last[a] <= w
    BY <1>0, <1>1
  <1>3. ASSUME NEW e \in Caller, pc'[e] = "asleep"
        PROVE  \/ e = c /\ wake'[e] = w
               \/ e # c /\ pc[e] = "asleep" /\ wake'[e] = wake[e] /\ wake[e] \in Nat
    BY <1>0, <1>3, ReservedTypes
  <1>4. pc'[c] = "asleep" /\ wake'[c] = w /\ \A e \in Caller : pc[e] = "asleep" =>
            e # c /\ pc'[e] = "asleep" /\ wake'[e] = wake[e] /\ wake[e] \in Nat
    BY <1>0, ReservedTypes
  <1>5. last'[a] = w /\ \A b \in Address : b # a => last'[b] = last[b]
    BY <1>0, ReservedTypes
  <1>6. ASSUME NEW x \in Nat, Behind(x, last[a], clock)
        PROVE  x + Interval <= w /\ Behind(x, w, clock)
    BY <1>0, <1>1, <1>2, <1>6 DEF Behind
  <1>7. ASSUME NEW x, Covered(x) PROVE Covered(x)'
    BY <1>4, <1>7 DEF Covered
  <1>8. Covered(w)'
    <2> SUFFICES ASSUME NEW t \in clock + 1 .. w
                 PROVE  \E e \in Caller : /\ pc'[e] = "asleep" /\ wake'[e] <= w /\ t <= wake'[e]
                                          /\ wake'[e] < t + Interval + Scaling
      BY DEF Covered
    <2>0. t \in Nat /\ t <= w /\ t >= clock + 1
      BY <1>1
    <2>1. CASE t > last[a]
      BY <1>0, <1>1, <1>2, <1>4, <2>0, <2>1
    <2>2. CASE t <= last[a]
      <3>1. Covered(last[a]) /\ t \in clock + 1 .. last[a]
        BY <1>1, <2>0, <2>2 DEF ReservedInv
      <3>2. PICK e \in Caller : /\ pc[e] = "asleep" /\ wake[e] <= last[a] /\ t <= wake[e]
                                /\ wake[e] < t + Interval + Scaling
        BY <3>1 DEF Covered
      <3>3. pc'[e] = "asleep" /\ wake'[e] = wake[e] /\ wake[e] \in Nat
        BY <1>4, <3>2
      <3> QED
        BY <1>1, <1>2, <3>2, <3>3
    <2> QED
      BY <1>1, <2>0, <2>1, <2>2
  <1>9. ASSUME NEW e \in Caller, pc'[e] = "asleep"
        PROVE  /\ clock' <= wake'[e] + Late /\ Behind(wake'[e], last'[asked'[e].address], clock')
               /\ Covered(wake[e])'
    <2>1. CASE e = c
      <3>1. wake'[e] = w
        BY <1>3, <1>9, <2>1
      <3>2. Covered(wake[e])'
        BY <1>8, <3>1 DEF Covered
      <3> QED
        BY <1>0, <1>1, <1>5, <2>1, <3>1, <3>2 DEF Behind
    <2>2. CASE e # c
      <3>1. pc[e] = "asleep" /\ wake'[e] = wake[e] /\ wake[e] \in Nat
        BY <1>3, <1>9, <2>2
      <3>2. clock <= wake[e] + Late /\ Behind(wake[e], last[asked[e].address], clock)
            /\ Covered(wake[e])
        BY <3>1 DEF ReservedInv
      <3>3. Covered(wake[e])'
        BY <1>7, <3>1, <3>2 DEF Covered
      <3>4. Behind(wake[e], last'[asked[e].address], clock)
        <4>1. asked[e].address \in Address
          BY <1>0, <3>1, ReservedTypes
        <4> QED
          BY <1>5, <1>6, <3>1, <3>2, <4>1
      <3> QED
        BY <3>1, <3>2, <3>3, <3>4
    <2> QED
      BY <2>1, <2>2
  <1>10. ASSUME NEW e \in Caller, pc'[e] = "asleep", NEW f \in Caller, f # e, pc'[f] = "asleep",
                asked'[f].address = asked'[e].address
         PROVE  Apart(wake'[f], wake'[e])
    <2>1. \A g \in Caller : g # c /\ pc[g] = "asleep" /\ asked[g].address = a =>
              wake[g] + Interval <= w
      BY <1>4, <1>6 DEF ReservedInv
    <2>2. CASE e = c
      BY <1>3, <1>10, <2>1, <2>2 DEF Apart
    <2>3. CASE f = c
      BY <1>3, <1>10, <2>1, <2>3 DEF Apart
    <2>4. CASE e # c /\ f # c
      BY <1>3, <1>10, <2>4 DEF ReservedInv
    <2> QED
      BY <2>2, <2>3, <2>4
  <1>11. ASSUME NEW b \in Address
         PROVE  Covered(last[b])' /\ \E place : Placed(place, starts'[b], Wakes(b)', last'[b], clock')
    <2>0. PICK place : Placed(place, starts[b], Wakes(b), last[b], clock)
      BY DEF ReservedInv
    <2>1. CASE b # a
      <3>1. last'[b] = last[b] /\ Covered(last[b])
        BY <1>5, <2>1 DEF ReservedInv
      <3>2. Sleepers(b)' = Sleepers(b)
        BY <1>0, <2>1, ReservedTypes DEF Sleepers
      <3>3. Wakes(b)' = Wakes(b)
        BY <1>4, <3>2 DEF Wakes, Sleepers
      <3> QED
        BY <1>7, <2>0, <3>1, <3>3 DEF Covered
    <2>2. CASE b = a
      <3>1. \A v \in Wakes(a)' : v \in Wakes(a) \/ v = w
        BY <1>3 DEF Wakes, Sleepers
      <3>2. PICK s : s = starts[a] /\ Len(s) \in Nat
        BY <1>0, ReservedTypes, LenProperties
      <3>3. Placed(place, s, Wakes(a), last[a], clock)
        BY <2>0, <2>2, <3>2
      <3>4. \A i \in 1 .. Len(s) : Apart(place[i], w)
        BY <1>6, <3>3 DEF Placed, Apart
      <3>5. PICK V : V = Wakes(a)'
        OBVIOUS
      <3>6. Placed(place, s, V, w, clock)
        BY <1>1, <1>6, <3>1, <3>2, <3>3, <3>4, <3>5, PlacedStays
      <3> QED
        BY <1>5, <1>8, <2>2, <3>2, <3>5, <3>6 DEF Covered
    <2> QED
      BY <2>1, <2>2
  <1> QED
    BY <1>9, <1>10, <1>11 DEF ReservedInv

\* A request goes from the place w: its own, when it slept, or the present; the
\* last start of its address is k from then on.
GoesFrom(c, a, w, k) ==
    /\ Pacing("reserved")!LetGo(c, a) /\ UNCHANGED clock /\ asked[c].address = a
    /\ (pc[c] = "asleep" => wake[c] <= clock) /\ (\A e \in Caller : e # c => wake'[e] = wake[e])
    /\ (k = last[a] \/ k = clock) /\ last' = [last EXCEPT ![a] = k]
    /\ \A x \in Nat : Behind(x, last[a], clock) => Behind(x, k, clock)
    /\ w <= clock /\ clock <= w + Late /\ Behind(w, k, clock)
    /\ \A e \in Caller : e # c /\ pc[e] = "asleep" /\ asked[e].address = a => Apart(w, wake[e])
    /\ \A place : Placed(place, starts[a], Wakes(a), last[a], clock) =>
           \A i \in 1 .. Len(starts[a]) : Apart(place[i], w)

\* A sleeper goes from the place it reserved, or a caller at once.
LEMMA ReservedLetGo ==
    ASSUME ReservedInv, PaceTypes("reserved")', NEW c \in Caller, NEW a \in Address,
           NEW w \in Nat, NEW k, GoesFrom(c, a, w, k)
    PROVE  ReservedInv'
  <1> USE DEF GoesFrom
  <1>0. PaceTypes("reserved") /\ Interval \in Nat \ {0} /\ Scaling \in Nat /\ clock \in Nat
    BY ReservedConstants, ReservedTypes DEF ReservedInv
  <1>1. /\ pc' = [pc EXCEPT ![c] = "idle"] /\ \A e \in Caller : e # c => asked'[e] = asked[e]
        /\ starts' = [starts EXCEPT ![a] = Append(starts[a], clock)]
    BY <1>0, ReservedTypes DEF Pacing!LetGo
  <1>2. ASSUME NEW e \in Caller
        PROVE  /\ pc'[e] = "asleep" => /\ e # c /\ pc[e] = "asleep" /\ wake'[e] = wake[e]
                                       /\ asked'[e] = asked[e]
               /\ pc[e] = "asleep" /\ e # c => pc'[e] = "asleep" /\ wake'[e] = wake[e]
               /\ pc[e] = "asleep" => wake[e] \in Nat
    BY <1>0, <1>1, ReservedTypes
  <1>3. ASSUME NEW x, Covered(x) PROVE Covered(x)'
    <2> SUFFICES ASSUME NEW t \in clock + 1 .. x
                 PROVE  \E e \in Caller : /\ pc'[e] = "asleep" /\ wake'[e] <= x /\ t <= wake'[e]
                                          /\ wake'[e] < t + Interval + Scaling
      BY DEF Covered
    <2>1. PICK e \in Caller : /\ pc[e] = "asleep" /\ wake[e] <= x /\ t <= wake[e]
                              /\ wake[e] < t + Interval + Scaling
      BY <1>3 DEF Covered
    <2>2. e # c
      <3>1. t \in Int /\ clock < t /\ wake[e] \in Nat
        BY <1>0, <1>2, <2>1
      <3> QED
        BY <1>0, <2>1, <3>1
    <2> QED
      BY <1>2, <2>1, <2>2
  <1>4. last'[a] = k /\ \A b \in Address : b # a => last'[b] = last[b]
    BY <1>0, ReservedTypes
  <1>5. Covered(k)'
    <2>1. CASE k = last[a]
      BY <1>3, <2>1 DEF ReservedInv
    <2>2. CASE k = clock
      BY <1>0, <2>2 DEF Covered
    <2> QED
      BY <2>1, <2>2
  <1>6. ASSUME NEW e \in Caller, pc'[e] = "asleep"
        PROVE  /\ clock' <= wake'[e] + Late /\ Behind(wake'[e], last'[asked'[e].address], clock')
               /\ Covered(wake[e])'
               /\ \A f \in Caller : f # e /\ pc'[f] = "asleep"
                      /\ asked'[f].address = asked'[e].address => Apart(wake'[f], wake'[e])
    <2>1. pc[e] = "asleep" /\ wake'[e] = wake[e] /\ asked'[e] = asked[e] /\ wake[e] \in Nat
      BY <1>2, <1>6
    <2>2. /\ clock <= wake[e] + Late /\ Behind(wake[e], last[asked[e].address], clock)
          /\ Covered(wake[e]) /\ asked[e].address \in Address
      BY <1>0, <2>1, ReservedTypes DEF ReservedInv
    <2>3. Covered(wake[e])'
      BY <1>3, <2>1, <2>2 DEF Covered
    <2>4. Behind(wake[e], last'[asked[e].address], clock)
      BY <1>4, <2>1, <2>2
    <2>5. \A f \in Caller : f # e /\ pc'[f] = "asleep" /\ asked'[f].address = asked[e].address
              => Apart(wake'[f], wake[e])
      BY <1>2, <2>1 DEF ReservedInv
    <2> QED
      BY <2>1, <2>2, <2>3, <2>4, <2>5
  <1>7. ASSUME NEW b \in Address
        PROVE  Covered(last[b])' /\ \E place : Placed(place, starts'[b], Wakes(b)', last'[b], clock')
    <2>0. PICK place : Placed(place, starts[b], Wakes(b), last[b], clock)
      BY DEF ReservedInv
    <2>1. \A v \in Wakes(b)' : v \in Wakes(b)
      BY <1>2 DEF Wakes, Sleepers
    <2>2. CASE b # a
      <3>1. last'[b] = last[b] /\ Covered(last[b]) /\ starts'[b] = starts[b]
        BY <1>0, <1>1, <1>4, <2>2, ReservedTypes DEF ReservedInv
      <3>2. PICK V, s : V = Wakes(b)' /\ s = starts[b]
        OBVIOUS
      <3>3. Len(s) \in Nat
        BY <1>0, <3>2, ReservedTypes, LenProperties
      <3>4. Placed(place, s, V, last[b], clock)
        BY <1>0, <2>0, <2>1, <3>2, <3>3, PlacedStays
      <3> QED
        BY <1>3, <3>1, <3>2, <3>4 DEF Covered
    <2>3. CASE b = a
      <3>1. PICK V, s : V = Wakes(a)' /\ s = starts[a]
        OBVIOUS
      <3>2. s \in Seq(Nat) /\ starts'[a] = Append(s, clock)
        BY <1>0, <1>1, <3>1, ReservedTypes
      <3>3. V \subseteq Wakes(a) /\ \A v \in V : Apart(w, v)
        BY <1>2, <2>1, <2>3, <3>1 DEF Wakes, Sleepers
      <3>4. /\ Placed(place, s, Wakes(a), last[a], clock)
            /\ \A i \in 1 .. Len(s) : Apart(place[i], w)
        BY <2>0, <2>3, <3>1
      <3>5. \E p : Placed(p, Append(s, clock), V, k, clock)
        BY <1>0, <3>2, <3>3, <3>4, PlacedGoes
      <3> QED
        BY <1>4, <1>5, <2>3, <3>1, <3>2, <3>5 DEF Covered
    <2> QED
      BY <2>2, <2>3
  <1> QED
    BY <1>6, <1>7 DEF ReservedInv

\* The place of a host that was idle for long enough is forgotten.
LEMMA ReservedForget ==
    ASSUME ReservedInv, PaceTypes("reserved")', NEW a \in Address, Pacing("reserved")!Forget(a)
    PROVE  ReservedInv'
  <1>0. PaceTypes("reserved") /\ Interval \in Nat \ {0} /\ Scaling \in Nat /\ clock \in Nat
    BY ReservedConstants, ReservedTypes DEF ReservedInv
  <1>1. /\ clock - last[a] > MaxAge /\ last' = [last EXCEPT ![a] = 0]
        /\ UNCHANGED <<clock, pc, asked, wake, starts>>
    BY DEF Pacing!Forget
  <1>2. last'[a] = 0 /\ \A b \in Address : b # a => last'[b] = last[b]
    BY <1>0, <1>1, ReservedTypes
  <1>3. ASSUME NEW x \in Nat, Behind(x, last[a], clock) PROVE Behind(x, 0, clock)
    <2>1. last[a] \in Nat /\ last[a] + Interval <= clock
      BY <1>0, <1>1, ReservedTypes, ReservedConstants
    <2> QED
      BY <1>0, <1>3, <2>1 DEF Behind
  <1>4. ASSUME NEW b \in Address, NEW x \in Nat, Behind(x, last[b], clock)
        PROVE  Behind(x, last'[b], clock)
    BY <1>2, <1>3, <1>4
  <1>5. \A b : Wakes(b)' = Wakes(b)
    BY <1>1 DEF Wakes, Sleepers
  <1>6. \A x : Covered(x) <=> \A t \in clock' + 1 .. x : \E e \in Caller :
            pc'[e] = "asleep" /\ wake'[e] <= x /\ t <= wake'[e]
            /\ wake'[e] < t + Interval + Scaling
    BY <1>1 DEF Covered
  <1>7. ASSUME NEW e \in Caller, pc'[e] = "asleep"
        PROVE  /\ clock' <= wake'[e] + Late /\ Behind(wake'[e], last'[asked'[e].address], clock')
               /\ Covered(wake[e])'
               /\ \A f \in Caller : f # e /\ pc'[f] = "asleep"
                      /\ asked'[f].address = asked'[e].address => Apart(wake'[f], wake'[e])
    <2>1. wake[e] \in Nat /\ asked[e].address \in Address
      BY <1>0, <1>1, <1>7, ReservedTypes
    <2>2. Behind(wake[e], last'[asked[e].address], clock)
      BY <1>1, <1>4, <1>7, <2>1 DEF ReservedInv
    <2>3. Covered(wake[e])'
      BY <1>1, <1>6, <1>7 DEF ReservedInv, Covered
    <2> QED
      BY <1>1, <1>7, <2>2, <2>3 DEF ReservedInv
  <1>8. ASSUME NEW b \in Address
        PROVE  Covered(last[b])' /\ \E place : Placed(place, starts'[b], Wakes(b)', last'[b], clock')
    <2>1. PICK place : Placed(place, starts[b], Wakes(b), last[b], clock)
      BY DEF ReservedInv
    <2>2. PICK s : s = starts[b] /\ Len(s) \in Nat
      BY <1>0, ReservedTypes, LenProperties
    <2>3. Placed(place, s, Wakes(b), last'[b], clock)
      BY <1>0, <1>4, <2>1, <2>2, PlacedStays
    <2>4. Covered(last[b])'
      <3>1. CASE b = a
        BY <1>0, <1>1, <1>2, <3>1 DEF Covered
      <3>2. CASE b # a
        BY <1>2, <1>6, <3>2 DEF ReservedInv, Covered
      <3> QED
        BY <3>1, <3>2
    <2> QED
      BY <1>1, <1>5, <2>2, <2>3, <2>4
  <1> QED
    BY <1>7, <1>8 DEF ReservedInv

\* Time passes, and no sleeper is later than the scheduler allows.
LEMMA ReservedTick ==
    ASSUME ReservedInv, PaceTypes("reserved")', Pacing("reserved")!Tick
    PROVE  ReservedInv'
  <1>0. PaceTypes("reserved") /\ Interval \in Nat \ {0} /\ clock \in Nat /\ Late \in Nat
    BY ReservedConstants, ReservedTypes DEF ReservedInv
  <1>1. /\ clock' = clock + 1 /\ UNCHANGED <<last, pc, asked, wake, starts>>
        /\ \A c \in Caller : pc[c] = "asleep" => clock < wake[c] + Late
    BY DEF Pacing!Tick
  <1>2. ASSUME NEW l \in Nat, NEW x \in Nat, Behind(x, l, clock) PROVE Behind(x, l, clock + 1)
    BY <1>0, <1>2 DEF Behind
  <1>3. \A b : Wakes(b)' = Wakes(b)
    BY <1>1 DEF Wakes, Sleepers
  <1>4. ASSUME NEW x \in Nat, Covered(x) PROVE Covered(x)'
    <2>1. \A t \in (clock + 1) + 1 .. x : t \in clock + 1 .. x
      BY <1>0
    <2> QED
      BY <1>1, <1>4, <2>1 DEF Covered
  <1>5. ASSUME NEW e \in Caller, pc'[e] = "asleep"
        PROVE  /\ clock' <= wake'[e] + Late /\ Behind(wake'[e], last'[asked'[e].address], clock')
               /\ Covered(wake[e])'
               /\ \A f \in Caller : f # e /\ pc'[f] = "asleep"
                      /\ asked'[f].address = asked'[e].address => Apart(wake'[f], wake'[e])
    <2>1. pc[e] = "asleep" /\ wake[e] \in Nat /\ last[asked[e].address] \in Nat
      BY <1>0, <1>1, <1>5, ReservedTypes
    <2>2. Behind(wake[e], last[asked[e].address], clock) /\ Covered(wake[e])
      BY <2>1 DEF ReservedInv
    <2>3. Behind(wake[e], last[asked[e].address], clock + 1)
      BY <1>2, <2>1, <2>2
    <2>4. Covered(wake[e])'
      BY <1>1, <1>4, <2>1, <2>2 DEF Covered
    <2>5. clock + 1 <= wake[e] + Late
      BY <1>0, <1>1, <2>1
    <2> QED
      BY <1>1, <2>1, <2>3, <2>4, <2>5 DEF ReservedInv
  <1>6. ASSUME NEW b \in Address
        PROVE  Covered(last[b])' /\ \E place : Placed(place, starts'[b], Wakes(b)', last'[b], clock')
    <2>1. PICK place : Placed(place, starts[b], Wakes(b), last[b], clock)
      BY DEF ReservedInv
    <2>2. PICK s : s = starts[b] /\ Len(s) \in Nat
      BY <1>0, ReservedTypes, LenProperties
    <2>3. last[b] \in Nat /\ Covered(last[b])
      BY <1>0, ReservedTypes DEF ReservedInv
    <2>4. clock + 1 \in Nat /\ clock <= clock + 1
      BY <1>0
    <2>5. Placed(place, s, Wakes(b), last[b], clock + 1)
      BY <1>0, <1>2, <2>1, <2>2, <2>3, <2>4, PlacedStays
    <2>6. Covered(last[b])'
      BY <1>1, <1>4, <2>3 DEF Covered
    <2> QED
      BY <1>1, <1>3, <2>2, <2>5, <2>6
  <1> QED
    BY <1>5, <1>6 DEF ReservedInv

\* Every step of reserved starts keeps their invariant.
LEMMA ReservedStep == ReservedInv /\ Pacing("reserved")!Next => ReservedInv'
  <1> SUFFICES ASSUME ReservedInv, Pacing("reserved")!Next PROVE ReservedInv'
    OBVIOUS
  <1>0. /\ "reserved" \in Disciplines /\ PaceTypes("reserved") /\ PaceTypes("reserved")'
        /\ Interval \in Nat \ {0} /\ Scaling \in Nat /\ Late \in Nat
    BY PaceTypesStep, ReservedConstants DEF ReservedInv
  <1>1. ASSUME NEW c \in Caller, Pacing("reserved")!Reserve(c) PROVE ReservedInv'
    <2>0. PICK a : a = asked[c].address /\ pc[c] = "asks"
      BY <1>1 DEF Pacing!Reserve
    <2>1. /\ a \in Address /\ clock \in Nat /\ last[a] \in Nat /\ asked[c].cost \in Nat
          /\ asked[c].cost >= Interval
      BY <1>0, <2>0, ReservedTypes
    <2>2. CASE last[a] + asked[c].cost > clock
      <3>1. PICK w \in Nat : w = last[a] + asked[c].cost
        BY <2>1
      <3>2. /\ pc' = [pc EXCEPT ![c] = "asleep"] /\ wake' = [wake EXCEPT ![c] = w]
            /\ last' = [last EXCEPT ![a] = w] /\ UNCHANGED <<clock, asked, starts>>
        BY <1>1, <2>0, <2>2, <3>1 DEF Pacing!Reserve, Pacing!Sleep
      <3> QED
        BY <1>0, <2>0, <2>1, <2>2, <3>1, <3>2, ReservedSleep
    <2>3. CASE ~ last[a] + asked[c].cost > clock
      <3>0. PICK k \in Nat : k = clock
        BY <2>1
      <3>1. /\ Pacing("reserved")!LetGo(c, a) /\ last' = [last EXCEPT ![a] = k]
            /\ UNCHANGED clock /\ \A e \in Caller : e # c => wake'[e] = wake[e]
        BY <1>1, <2>0, <2>3, <3>0 DEF Pacing!Reserve
      <3>2. ASSUME NEW x \in Nat, Behind(x, last[a], clock)
            PROVE  x + Interval <= k /\ Behind(x, k, clock)
        BY <1>0, <2>1, <2>3, <3>0, <3>2 DEF Behind
      <3>3. k <= clock /\ clock <= k + Late /\ Behind(k, k, clock) /\ (k = last[a] \/ k = clock)
        BY <1>0, <2>1, <3>0 DEF Behind
      <3>4. \A e \in Caller : e # c /\ pc[e] = "asleep" /\ asked[e].address = a =>
                Apart(k, wake[e])
        <4> TAKE e \in Caller
        <4>1. wake[e] \in Nat
          BY <1>0, ReservedTypes
        <4> QED
          BY <3>2, <4>1 DEF ReservedInv, Apart
      <3>5. \A place : Placed(place, starts[a], Wakes(a), last[a], clock) =>
                \A i \in 1 .. Len(starts[a]) : Apart(place[i], k)
        BY <3>2 DEF Placed, Apart
      <3>6. \A x \in Nat : Behind(x, last[a], clock) => Behind(x, k, clock)
        BY <3>2
      <3>7. pc[c] = "asleep" => wake[c] <= clock
        BY <2>0
      <3>8. asked[c].address = a
        BY <2>0
      <3>9. GoesFrom(c, a, k, k)
        BY <3>1, <3>3, <3>4, <3>5, <3>6, <3>7, <3>8 DEF GoesFrom
      <3> QED
        BY <1>0, <2>1, <3>9, ReservedLetGo
    <2> QED
      BY <2>2, <2>3
  <1>2. ASSUME NEW c \in Caller, Pacing("reserved")!Wake(c) PROVE ReservedInv'
    <2>0. PICK a : a = asked[c].address /\ pc[c] = "asleep" /\ clock >= wake[c]
      BY <1>2 DEF Pacing!Wake
    <2>1. /\ a \in Address /\ clock \in Nat /\ wake[c] \in Nat /\ last \in [Address -> Nat]
      BY <1>0, <2>0, ReservedTypes
    <2>2. PICK k, w \in Nat : k = last[a] /\ w = wake[c] /\ w <= clock /\ clock <= w + Late
      BY <2>0, <2>1 DEF ReservedInv
    <2>3. /\ Pacing("reserved")!LetGo(c, a) /\ last' = [last EXCEPT ![a] = k]
          /\ UNCHANGED clock /\ \A e \in Caller : e # c => wake'[e] = wake[e]
      BY <1>0, <1>2, <2>0, <2>1, <2>2, ReservedTypes DEF Pacing!Wake
    <2>4. Behind(w, k, clock) /\ \A x \in Nat : Behind(x, last[a], clock) => Behind(x, k, clock)
      BY <2>0, <2>2 DEF ReservedInv
    <2>5. \A e \in Caller : e # c /\ pc[e] = "asleep" /\ asked[e].address = a => Apart(w, wake[e])
      BY <2>0, <2>2 DEF ReservedInv
    <2>6. w \in Wakes(a)
      BY <2>0, <2>2 DEF Wakes, Sleepers
    <2>7. \A place : Placed(place, starts[a], Wakes(a), last[a], clock) =>
              \A i \in 1 .. Len(starts[a]) : Apart(place[i], w)
      BY <2>6 DEF Placed
    <2>8. (pc[c] = "asleep" => wake[c] <= clock) /\ (k = last[a] \/ k = clock)
          /\ w <= clock /\ clock <= w + Late /\ asked[c].address = a
      BY <2>0, <2>2
    <2>9. GoesFrom(c, a, w, k)
      BY <2>3, <2>4, <2>5, <2>7, <2>8 DEF GoesFrom
    <2> QED
      BY <1>0, <2>1, <2>9, ReservedLetGo
  <1>3. ASSUME NEW c \in Caller, Pacing("reserved")!Goes(c) PROVE ReservedInv'
    BY <1>1, <1>2, <1>3 DEF Pacing!Goes, Pacing!Hold, Pacing!Spend
  <1>4. ASSUME NEW c \in Caller, NEW a \in Address, Pacing("reserved")!Call(c, a) PROVE ReservedInv'
    <2>1. /\ pc[c] = "idle" /\ pc' = [pc EXCEPT ![c] = "asks"]
          /\ \A e \in Caller : e # c => asked'[e] = asked[e]
          /\ UNCHANGED <<clock, last, wake, starts>>
      BY <1>0, <1>4, ReservedTypes DEF Pacing!Call
    <2>2. \A e \in Caller : /\ pc'[e] = "asleep" <=> pc[e] = "asleep"
                            /\ pc[e] = "asleep" => asked'[e] = asked[e]
      BY <1>0, <2>1, ReservedTypes
    <2> QED
      BY <1>0, <2>1, <2>2, ReservedRest
  <1>5. ASSUME NEW a \in Address, Pacing("reserved")!Chunk(a) PROVE ReservedInv'
    <2>1. UNCHANGED <<clock, last, pc, asked, wake, starts>>
      BY <1>5 DEF Pacing!Chunk
    <2> QED
      BY <1>0, <2>1, ReservedRest
  <1> QED
    BY <1>0, <1>3, <1>4, <1>5, ReservedForget, ReservedTick DEF Pacing!Next

\* Each moment a sleeper has to wait is in the interval before a start that is
\* not after its own: there are no more moments than units in these intervals.
LEMMA ReservedSleeps ==
    ASSUME ReservedInv, NEW c \in Caller, pc[c] = "asleep"
    PROVE  wake[c] - clock <= (Interval + Scaling) *
               Cardinality({e \in Caller : pc[e] = "asleep" /\ wake[e] <= wake[c]})
  <1> DEFINE S == {e \in Caller : pc[e] = "asleep" /\ wake[e] <= wake[c]}
             Units == S \X (0 .. Interval + Scaling - 1)
             Moments == clock + 1 .. wake[c]
             Who(t) == CHOOSE e \in S : t <= wake[e] /\ wake[e] < t + Interval + Scaling
             f == [t \in Moments |-> <<Who(t), wake[Who(t)] - t>>]
  <1>0. /\ clock \in Nat /\ wake \in [Caller -> Nat] /\ Interval \in Nat \ {0} /\ Scaling \in Nat
        /\ PaceTypes("reserved")
    BY ReservedConstants, ReservedTypes DEF ReservedInv
  <1>1. IsFiniteSet(S) /\ Cardinality(S) \in Nat
    BY CallingFinite, ReservedConstants
  <1>2. PICK n \in Nat : n = (Interval + Scaling) * Cardinality(S)
    <2>1. PICK m \in Nat, q \in Nat : m = Cardinality(S) /\ q = Interval + Scaling
      BY <1>0, <1>1
    <2>2. q * m \in Nat
      OBVIOUS
    <2> HIDE DEF S
    <2> QED
      BY <2>1, <2>2
  <1>3. CASE wake[c] <= clock
    BY <1>0, <1>2, <1>3
  <1>4. CASE wake[c] > clock
    <2>1. ASSUME NEW t \in Moments
          PROVE  Who(t) \in S /\ wake[Who(t)] - t \in 0 .. Interval + Scaling - 1
      <3>1. Covered(wake[c])
        BY DEF ReservedInv
      <3>2. \E e \in S : t <= wake[e] /\ wake[e] < t + Interval + Scaling
        BY <3>1 DEF Covered
      <3>3. Who(t) \in S /\ t <= wake[Who(t)] /\ wake[Who(t)] < t + Interval + Scaling
        BY <3>2
      <3>4. wake[Who(t)] \in Nat /\ t \in Int
        BY <1>0, <3>3
      <3> HIDE DEF Who, S
      <3> QED
        BY <1>0, <3>3, <3>4
    <2>2. f \in [Moments -> Units]
      <3> HIDE DEF S, Who, Moments
      <3> QED
        BY <2>1
    <2>3. ASSUME NEW t \in Moments, NEW u \in Moments, f[t] = f[u] PROVE t = u
      <3> HIDE DEF S, Who
      <3>1. Who(t) = Who(u) /\ wake[Who(t)] - t = wake[Who(u)] - u
        BY <2>3
      <3>2. t \in Int /\ u \in Int /\ wake[Who(t)] - t \in Nat
        BY <1>0, <2>1
      <3>3. wake[Who(t)] \in Int
        BY <1>0, <2>1 DEF S
      <3> QED
        BY <3>1, <3>2, <3>3
    <2>4. f \in Injection(Moments, Units)
      <3> HIDE DEF f, Moments, Units
      <3> QED
        BY <2>2, <2>3 DEF Injection, IsInjective
    <2>5. IsFiniteSet(Units) /\ Cardinality(Units) = Cardinality(S) * (Interval + Scaling)
      <3>1. PICK b \in Int : b = Interval + Scaling - 1 /\ 0 <= b
        BY <1>0
      <3>2. IsFiniteSet(0 .. b) /\ Cardinality(0 .. b) = b - 0 + 1
        BY <3>1, UnitsCount
      <3>3. b - 0 + 1 = Interval + Scaling
        BY <1>0, <3>1
      <3> HIDE DEF S
      <3> QED
        BY <1>1, <3>1, <3>2, <3>3, FS_Product
    <2>6. Cardinality(Moments) = wake[c] - clock
      <3>1. PICK a \in Int, b \in Int : a = clock + 1 /\ b = wake[c] /\ a <= b + 1
        BY <1>0, <1>4
      <3>2. Cardinality(a .. b) = b - a + 1
        BY <3>1, UnitsCount
      <3> QED
        BY <1>0, <3>1, <3>2
    <2>7. Cardinality(Moments) <= Cardinality(Units)
      <3> HIDE DEF f, Moments, Units
      <3> QED
        BY <2>4, <2>5, FS_Injection
    <2>8. Cardinality(S) * (Interval + Scaling) = (Interval + Scaling) * Cardinality(S)
      BY <1>0, <1>1
    <2> HIDE DEF S, Moments, Units
    <2> QED
      BY <2>5, <2>6, <2>7, <2>8 DEF S
  <1> QED
    BY <1>0, <1>3, <1>4

\* Reserved starts are an interval apart, and nobody sleeps past its place.
LEMMA ReservedImplies ==
    ASSUME ReservedInv
    PROVE  /\ Pacing("reserved")!TypeOK /\ Pacing("reserved")!RequestsSpaced
           /\ Pacing("reserved")!SleepIsBounded
  <1>1. Pacing("reserved")!TypeOK
    BY PaceTypesImply, ReservedConstants DEF ReservedInv
  <1>2. ASSUME NEW a \in Address, NEW i \in DOMAIN starts[a], NEW j \in DOMAIN starts[a], i < j
        PROVE  starts[a][j] - starts[a][i] >= (j - i) * Interval - Late
    <2>1. starts[a] \in Seq(Nat)
      BY ReservedTypes DEF ReservedInv
    <2>2. PICK s, n : s = starts[a] /\ n = Len(s) /\ n \in Nat /\ DOMAIN s = 1 .. n
      <3>1. Len(starts[a]) \in Nat /\ DOMAIN starts[a] = 1 .. Len(starts[a])
        BY <2>1, LenProperties
      <3> QED
        BY <3>1
    <2>3. PICK place : Placed(place, s, Wakes(a), last[a], clock)
      BY <2>2 DEF ReservedInv
    <2>4. /\ \A k \in 1 .. n : s[k] \in Nat /\ place[k] \in Nat
          /\ \A k \in 1 .. n : place[k] <= s[k] /\ s[k] <= place[k] + Late
          /\ \A k, l \in 1 .. n : k < l => s[k] <= s[l]
          /\ Spread(place, n)
      BY <2>2, <2>3 DEF Placed
    <2>5. n \in Nat /\ i \in 1 .. n /\ j \in 1 .. n /\ Late \in Nat
      BY <2>2, ReservedConstants
    <2>6. s[j] - s[i] >= (j - i) * Interval - Late
      BY <1>2, <2>4, <2>5, SpreadSpans
    <2> QED
      BY <2>2, <2>6
  <1>3. Pacing("reserved")!RequestsSpaced
    BY <1>2 DEF Pacing!RequestsSpaced
  <1>4. Pacing("reserved")!SleepIsBounded
    <2>1. \A S : Pacing("reserved")!Cardinality(S) = Cardinality(S)
      BY DEF Pacing!Cardinality, Cardinality
    <2> QED
      BY <2>1, ReservedSleeps DEF Pacing!SleepIsBounded
  <1> QED
    BY <1>1, <1>3, <1>4

\* The bytes of a block that sleeps take the time until its end; U is the time
\* that the bytes let go took. No moment is taken twice.
Taken(U) ==
    /\ U \subseteq Int /\ IsFiniteSet(U) /\ Cardinality(U) = spent
    /\ \A u \in U : Interval < u /\ u <= clock /\ u <= last["total"]
    /\ \A u \in U, c \in Caller : pc[c] = "asleep" => u <= wake[c] - asked[c].cost \/ wake[c] < u

SpentInv ==
    /\ PaceTypes("spent") /\ \E U : Taken(U)
    /\ \A c \in Caller : pc[c] = "asleep" =>
           /\ Interval <= wake[c] - asked[c].cost /\ wake[c] <= last["total"]
           /\ \A e \in Caller : e # c /\ pc[e] = "asleep" =>
                  wake[e] <= wake[c] - asked[c].cost \/ wake[c] <= wake[e] - asked[e].cost

\* The variables of the byte budget.
LEMMA SpentTypes ==
    ASSUME PaceTypes("spent")
    PROVE  /\ "spent" \in Disciplines /\ Where("spent") = {"total"} /\ Interval \in Nat
           /\ clock \in Nat /\ Interval <= clock /\ spent \in Nat /\ last["total"] \in Nat
           /\ last \in [{"total"} -> Nat]
           /\ pc \in [Caller -> {"idle", "asks", "asleep"}] /\ wake \in [Caller -> Nat]
           /\ asked \in [Caller -> [address : {"total", "none"}, cost : Nat]]
           /\ \A c \in Caller : pc[c] # "idle" => asked[c].address = "total" /\ asked[c].cost \in Nat
  <1>1. "spent" \in Disciplines /\ Where("spent") = {"total"} /\ Slack("spent") = 0
    BY DEF Disciplines, Where, Slack
  <1>2. Interval \in Nat
    BY <1>1, PaceConstants
  <1> QED
    BY <1>1, <1>2 DEF PaceTypes

\* No byte is spent at the start.
LEMMA SpentInit == Pacing("spent")!Init => SpentInv
  <1> SUFFICES ASSUME Pacing("spent")!Init PROVE SpentInv
    OBVIOUS
  <1>1. PaceTypes("spent")
    BY PaceTypesInit DEF Disciplines
  <1>2. \A c \in Caller : pc[c] = "idle"
    BY DEF Pacing!Init
  <1>3. Taken({})
    BY <1>1, SpentTypes, FS_EmptySet DEF Taken, Pacing!Init
  <1> QED
    BY <1>1, <1>2, <1>3 DEF SpentInv

\* The bytes stay within their budget.
LEMMA SpentImplies == SpentInv => Pacing("spent")!TypeOK /\ Pacing("spent")!BytesKept
  <1> SUFFICES ASSUME SpentInv PROVE Pacing("spent")!TypeOK /\ Pacing("spent")!BytesKept
    OBVIOUS
  <1>0. PaceTypes("spent") /\ "spent" \in Disciplines /\ Interval \in Nat /\ clock \in Nat
        /\ Interval <= clock /\ spent \in Nat
    BY SpentTypes DEF SpentInv
  <1>1. PICK U : Taken(U)
    BY DEF SpentInv
  <1>2. PICK a \in Int, b \in Int : a = Interval + 1 /\ b = clock /\ a <= b + 1
    BY <1>0
  <1>3. IsFiniteSet(a .. b) /\ Cardinality(a .. b) = b - a + 1
    BY <1>2, UnitsCount
  <1>4. U \in SUBSET (a .. b)
    BY <1>0, <1>1, <1>2 DEF Taken
  <1>5. spent <= b - a + 1
    BY <1>1, <1>3, <1>4, FS_Subset DEF Taken
  <1>6. spent <= clock - Interval
    BY <1>0, <1>2, <1>5
  <1>7. Pacing("spent")!Start = Interval + 0
    BY DEF Pacing!Start
  <1> QED
    BY <1>0, <1>6, <1>7, PaceTypesImply DEF Pacing!BytesKept

\* A block takes the time after all that was taken.
LEMMA SpentSpend ==
    ASSUME SpentInv, PaceTypes("spent")', NEW c \in Caller, Pacing("spent")!Spend(c)
    PROVE  SpentInv'
  <1>0. PaceTypes("spent")
    BY DEF SpentInv
  <1>1. pc[c] = "asks" /\ asked[c].address = "total" /\ asked[c].cost \in Nat /\ clock \in Nat
        /\ last["total"] \in Nat /\ Interval \in Nat /\ Interval <= clock
    BY <1>0, SpentTypes DEF Pacing!Spend
  <1>2. PICK b : /\ b \in Nat /\ b >= clock /\ b >= last["total"]
                 /\ b = Pacing("spent")!Max({clock, last["total"]})
    <2>1. PICK S : S = {clock, last["total"]}
      OBVIOUS
    <2>2. /\ Pacing("spent")!Max(S) \in S /\ Pacing("spent")!Max(S) >= clock
          /\ Pacing("spent")!Max(S) >= last["total"]
      BY <1>1, <2>1, PaceExtremes DEF Disciplines
    <2> QED
      BY <1>1, <2>1, <2>2
  <1>3. PICK w : w = b + asked[c].cost
    OBVIOUS
  <1>4. /\ w \in Nat /\ b = w - asked[c].cost /\ b <= w
    BY <1>1, <1>2, <1>3
  <1>5. /\ pc' = [pc EXCEPT ![c] = "asleep"] /\ wake' = [wake EXCEPT ![c] = w]
        /\ last' = [last EXCEPT !["total"] = w] /\ UNCHANGED <<clock, asked, spent>>
    BY <1>1, <1>2, <1>3 DEF Pacing!Spend, Pacing!Sleep
  <1>6. last'["total"] = w /\ pc'[c] = "asleep" /\ wake'[c] = w
    BY <1>0, <1>5, SpentTypes
  <1>7. \A e \in Caller : e # c => pc'[e] = pc[e] /\ wake'[e] = wake[e]
    BY <1>0, <1>5, SpentTypes
  <1>8. \A e \in Caller : e # c /\ pc[e] = "asleep" => wake[e] \in Nat /\ wake[e] <= b
    <2> TAKE e \in Caller
    <2> HAVE e # c /\ pc[e] = "asleep"
    <2>1. wake[e] \in Nat /\ wake[e] <= last["total"]
      BY <1>0, SpentTypes DEF SpentInv
    <2> QED
      BY <1>1, <1>2, <2>1
  <1>9. ASSUME NEW e \in Caller, pc'[e] = "asleep"
        PROVE  /\ Interval <= wake'[e] - asked'[e].cost /\ wake'[e] <= last'["total"]
               /\ \A f \in Caller : f # e /\ pc'[f] = "asleep" =>
                      wake'[f] <= wake'[e] - asked'[e].cost \/ wake'[e] <= wake'[f] - asked'[f].cost
    <2>1. CASE e = c
      BY <1>1, <1>2, <1>4, <1>5, <1>6, <1>7, <1>8, <2>1
    <2>2. CASE e # c
      <3>1. /\ pc[e] = "asleep" /\ wake'[e] = wake[e] /\ wake[e] <= b /\ wake[e] \in Nat
            /\ Interval <= wake[e] - asked[e].cost
        BY <1>7, <1>8, <1>9, <2>2 DEF SpentInv
      <3>2. ASSUME NEW f \in Caller, f # e, pc'[f] = "asleep"
            PROVE  wake'[f] <= wake[e] - asked[e].cost \/ wake[e] <= wake'[f] - asked[f].cost
        <4>1. CASE f = c
          BY <1>4, <1>6, <3>1, <4>1
        <4>2. CASE f # c
          BY <1>7, <3>1, <3>2, <4>2 DEF SpentInv
        <4> QED
          BY <4>1, <4>2
      <3> QED
        BY <1>2, <1>4, <1>5, <1>6, <3>1, <3>2
    <2> QED
      BY <2>1, <2>2
  <1>10. PICK U : Taken(U)
    BY DEF SpentInv
  <1>11. Taken(U)'
    <2>1. \A u \in U : u \in Int /\ Interval < u /\ u <= clock /\ u <= last["total"]
      BY <1>10 DEF Taken
    <2>2. \A u \in U : u <= last'["total"]
      BY <1>1, <1>2, <1>4, <1>6, <2>1
    <2>3. ASSUME NEW u \in U, NEW e \in Caller, pc'[e] = "asleep"
          PROVE  u <= wake'[e] - asked'[e].cost \/ wake'[e] < u
      <3>1. CASE e = c
        BY <1>1, <1>2, <1>4, <1>5, <1>6, <2>1, <3>1
      <3>2. CASE e # c
        BY <1>5, <1>7, <1>10, <2>3, <3>2 DEF Taken
      <3> QED
        BY <3>1, <3>2
    <2> QED
      BY <1>5, <1>10, <2>1, <2>2, <2>3 DEF Taken
  <1> QED
    BY <1>9, <1>11 DEF SpentInv

\* A block goes when its time is over: its time is added to what was taken.
LEMMA SpentWake ==
    ASSUME SpentInv, PaceTypes("spent")', NEW c \in Caller, Pacing("spent")!Wake(c)
    PROVE  SpentInv'
  <1>0. PaceTypes("spent")
    BY DEF SpentInv
  <1>1. /\ pc[c] = "asleep" /\ wake[c] \in Nat /\ asked[c].cost \in Nat /\ clock \in Nat
        /\ wake[c] <= clock /\ Interval \in Nat /\ last["total"] \in Nat /\ spent \in Nat
    <2>1. pc[c] = "asleep" /\ clock >= wake[c]
      BY DEF Pacing!Wake
    <2>2. /\ wake[c] \in Nat /\ asked[c].cost \in Nat /\ clock \in Nat
          /\ Interval \in Nat /\ last["total"] \in Nat /\ spent \in Nat
      BY <1>0, <2>1, SpentTypes
    <2> QED
      BY <2>1, <2>2
  <1>2. /\ pc' = [pc EXCEPT ![c] = "idle"] /\ spent' = spent + asked[c].cost
        /\ wake' = [wake EXCEPT ![c] = 0] /\ UNCHANGED <<clock, last>>
    BY DEF Pacing!Wake, Pacing!LetGo
  <1>3. \A e \in Caller : pc'[e] = "asleep" =>
            e # c /\ pc[e] = "asleep" /\ wake'[e] = wake[e] /\ asked'[e] = asked[e]
    BY <1>0, <1>2, SpentTypes DEF Pacing!Wake, Pacing!LetGo
  <1>4. /\ Interval <= wake[c] - asked[c].cost /\ wake[c] <= last["total"]
        /\ \A e \in Caller : e # c /\ pc[e] = "asleep" =>
               wake[e] <= wake[c] - asked[c].cost \/ wake[c] <= wake[e] - asked[e].cost
    BY <1>1 DEF SpentInv
  <1>5. PICK U : Taken(U)
    BY DEF SpentInv
  <1>6. PICK a \in Int, b \in Int : a = wake[c] - asked[c].cost + 1 /\ b = wake[c] /\ a <= b + 1
    BY <1>1
  <1>7. IsFiniteSet(a .. b) /\ Cardinality(a .. b) = asked[c].cost
    <2>1. IsFiniteSet(a .. b) /\ Cardinality(a .. b) = b - a + 1
      BY <1>6, UnitsCount
    <2> QED
      BY <1>1, <1>6, <2>1
  <1>8. U \cap (a .. b) = {}
    BY <1>1, <1>5, <1>6 DEF Taken
  <1>9. IsFiniteSet(U \union (a .. b)) /\ Cardinality(U \union (a .. b)) = spent + asked[c].cost
    <2>1. Cardinality(U \cap (a .. b)) = 0 /\ IsFiniteSet(U) /\ Cardinality(U) = spent
      BY <1>5, <1>8, FS_EmptySet DEF Taken
    <2>2. /\ IsFiniteSet(U \union (a .. b))
          /\ Cardinality(U \union (a .. b)) =
                 Cardinality(U) + Cardinality(a .. b) - Cardinality(U \cap (a .. b))
      BY <1>7, <2>1, FS_Union
    <2> QED
      BY <1>1, <1>7, <2>1, <2>2
  <1>10. Taken(U \union (a .. b))'
    <2>1. ASSUME NEW u \in U \union (a .. b)
          PROVE  /\ u \in Int /\ Interval < u /\ u <= clock /\ u <= last["total"]
                 /\ \A e \in Caller : e # c /\ pc[e] = "asleep" =>
                        u <= wake[e] - asked[e].cost \/ wake[e] < u
      <3>1. CASE u \in U
        BY <1>5, <3>1 DEF Taken
      <3>2. CASE u \in a .. b
        <4>1. /\ u \in Int /\ wake[c] - asked[c].cost < u /\ u <= wake[c]
          BY <1>1, <1>6, <3>2
        <4>2. ASSUME NEW e \in Caller, e # c, pc[e] = "asleep"
              PROVE  u <= wake[e] - asked[e].cost \/ wake[e] < u
          <5>1. wake[e] \in Nat /\ asked[e].cost \in Nat
            BY <1>0, <4>2, SpentTypes
          <5>2. wake[e] <= wake[c] - asked[c].cost \/ wake[c] <= wake[e] - asked[e].cost
            BY <1>4, <4>2
          <5> QED
            BY <1>1, <4>1, <5>1, <5>2
        <4> QED
          BY <1>1, <1>4, <4>1, <4>2
      <3> QED
        BY <2>1, <3>1, <3>2
    <2>2. U \union (a .. b) \subseteq Int
      BY <2>1
    <2> QED
      BY <1>2, <1>3, <1>9, <2>1, <2>2 DEF Taken
  <1>11. ASSUME NEW e \in Caller, pc'[e] = "asleep"
         PROVE  /\ Interval <= wake'[e] - asked'[e].cost /\ wake'[e] <= last'["total"]
                /\ \A f \in Caller : f # e /\ pc'[f] = "asleep" =>
                       wake'[f] <= wake'[e] - asked'[e].cost \/ wake'[e] <= wake'[f] - asked'[f].cost
    BY <1>2, <1>3, <1>11 DEF SpentInv
  <1> QED
    BY <1>10, <1>11 DEF SpentInv

\* Every step of the byte budget keeps its invariant.
LEMMA SpentStep == SpentInv /\ Pacing("spent")!Next => SpentInv'
  <1> SUFFICES ASSUME SpentInv, Pacing("spent")!Next PROVE SpentInv'
    OBVIOUS
  <1>0. PaceTypes("spent") /\ PaceTypes("spent")' /\ "spent" \in Disciplines
    BY PaceTypesStep, SpentTypes DEF SpentInv
  <1>1. ASSUME NEW c \in Caller, Pacing("spent")!Goes(c) PROVE SpentInv'
    BY <1>0, <1>1, SpentSpend, SpentWake DEF Pacing!Goes, Pacing!Reserve, Pacing!Hold
  <1>2. ASSUME NEW c \in Caller, NEW a \in {"total"}, Pacing("spent")!Call(c, a) PROVE SpentInv'
    <2>1. /\ pc[c] = "idle" /\ pc' = [pc EXCEPT ![c] = "asks"]
          /\ \A e \in Caller : e # c => asked'[e] = asked[e]
          /\ UNCHANGED <<clock, last, wake, spent>>
      BY <1>0, <1>2, SpentTypes DEF Pacing!Call
    <2>2. \A e \in Caller : /\ pc'[e] = "asleep" <=> pc[e] = "asleep"
                            /\ pc[e] = "asleep" => asked'[e] = asked[e]
      BY <1>0, <2>1, SpentTypes
    <2>3. \A U : Taken(U) => Taken(U)'
      BY <2>1, <2>2 DEF Taken
    <2> QED
      BY <1>0, <2>1, <2>2, <2>3 DEF SpentInv
  <1>3. ASSUME NEW a \in {"total"}, Pacing("spent")!Chunk(a) \/ Pacing("spent")!Forget(a)
        PROVE  SpentInv'
    BY <1>3 DEF Pacing!Chunk, Pacing!Forget
  <1>4. CASE Pacing("spent")!Tick
    <2>1. clock \in Nat /\ clock' = clock + 1 /\ UNCHANGED <<last, pc, asked, wake, spent>>
      BY <1>0, <1>4, SpentTypes DEF Pacing!Tick
    <2>2. \A U : Taken(U) => Taken(U)'
      <3> TAKE U
      <3> HAVE Taken(U)
      <3>1. \A u \in U : u \in Int /\ u <= clock /\ u <= clock'
        BY <2>1 DEF Taken
      <3> QED
        BY <2>1, <3>1 DEF Taken
    <2> QED
      BY <1>0, <2>1, <2>2 DEF SpentInv
  <1> QED
    BY <1>1, <1>2, <1>3, <1>4 DEF Pacing!Next

-----------------------------------------------------------------------------
(* All parts together *)

\* Of the part that moves: the others are as they were at the beginning.
IInv ==
    /\ part = "held" => HeldInv
    /\ part = "reserved" => ReservedInv
    /\ part = "spent" => SpentInv
    /\ part = "budget" => BudgetInv
    /\ part = "pool" => PoolInv
    /\ part = "session" => SessionInv
    /\ part = "blocking" => AddressInv(FALSE)
    /\ part = "loop" => AddressInv(TRUE)
    /\ part = "health" => HealthInv(TRUE)
    /\ part = "successive" => HealthInv(FALSE)

\* Every part starts in its invariant.
LEMMA PartsInit == Init => IInv
  <1> SUFFICES ASSUME Init PROVE IInv
    OBVIOUS
  <1>1. BudgetInv /\ PoolInv /\ SessionInv
    BY BudgetInit, PoolInit, SessionInit DEF Init
  <1>2. AddressInv(FALSE) /\ AddressInv(TRUE)
    BY AddressInit DEF Init
  <1>3. Health(TRUE)!Init /\ Health(FALSE)!Init
    BY DEF Init, Health!Init, Health!NoVerdict
  <1>4. HealthInv(FALSE) /\ HealthInv(TRUE)
    BY <1>3, HealthInit
  <1>5. /\ part = "held" => Pacing("held")!Init
        /\ part = "reserved" => Pacing("reserved")!Init
        /\ part = "spent" => Pacing("spent")!Init
    BY DEF Init, Disciplines
  <1> QED
    BY <1>1, <1>2, <1>4, <1>5, HeldInit, ReservedInit, SpentInit DEF IInv

\* A part at rest keeps its invariant.
LEMMA PartsRest == IInv /\ UNCHANGED vars => IInv'
  <1> SUFFICES ASSUME IInv, UNCHANGED vars PROVE IInv'
    OBVIOUS
  <1> USE DEF vars
  <1>1. BudgetInv => BudgetInv'
    BY DEF budgetVars, BudgetInv, Budget!TypeOK, Holding, Slotted, Tasked, Trying, Asleep
  <1>2. PoolInv => PoolInv'
    BY DEF poolVars, PoolInv, Pool!TypeOK, Pooled
  <1>3. SessionInv => SessionInv'
    BY DEF sessionVars, SessionInv, SessionTypes, ChecksCounted, BeforeSignal, Begun, InCheck
  <1>4. \A a \in BOOLEAN : AddressInv(a) => AddressInv(a)'
    BY DEF addressVars, AddressInv, AddressTypes, RequestsKnow, Cached
  <1>5. \A o \in BOOLEAN : HealthInv(o) => HealthInv(o)'
    BY DEF healthVars, HealthInv, HealthTypes
  <1>6. PaceTypes("held") => PaceTypes("held")'
    BY DEF pacingVars, PaceTypes, Calling
  <1>7. PaceTypes("reserved") => PaceTypes("reserved")'
    BY DEF pacingVars, PaceTypes, Calling
  <1>8. PaceTypes("spent") => PaceTypes("spent")'
    BY DEF pacingVars, PaceTypes, Calling
  <1>9. HeldInv => HeldInv'
    BY <1>6 DEF pacingVars, HeldInv
  <1>10. ReservedInv => ReservedInv'
    BY <1>7, ReservedRest DEF pacingVars, ReservedInv
  <1>11. SpentInv => SpentInv'
    BY <1>8 DEF pacingVars, SpentInv, Taken
  <1> QED
    BY <1>1, <1>2, <1>3, <1>4, <1>5, <1>9, <1>10, <1>11 DEF IInv

\* The part that moves keeps its invariant, the others do not move.
LEMMA PartsStep == IInv /\ [Next]_vars => IInv'
  <1> SUFFICES ASSUME IInv, [Next]_vars PROVE IInv'
    OBVIOUS
  <1>1. CASE PacingMoves
    <2>1. PICK d \in Disciplines : part = d /\ Pacing(d)!Next /\ part' = part
      BY <1>1 DEF PacingMoves
    <2> QED
      BY <2>1, HeldStep, ReservedStep, SpentStep DEF IInv, Disciplines
  <1>2. CASE BudgetMoves
    BY <1>2, BudgetStep DEF BudgetMoves, IInv
  <1>3. CASE PoolMoves
    BY <1>3, PoolStep DEF PoolMoves, IInv
  <1>4. CASE AddressesMove
    BY <1>4, AddressStep DEF AddressesMove, IInv
  <1>5. CASE HealthMoves
    BY <1>5, HealthStep DEF HealthMoves, IInv
  <1>6. CASE SessionMoves
    BY <1>6, SessionStep DEF SessionMoves, IInv
  <1>7. CASE UNCHANGED vars
    BY <1>7, PartsRest
  <1> QED
    BY <1>1, <1>2, <1>3, <1>4, <1>5, <1>6, <1>7 DEF Next

\* The invariants of all parts hold always.
LEMMA PartsAlways == Spec => []IInv
  BY PartsInit, PartsStep, PTL DEF Spec

\* Every variable of the part that moves has its type, for every size of it.
THEOREM TypeCorrect == Spec => []TypeOK
  <1>1. IInv => TypeOK
    BY HeldImplies, ReservedImplies, SpentImplies, BudgetImplies, PoolImplies, AddressImplies,
       HealthImplies, SessionImplies DEF IInv, TypeOK, Disciplines
  <1> QED
    BY <1>1, PartsAlways, PTL

\* Requests to a host start an interval apart, and lateness counts once in a
\* burst; a caller sleeps one interval for each before it, and never longer; the
\* byte limit holds for all workers together (rate_limiter.py:63, 118, 209, 332;
\* transfers.py:81).
THEOREM PaceAlwaysKept == Spec => []PaceKept
  <1>1. IInv => PaceKept
    BY HeldImplies, ReservedImplies, SpentImplies DEF IInv, PaceKept
  <1> QED
    BY <1>1, PartsAlways, PTL

\* The counter of active threads is the number of slots somebody holds, whatever
\* the limit and the numbers of requests and submissions, and a free slot leaves
\* no submission asleep (concurrency.py:156-248, connection.py:53).
THEOREM SlotsAlwaysKept == Spec => []SlotsKept
  <1>1. IInv => SlotsKept
    BY BudgetImplies DEF IInv, SlotsKept
  <1> QED
    BY <1>1, PartsAlways, PTL

\* Open clients are those in the table, at most max_pools of them; the client of
\* the asynchronous checks outlives them, is closed in the end, and no check is
\* left among the tasks (connection.py:207-318, async_connection.py:1145-1179).
THEOREM ClientsAlwaysKept == Spec => []ClientsKept
  <1>1. IInv => ClientsKept
    BY PoolImplies, SessionImplies DEF IInv, ClientsKept
  <1> QED
    BY <1>1, PartsAlways, PTL

\* A request survives one rotation of its host's address, a host is looked up
\* once for all who wait, and the cache keeps its size, for every size of the
\* cache and number of threads (transport.py:35, 135-161, 300-307).
THEOREM AddressesAlwaysKept == Spec => []AddressesKept
  <1>1. IInv => AddressesKept
    BY AddressImplies DEF IInv, AddressesKept
  <1> QED
    BY <1>1, PartsAlways, PTL

\* Throttling is called only after that many incidents inside the window, a full
\* list that drops its oldest times never changes an answer, and runs that follow
\* one another decide on every incident there was (domain_health.py:25-92).
THEOREM VerdictsAlwaysFounded == Spec => []VerdictsFounded
  <1>1. IInv => VerdictsFounded
    BY HealthImplies DEF IInv, VerdictsFounded
  <1> QED
    BY <1>1, PartsAlways, PTL
=============================================================================
