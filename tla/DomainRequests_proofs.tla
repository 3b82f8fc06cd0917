------------------------ MODULE DomainRequests_proofs ------------------------
(***************************************************************************)
(* For any number of threads and any limits: the type invariant, the       *)
(* balance of the thread budget, the counters of the breaker and the bound *)
(* on half-open probes. The inductive invariant adds where in request() a  *)
(* thread holds its lease, and that no probe outlives its window.          *)
(***************************************************************************)
EXTENDS DomainRequests, FiniteSetTheorems, TLAPS

\* A thread holds its lease from acquire_thread to the redirect, the stream or
\* the outer finally that takes it.
LeaseInv ==
    \A t \in Thread :
        /\ pc[t] \in {"ask", "scope", "send"} => acquired[t]
        /\ pc[t] \in {"idle", "lease", "body"} => ~acquired[t]

\* A window's probes are forgotten with it.
ProbeInv ==
    /\ breaker.state = "half_open" => Cardinality(Probes) <= breaker.permits
    /\ breaker.state # "half_open" => Probes = {}

IInv == TypeOK /\ CountersFit /\ LeasesBalance /\ LeaseInv /\ ProbeInv

-----------------------------------------------------------------------------
\* can_execute, record_success and record_failure keep a breaker well formed,
\* and say which requests are probes.
LEMMA AskedFits ==
    ASSUME NEW b \in Breakers, Fit(b)
    PROVE  /\ Asked(b) \in Breakers /\ Fit(Asked(b))
           /\ MayProbe(b) =>
                /\ Asked(b).state = "half_open"
                /\ b.state = "open" => Asked(b).permits = 1
                /\ b.state = "half_open" => Asked(b).permits = b.permits + 1
                /\ b.state # "closed"
           /\ ~MayProbe(b) /\ Asked(b).state = "half_open" => Asked(b) = b
  <1>1. CASE b.state = "open" /\ b.elapsed
    BY <1>1, BreakerAssumption
       DEF Asked, WindowStart, Breakers, Fit, MayProbe, States
  <1>2. CASE b.state = "half_open" /\ b.elapsed
    BY <1>2, BreakerAssumption
       DEF Asked, WindowEnd, Opened, Breakers, Fit, MayProbe, States
  <1>3. CASE b.state = "half_open" /\ ~b.elapsed /\ b.permits < HalfOpenLimit
    <2>1. Asked(b) = [b EXCEPT !.permits = @ + 1]
      BY <1>3 DEF Asked, MayProbe
    <2> QED BY <1>3, <2>1, BreakerAssumption DEF Breakers, Fit, MayProbe, States
  <1>4. CASE /\ b.state = "open" => ~b.elapsed
             /\ b.state = "half_open" => ~b.elapsed /\ ~(b.permits < HalfOpenLimit)
    BY <1>4 DEF Asked, Breakers, Fit, MayProbe, States
  <1> QED BY <1>1, <1>2, <1>3, <1>4 DEF Breakers, States

LEMMA SucceededFits ==
    ASSUME NEW b \in Breakers, Fit(b)
    PROVE  /\ Succeeded(b) \in Breakers /\ Fit(Succeeded(b))
           /\ Succeeded(b).state = "half_open" =>
                b.state = "half_open" /\ Succeeded(b).permits = b.permits
  BY BreakerAssumption DEF Succeeded, Closed, Breakers, Fit, States

LEMMA FailedFits ==
    ASSUME NEW b \in Breakers, Fit(b)
    PROVE  /\ Failed(b) \in Breakers /\ Fit(Failed(b))
           /\ Failed(b).state # "half_open"
  <1>1. CASE b.state = "half_open"
    BY <1>1, BreakerAssumption DEF Failed, Opened, Breakers, Fit, States
  <1>2. CASE b.state = "closed" /\ b.failures + 1 >= FailureThreshold
    <2>1. Failed(b) = Opened(b.failures + 1, FALSE)
      BY <1>2 DEF Failed
    <2> QED BY <1>2, <2>1, BreakerAssumption DEF Opened, Breakers, Fit, States
  <1>3. CASE b.state = "closed" /\ ~(b.failures + 1 >= FailureThreshold)
    <2> DEFINE c == [b EXCEPT !.failures = @ + 1]
    <2>1. Failed(b) = [c EXCEPT !.elapsed = FALSE]
      BY <1>3 DEF Failed
    <2>2. c \in Breakers /\ Fit(c) /\ c.state = "closed"
      BY <1>3, BreakerAssumption DEF Breakers, Fit, States
    <2> HIDE DEF c
    <2> QED BY <2>1, <2>2, BreakerAssumption DEF Breakers, Fit, States
  <1>4. CASE b.state = "open"
    <2>1. Failed(b) = [b EXCEPT !.elapsed = FALSE]
      BY <1>4 DEF Failed
    <2> QED BY <1>4, <2>1, BreakerAssumption DEF Breakers, Fit, States
  <1> QED BY <1>1, <1>2, <1>3, <1>4 DEF Breakers, States

\* The sets that count leases and probes are finite, and what a step that
\* changes one thread does to their size.
LEMMA Subsets ==
    ASSUME NEW S \in SUBSET Thread
    PROVE  /\ IsFiniteSet(S) /\ Cardinality(S) \in Nat
           /\ S = {} => Cardinality(S) = 0
           /\ \A t \in Thread :
                /\ IsFiniteSet(S \cup {t}) /\ IsFiniteSet(S \ {t})
                /\ t \notin S => Cardinality(S \cup {t}) = Cardinality(S) + 1
                /\ Cardinality(S \cup {t}) <= Cardinality(S) + 1
                /\ t \in S => /\ Cardinality(S \ {t}) = Cardinality(S) - 1
                              /\ Cardinality(S) > 0
                /\ Cardinality(S \ {t}) <= Cardinality(S)
  <1>1. IsFiniteSet(S)
    BY RequestsAssumption, FS_Subset
  <1>2. Cardinality(S) \in Nat
    BY <1>1, FS_CardinalityType
  <1>3. S = {} => Cardinality(S) = 0
    BY FS_EmptySet
  <1>4. ASSUME NEW t \in Thread
        PROVE  /\ IsFiniteSet(S \cup {t}) /\ IsFiniteSet(S \ {t})
               /\ t \notin S => Cardinality(S \cup {t}) = Cardinality(S) + 1
               /\ Cardinality(S \cup {t}) <= Cardinality(S) + 1
               /\ t \in S => /\ Cardinality(S \ {t}) = Cardinality(S) - 1
                             /\ Cardinality(S) > 0
               /\ Cardinality(S \ {t}) <= Cardinality(S)
    <2>1. t \in S => Cardinality(S) # 0
      BY <1>1, FS_EmptySet
    <2>2. /\ IsFiniteSet(S \cup {t})
          /\ Cardinality(S \cup {t}) =
               IF t \in S THEN Cardinality(S) ELSE Cardinality(S) + 1
      BY <1>1, FS_AddElement
    <2>3. /\ IsFiniteSet(S \ {t})
          /\ Cardinality(S \ {t}) =
               IF t \in S THEN Cardinality(S) - 1 ELSE Cardinality(S)
      BY <1>1, FS_RemoveElement
    <2>4. CASE t \in S
      BY <1>2, <2>1, <2>2, <2>3, <2>4
    <2>5. CASE t \notin S
      BY <1>2, <2>2, <2>3, <2>5
    <2> QED BY <2>4, <2>5
  <1> QED BY <1>1, <1>2, <1>3, <1>4

\* A thread that holds a lease is counted; a step that takes or gives back one
\* lease, or leaves all the leases where they are, keeps the balance.
LEMMA LeaseStep ==
    ASSUME TypeOK, LeasesBalance, NEW t \in Thread
    PROVE  /\ t \in Holders => active > 0
           /\ Holders' = Holders /\ active' = active => LeasesBalance'
           /\ /\ t \notin Holders /\ Holders' = Holders \cup {t}
              /\ active' = active + 1
              => LeasesBalance'
           /\ t \in Holders /\ Holders' = Holders \ {t} /\ active' = active - 1
              => LeasesBalance'
  <1>1. Holders \in SUBSET Thread
    BY DEF Holders
  <1> QED BY <1>1, Subsets DEF LeasesBalance

\* The probes do not grow and their window stays, or it ends.
LEMMA ProbeStep ==
    ASSUME ProbeInv, breaker \in Breakers, NEW t \in Thread,
           \/ /\ Probes' = Probes \/ Probes' = Probes \ {t}
              /\ breaker'.state = breaker.state
              /\ breaker'.permits = breaker.permits
           \/ breaker'.state # "half_open" /\ Probes' = {}
    PROVE  ProbeInv'
  <1>1. Probes \in SUBSET Thread
    BY DEF Probes
  <1>2. Cardinality(Probes) \in Nat /\ Cardinality(Probes \ {t}) \in Nat
        /\ Cardinality(Probes \ {t}) <= Cardinality(Probes)
    BY <1>1, Subsets, FS_CardinalityType
  <1>3. breaker.permits \in Nat
    BY BreakerAssumption DEF Breakers
  <1> QED BY <1>2, <1>3 DEF ProbeInv

LEMMA InitInv == Init => IInv
  <1> SUFFICES ASSUME Init PROVE IInv
    OBVIOUS
  <1> USE DEF Init
  <1>1. TypeOK
    <2>1. breaker \in Breakers
      BY BreakerAssumption DEF Closed, Breakers, States
    <2>2. /\ active \in 0..MaxThreads /\ depth \in [Thread -> 0..MaxRedirects]
          /\ attempt \in [Thread -> 0..MaxRetries]
      BY RequestsAssumption
    <2> QED BY <2>1, <2>2 DEF TypeOK
  <1>2. CountersFit
    BY BreakerAssumption DEF CountersFit, Fit, Closed
  <1>3. LeasesBalance
    BY FS_EmptySet DEF LeasesBalance, Holders
  <1>4. LeaseInv
    BY DEF LeaseInv
  <1>5. ProbeInv
    BY DEF ProbeInv, Probes, Closed
  <1> QED BY <1>1, <1>2, <1>3, <1>4, <1>5 DEF IInv

\* Every step keeps the inductive invariant: what it does to the types, to the
\* leases and to the breaker with its probes.
LEMMA NextInv == IInv /\ [Next]_vars => IInv'
  <1> SUFFICES ASSUME IInv, [Next]_vars PROVE IInv'
    OBVIOUS
  <1> USE DEF IInv
  <1>0. /\ breaker \in Breakers /\ Fit(breaker)
        /\ MaxThreads \in Nat /\ MaxRetries \in Nat /\ MaxRedirects \in Nat
    BY BreakerAssumption, RequestsAssumption DEF TypeOK, CountersFit
  <1>1. ASSUME NEW t \in Thread, NEW u \in Urls, Start(t, u) PROVE IInv'
    <2>1. TypeOK'
      BY <1>0, <1>1 DEF Start, Goto, TypeOK
    <2>2. CountersFit'
      BY <1>1 DEF Start, Goto, CountersFit
    <2>3. LeaseInv'
      BY <1>1 DEF Start, Goto, LeaseInv, TypeOK
    <2>4. LeasesBalance'
      <3>1. Holders' = Holders /\ active' = active
        BY <1>1 DEF Start, Goto, LeaseInv, TypeOK, Holders
      <3> QED BY <3>1, LeaseStep
    <2>5. ProbeInv'
      <3>1. Probes' = Probes /\ breaker' = breaker
        BY <1>1 DEF Start, Goto, Probes
      <3> QED BY <3>1 DEF ProbeInv
    <2> QED BY <2>1, <2>2, <2>3, <2>4, <2>5
  <1>2. ASSUME NEW t \in Thread, Lease(t) PROVE IInv'
    <2>1. TypeOK'
      <3>1. active' \in 0..MaxThreads
        BY <1>0, <1>2 DEF Lease, Goto, TypeOK
      <3>2. acquired' \in [Thread -> BOOLEAN]
        BY <1>2 DEF Lease, Goto, TypeOK
      <3> QED BY <1>2, <3>1, <3>2 DEF Lease, Goto, TypeOK
    <2>2. CountersFit'
      BY <1>2 DEF Lease, Goto, CountersFit
    <2>3. LeaseInv'
      BY <1>2 DEF Lease, Goto, LeaseInv, TypeOK
    <2>4. LeasesBalance'
      <3>1. CASE active < MaxThreads
        <4>1. t \notin Holders /\ Holders' = Holders \cup {t} /\ active' = active + 1
          BY <1>2, <3>1 DEF Lease, Goto, LeaseInv, TypeOK, Holders
        <4> QED BY <4>1, LeaseStep
      <3>2. CASE ~(active < MaxThreads)
        <4>1. Holders' = Holders /\ active' = active
          BY <1>2, <3>2 DEF Lease, Goto, LeaseInv, TypeOK, Holders
        <4> QED BY <4>1, LeaseStep
      <3> QED BY <3>1, <3>2
    <2>5. ProbeInv'
      <3>1. Probes' = Probes /\ breaker' = breaker
        BY <1>2 DEF Lease, Goto, Probes
      <3> QED BY <3>1 DEF ProbeInv
    <2> QED BY <2>1, <2>2, <2>3, <2>4, <2>5
  <1>3. ASSUME NEW t \in Thread, Blocked(t) PROVE IInv'
    <2>1. TypeOK'
      BY <1>0, <1>3 DEF Blocked, Goto, requestVars, TypeOK
    <2>2. CountersFit'
      BY <1>3 DEF Blocked, Goto, requestVars, CountersFit
    <2>3. LeaseInv'
      BY <1>3 DEF Blocked, Goto, requestVars, LeaseInv, TypeOK
    <2>4. LeasesBalance'
      <3>1. Holders' = Holders /\ active' = active
        BY <1>3 DEF Blocked, Goto, requestVars, LeaseInv, TypeOK, Holders
      <3> QED BY <3>1, LeaseStep
    <2>5. ProbeInv'
      <3>1. Probes' = Probes /\ breaker' = breaker
        BY <1>3 DEF Blocked, Goto, requestVars, Probes
      <3> QED BY <3>1 DEF ProbeInv
    <2> QED BY <2>1, <2>2, <2>3, <2>4, <2>5
  <1>4. ASSUME NEW t \in Thread, Ask(t) PROVE IInv'
    <2>2. CountersFit' /\ breaker' \in Breakers
      BY <1>0, <1>4, AskedFits DEF Ask, Goto, requestVars, CountersFit
    <2>1. TypeOK'
      BY <1>0, <1>4, <2>2 DEF Ask, Goto, requestVars, TypeOK, ProbesAfter
    <2>3. LeaseInv'
      BY <1>4 DEF Ask, Goto, requestVars, LeaseInv, TypeOK
    <2>4. LeasesBalance'
      <3>1. Holders' = Holders /\ active' = active
        BY <1>4 DEF Ask, Goto, requestVars, LeaseInv, TypeOK, Holders
      <3> QED BY <3>1, LeaseStep
    <2>5. ProbeInv'
      <3>0. Probes \in SUBSET Thread
        BY DEF Probes
      <3>1. CASE MayProbe(breaker)
        <4>1. breaker'.state = "half_open" /\ Probes' = Probes \cup {t}
          BY <1>0, <1>4, <3>1, AskedFits DEF Ask, Goto, requestVars, ProbesAfter, Probes, TypeOK
        <4>2. CASE breaker.state = "open"
          BY <1>0, <1>4, <3>0, <3>1, <4>1, <4>2, AskedFits, Subsets DEF Ask, Goto, requestVars, ProbeInv
        <4>3. CASE breaker.state = "half_open"
          <5>1. breaker'.permits = breaker.permits + 1
            BY <1>0, <1>4, <3>1, <4>3, AskedFits DEF Ask, Goto, requestVars
          <5>2. /\ Cardinality(Probes) \in Nat /\ Cardinality(Probes') \in Nat
                /\ Cardinality(Probes') <= Cardinality(Probes) + 1
            BY <3>0, <4>1, Subsets, FS_CardinalityType
          <5>3. breaker.permits \in Nat
            BY <1>0, BreakerAssumption DEF Breakers
          <5> QED BY <4>1, <4>3, <5>1, <5>2, <5>3 DEF ProbeInv
        <4> QED BY <3>1, <4>2, <4>3 DEF MayProbe
      <3>2. CASE ~MayProbe(breaker) /\ breaker'.state = "half_open"
        <4>1. breaker' = breaker /\ Probes' = Probes
          BY <1>0, <1>4, <3>2, AskedFits DEF Ask, Goto, requestVars, ProbesAfter, Probes, TypeOK
        <4> QED BY <4>1 DEF ProbeInv
      <3>3. CASE breaker'.state # "half_open"
        BY <1>4, <3>3 DEF Ask, Goto, requestVars, ProbesAfter, Probes, ProbeInv
      <3> QED BY <3>1, <3>2, <3>3
    <2> QED BY <2>1, <2>2, <2>3, <2>4, <2>5
  <1>5. ASSUME NEW t \in Thread, Scope(t) PROVE IInv'
    <2>1. TypeOK'
      BY <1>0, <1>5 DEF Scope, Goto, TypeOK
    <2>2. CountersFit'
      BY <1>5 DEF Scope, Goto, CountersFit
    <2>3. LeaseInv'
      BY <1>5 DEF Scope, Goto, LeaseInv, TypeOK
    <2>4. LeasesBalance'
      <3>1. Holders' = Holders /\ active' = active
        BY <1>5 DEF Scope, Goto, LeaseInv, TypeOK, Holders
      <3> QED BY <3>1, LeaseStep
    <2>5. ProbeInv'
      <3>1. Probes' = Probes /\ breaker' = breaker
        BY <1>5 DEF Scope, Goto, Probes
      <3> QED BY <3>1 DEF ProbeInv
    <2> QED BY <2>1, <2>2, <2>3, <2>4, <2>5
  <1>6. ASSUME NEW t \in Thread, AnswerOk(t) PROVE IInv'
    <2>2. CountersFit' /\ breaker' \in Breakers
      BY <1>0, <1>6, SucceededFits DEF AnswerOk, Report, Goto, CountersFit
    <2>1. TypeOK'
      BY <1>0, <1>6, <2>2 DEF AnswerOk, Report, Goto, ProbesAfter, TypeOK
    <2>3. LeaseInv'
      BY <1>6 DEF AnswerOk, Report, Goto, LeaseInv, TypeOK
    <2>4. LeasesBalance'
      <3>1. Holders' = Holders /\ active' = active
        BY <1>6 DEF AnswerOk, Report, Goto, LeaseInv, TypeOK, Holders
      <3> QED BY <3>1, LeaseStep
    <2>5. ProbeInv'
      <3>1. CASE breaker'.state = "half_open"
        <4>1. /\ breaker.state = "half_open" /\ breaker'.permits = breaker.permits
              /\ Probes' = Probes
          BY <1>0, <1>6, <3>1, SucceededFits DEF AnswerOk, Report, Goto, ProbesAfter, Probes
        <4> QED BY <1>0, <3>1, <4>1, ProbeStep
      <3>2. CASE breaker'.state # "half_open"
        BY <1>6, <3>2 DEF AnswerOk, Report, Goto, ProbesAfter, Probes, ProbeInv
      <3> QED BY <3>1, <3>2
    <2> QED BY <2>1, <2>2, <2>3, <2>4, <2>5
  <1>7. ASSUME NEW t \in Thread, AnswerFinal(t) PROVE IInv'
    <2>2. CountersFit' /\ breaker' \in Breakers
      BY <1>0, <1>7, FailedFits DEF AnswerFinal, Report, Goto, requestVars, CountersFit
    <2>1. TypeOK'
      BY <1>0, <1>7, <2>2 DEF AnswerFinal, Report, Goto, requestVars, ProbesAfter, TypeOK
    <2>3. LeaseInv'
      BY <1>7 DEF AnswerFinal, Report, Goto, requestVars, LeaseInv, TypeOK
    <2>4. LeasesBalance'
      <3>1. Holders' = Holders /\ active' = active
        BY <1>7 DEF AnswerFinal, Report, Goto, requestVars, LeaseInv, TypeOK, Holders
      <3> QED BY <3>1, LeaseStep
    <2>5. ProbeInv'
      <3>1. breaker'.state # "half_open"
        BY <1>0, <1>7, FailedFits DEF AnswerFinal, Report, Goto, requestVars
      <3>2. Probes' = {}
        BY <1>7, <3>1 DEF AnswerFinal, Report, Goto, requestVars, ProbesAfter, Probes
      <3> QED BY <3>1, <3>2 DEF ProbeInv
    <2> QED BY <2>1, <2>2, <2>3, <2>4, <2>5
  <1>8. ASSUME NEW t \in Thread, AnswerRetry(t) PROVE IInv'
    <2>2. CountersFit' /\ breaker' \in Breakers
      BY <1>0, <1>8, FailedFits DEF AnswerRetry, Report, Goto, CountersFit
    <2>1. TypeOK'
      <3>1. attempt' \in [Thread -> 0..MaxRetries]
        BY <1>0, <1>8 DEF AnswerRetry, Report, Goto, TypeOK
      <3>2. pc' \in [Thread -> {"idle", "lease", "ask", "scope", "send", "body", "leave"}]
            /\ probe' \in [Thread -> BOOLEAN]
        BY <1>8 DEF AnswerRetry, Report, Goto, ProbesAfter, TypeOK
      <3> QED BY <1>8, <2>2, <3>1, <3>2 DEF AnswerRetry, Report, Goto, TypeOK
    <2>3. LeaseInv'
      BY <1>8 DEF AnswerRetry, Report, Goto, LeaseInv, TypeOK
    <2>4. LeasesBalance'
      <3>1. Holders' = Holders /\ active' = active
        BY <1>8 DEF AnswerRetry, Report, Goto, LeaseInv, TypeOK, Holders
      <3> QED BY <3>1, LeaseStep
    <2>5. ProbeInv'
      <3>1. CASE attempt[t] < MaxRetries
        <4>1. Probes' = Probes /\ breaker' = breaker
          BY <1>8, <3>1 DEF AnswerRetry, Report, Goto, Probes
        <4> QED BY <4>1 DEF ProbeInv
      <3>2. CASE ~(attempt[t] < MaxRetries)
        <4>1. breaker'.state # "half_open"
          BY <1>0, <1>8, <3>2, FailedFits DEF AnswerRetry, Report, Goto
        <4>2. Probes' = {}
          BY <1>8, <3>2, <4>1 DEF AnswerRetry, Report, Goto, ProbesAfter, Probes
        <4> QED BY <4>1, <4>2 DEF ProbeInv
      <3> QED BY <3>1, <3>2
    <2> QED BY <2>1, <2>2, <2>3, <2>4, <2>5
  <1>9. ASSUME NEW t \in Thread, AnswerRedirect(t) PROVE IInv'
    <2>4. LeasesBalance' /\ active' \in 0..MaxThreads
      <3>1. CASE /\ active' = active - 1 /\ Goto(t, "lease")
                 /\ acquired' = [acquired EXCEPT ![t] = FALSE]
        <4>1. t \in Holders /\ Holders' = Holders \ {t} /\ active' = active - 1
          BY <1>9, <3>1 DEF AnswerRedirect, Goto, LeaseInv, TypeOK, Holders
        <4> QED BY <1>0, <4>1, LeaseStep DEF TypeOK
      <3>2. CASE active' = active /\ acquired' = acquired /\ Goto(t, "leave")
        <4>1. Holders' = Holders /\ active' = active
          BY <1>9, <3>2 DEF AnswerRedirect, Goto, LeaseInv, TypeOK, Holders
        <4> QED BY <4>1, LeaseStep DEF TypeOK
      <3> QED BY <1>9, <3>1, <3>2 DEF AnswerRedirect
    <2>1. TypeOK'
      <3>1. depth' \in [Thread -> 0..MaxRedirects]
        BY <1>0, <1>9 DEF AnswerRedirect, Goto, TypeOK
      <3>2. acquired' \in [Thread -> BOOLEAN]
        BY <1>9 DEF AnswerRedirect, Goto, TypeOK
      <3> QED BY <1>9, <2>4, <3>1, <3>2 DEF AnswerRedirect, Goto, TypeOK
    <2>2. CountersFit'
      BY <1>9 DEF AnswerRedirect, Goto, CountersFit
    <2>3. LeaseInv'
      BY <1>9 DEF AnswerRedirect, Goto, LeaseInv, TypeOK
    <2>5. ProbeInv'
      <3>1. Probes' = Probes /\ breaker' = breaker
        BY <1>9 DEF AnswerRedirect, Goto, Probes
      <3> QED BY <3>1 DEF ProbeInv
    <2> QED BY <2>1, <2>2, <2>3, <2>4, <2>5
  <1>10. ASSUME NEW t \in Thread, CloseBody(t) PROVE IInv'
    <2>4. LeasesBalance' /\ active' \in 0..MaxThreads
      <3>1. t \in Holders /\ Holders' = Holders \ {t} /\ active' = active - 1
        BY <1>10 DEF CloseBody, Done, Goto, requestVars, LeaseInv, TypeOK, Holders
      <3> QED BY <1>0, <3>1, LeaseStep DEF TypeOK
    <2>1. TypeOK'
      BY <1>0, <1>10, <2>4 DEF CloseBody, Done, Goto, requestVars, TypeOK
    <2>2. CountersFit'
      BY <1>10 DEF CloseBody, Done, Goto, requestVars, CountersFit
    <2>3. LeaseInv'
      BY <1>10 DEF CloseBody, Done, Goto, requestVars, LeaseInv, TypeOK
    <2>5. ProbeInv'
      <3>1. Probes' = Probes \ {t} /\ breaker' = breaker
        BY <1>10 DEF CloseBody, Done, Goto, requestVars, Probes, TypeOK
      <3> QED BY <1>0, <3>1, ProbeStep
    <2> QED BY <2>1, <2>2, <2>3, <2>4, <2>5
  <1>11. ASSUME NEW t \in Thread, Leave(t) PROVE IInv'
    <2>4. LeasesBalance' /\ active' \in 0..MaxThreads
      <3>1. CASE acquired[t]
        <4>1. t \in Holders /\ Holders' = Holders \ {t} /\ active' = active - 1
          BY <1>11, <3>1 DEF Leave, Done, Goto, LeaseInv, TypeOK, Holders
        <4> QED BY <1>0, <4>1, LeaseStep DEF TypeOK
      <3>2. CASE ~acquired[t]
        <4>1. Holders' = Holders /\ active' = active
          BY <1>11, <3>2 DEF Leave, Done, Goto, LeaseInv, TypeOK, Holders
        <4> QED BY <4>1, LeaseStep DEF TypeOK
      <3> QED BY <3>1, <3>2
    <2>1. TypeOK'
      BY <1>0, <1>11, <2>4 DEF Leave, Done, Goto, TypeOK
    <2>2. CountersFit'
      BY <1>11 DEF Leave, Done, Goto, CountersFit
    <2>3. LeaseInv'
      BY <1>11 DEF Leave, Done, Goto, LeaseInv, TypeOK
    <2>5. ProbeInv'
      <3>1. Probes' = Probes \ {t} /\ breaker' = breaker
        BY <1>11 DEF Leave, Done, Goto, Probes, TypeOK
      <3> QED BY <1>0, <3>1, ProbeStep
    <2> QED BY <2>1, <2>2, <2>3, <2>4, <2>5
  <1>12. CASE Elapse
    <2>1. TypeOK' /\ CountersFit'
      BY <1>0, <1>12 DEF Elapse, requestVars, TypeOK, CountersFit, Fit, Breakers
    <2>2. LeasesBalance' /\ LeaseInv'
      BY <1>12 DEF Elapse, requestVars, LeasesBalance, Holders, LeaseInv
    <2>3. ProbeInv'
      <3>1. breaker'.state = breaker.state /\ breaker'.permits = breaker.permits
        BY <1>0, <1>12 DEF Elapse, Breakers
      <3> QED BY <1>12, <3>1 DEF Elapse, ProbeInv, Probes
    <2> QED BY <2>1, <2>2, <2>3
  <1>13. CASE Heal
    BY <1>13 DEF Heal, requestVars, TypeOK, CountersFit, LeasesBalance, Holders,
                 LeaseInv, ProbeInv, Probes
  <1>14. CASE UNCHANGED vars
    BY <1>14 DEF vars, requestVars, TypeOK, CountersFit, LeasesBalance, Holders,
                 LeaseInv, ProbeInv, Probes
  <1> QED BY <1>1, <1>2, <1>3, <1>4, <1>5, <1>6, <1>7, <1>8, <1>9, <1>10, <1>11,
             <1>12, <1>13, <1>14 DEF Next, Proceed, Answer

LEMMA Invariant == Spec => []IInv
  BY InitInv, NextInv, PTL DEF Spec

-----------------------------------------------------------------------------
\* Every variable has its type: retries and redirects stay within their caps,
\* the budget within its maximum (connection.py:618, 674; concurrency.py:156).
THEOREM TypeCorrect == Spec => []TypeOK
  <1>1. IInv => TypeOK
    BY DEF IInv
  <1> QED BY <1>1, Invariant, PTL

\* The thread budget counts the leases that requests and unread streams hold,
\* through retries, redirects, refusals and streamed responses.
THEOREM BudgetIsBalanced == Spec => []LeasesBalance
  <1>1. IInv => LeasesBalance
    BY DEF IInv
  <1> QED BY <1>1, Invariant, PTL

\* A half-open window has no more than half_open_limit requests under way.
THEOREM WindowIsBounded == Spec => []ProbesBounded
  <1>1. IInv => ProbesBounded
    BY BreakerAssumption DEF IInv, TypeOK, Breakers, ProbeInv, ProbesBounded
  <1> QED BY <1>1, Invariant, PTL

\* The breaker's counters always belong to its state.
THEOREM CountersBelong == Spec => []CountersFit
  <1>1. IInv => CountersFit
    BY DEF IInv
  <1> QED BY <1>1, Invariant, PTL
=============================================================================
