---------------------------- MODULE JobRun_proofs ----------------------------
(***************************************************************************)
(* For any number of jobs and signals: the type invariant, that a job is   *)
(* reported as done only after its mirror's clean-up, that mirrors do not  *)
(* overlap, that the summary names each directory once, and that a run     *)
(* which the handler left without force has begun the clean-up of every    *)
(* mirror it built (GracefulIsBegun) and, if it got one signal, ended it   *)
(* (GracefulIsClean). The inductive invariant adds that a run that got a   *)
(* signal is inside the handler or on its way out, and which verdict the   *)
(* job at hand has at which step.                                          *)
(***************************************************************************)
EXTENDS JobRun, TLAPS

Early == {"config", "build", "install"}
Late == {"close", "cleaning", "finish", "settle", "summary"}
Going == {"none", "error"}

PcOK == pc \in Early \union Late \union {"body", "sync", "leave", "exited"}

\* Before its handlers are installed, and after they were put back.
QuietInv ==
    /\ pc \in Early => sent = 0 /\ handler = 0
    /\ pc \in Early \union {"body", "sync"} => err = "none"
    /\ pc \in Late /\ err \in Going => handler = 0

\* A signal is never forgotten: the handler runs, or the run is left.
SignalInv ==
    /\ frames > 0 => sent > 0 /\ pc # "exited"
    /\ sent > 0 => frames > 0 \/ err \in Exits
    /\ sent = 0 => \A s \in 1 .. Signals : closer[s] = "none"

\* How far the mirror of the job at hand is.
MirrorInv ==
    /\ \A j \in Job : j > job => mirror[j] = "none" /\ report[j] = "none"
    /\ pc \in {"config", "build"} => mirror[job] = "none"
    /\ pc \in Early \union {"body"} => report[job] = "none"
    /\ pc \in {"install", "body", "sync", "leave", "close"} => mirror[job] # "none"
    /\ mirror[job] = "closing" /\ pc # "cleaning" => sent > 0 \/ err \in Exits
    /\ pc \in {"finish", "settle"} /\ err \in Going => mirror[job] = "ended"

Settled == processed \union failed \union skipped

\* Which jobs have their verdict.
VerdictInv ==
    /\ processed \intersect failed = {} /\ skipped \intersect (processed \union failed) = {}
    /\ \A j \in Job : j < job => j \in Settled
    /\ \A j \in Job : j > job => j \notin Settled
    /\ pc \in Early \union {"body", "sync"} => success = "none" /\ job \notin Settled
    /\ pc \in ({"leave"} \union Late) \ {"summary"} =>
        /\ err = "error" => job \notin Settled
        /\ err = "none" => (success = "none" <=> job \in Settled)
    /\ pc = "summary" => job = Jobs /\ job \in Settled

IInv ==
    /\ TypeOK /\ PcOK /\ QuietInv /\ SignalInv /\ MirrorInv /\ VerdictInv
    /\ FrozenAfterShutdown /\ MirrorsDontOverlap

-----------------------------------------------------------------------------
\* Nothing has happened yet.
LEMMA InitEstablishes == Init => IInv
  <1> SUFFICES ASSUME Init PROVE IInv
    OBVIOUS
  <1>1. mutex \in BOOLEAN /\ mutex = FALSE
    BY Zenon DEF Init
  <1> QED
    BY <1>1, JobAssumption
    DEF Init, IInv, TypeOK, PcOK, QuietInv, SignalInv, MirrorInv, VerdictInv,
        FrozenAfterShutdown, MirrorsDontOverlap, Settled, Early, Late, Going, Exits, Job, Running

\* The main thread's own steps.
LEMMA WorkKeeps ==
    ASSUME IInv, Work
    PROVE  IInv'
  <1> USE JobAssumption DEF IInv, signal, verdicts, At, Settled, Job, Early, Late, Going, Exits, Running
  <1>1. CASE Configure
    <2>1. TypeOK' /\ PcOK' /\ QuietInv' /\ SignalInv' /\ MirrorInv' /\ VerdictInv' /\
         FrozenAfterShutdown' /\ MirrorsDontOverlap'
      BY <1>1 DEF Configure, TypeOK, PcOK, QuietInv, SignalInv, MirrorInv, VerdictInv,
         FrozenAfterShutdown, MirrorsDontOverlap
    <2> QED BY <2>1
  <1>2. CASE ConfigFails
    <2>1. PcOK' /\ QuietInv' /\ FrozenAfterShutdown'
      BY <1>2 DEF ConfigFails, NextJob, PcOK, QuietInv, FrozenAfterShutdown
    <2>2. TypeOK'
      BY <1>2 DEF ConfigFails, NextJob, TypeOK, QuietInv
    <2>3. SignalInv'
      BY <1>2 DEF ConfigFails, NextJob, QuietInv, SignalInv
    <2>4. MirrorInv'
      BY <1>2 DEF ConfigFails, NextJob, TypeOK, MirrorInv
    <2>5. VerdictInv'
      BY <1>2 DEF ConfigFails, NextJob, TypeOK, VerdictInv
    <2>6. MirrorsDontOverlap'
      BY <1>2 DEF ConfigFails, NextJob, TypeOK, MirrorInv, MirrorsDontOverlap
    <2> QED BY <2>1, <2>2, <2>3, <2>4, <2>5, <2>6
  <1>3. CASE Build
    <2>1. TypeOK' /\ PcOK' /\ QuietInv' /\ SignalInv' /\ VerdictInv' /\ MirrorsDontOverlap'
      BY <1>3 DEF Build, Becomes, TypeOK, PcOK, QuietInv, SignalInv, VerdictInv,
         MirrorsDontOverlap
    <2>2. MirrorInv'
      BY <1>3 DEF Build, Becomes, TypeOK, MirrorInv
    <2>3. FrozenAfterShutdown'
      BY <1>3 DEF Build, Becomes, MirrorInv, FrozenAfterShutdown
    <2> QED BY <2>1, <2>2, <2>3
  <1>4. CASE BuildFails
    <2>1. TypeOK' /\ PcOK' /\ QuietInv' /\ VerdictInv' /\ FrozenAfterShutdown' /\ MirrorsDontOverlap'
      BY <1>4 DEF BuildFails, Becomes, TypeOK, PcOK, QuietInv, VerdictInv,
         FrozenAfterShutdown, MirrorsDontOverlap
    <2>2. SignalInv'
      BY <1>4 DEF BuildFails, Becomes, QuietInv, SignalInv
    <2>3. MirrorInv'
      BY <1>4 DEF BuildFails, Becomes, TypeOK, MirrorInv
    <2> QED BY <2>1, <2>2, <2>3
  <1>5. CASE InstallHandlers
    <2>1. TypeOK' /\ PcOK' /\ QuietInv' /\ SignalInv' /\ MirrorInv' /\ VerdictInv' /\
         FrozenAfterShutdown' /\ MirrorsDontOverlap'
      BY <1>5 DEF InstallHandlers, TypeOK, PcOK, QuietInv, SignalInv, MirrorInv, VerdictInv,
         FrozenAfterShutdown, MirrorsDontOverlap
    <2> QED BY <2>1
  <1>6. CASE SkipJob
    <2>1. TypeOK' /\ PcOK' /\ QuietInv' /\ SignalInv' /\ MirrorInv' /\ FrozenAfterShutdown' /\
         MirrorsDontOverlap'
      BY <1>6 DEF SkipJob, TypeOK, PcOK, QuietInv, SignalInv, MirrorInv,
         FrozenAfterShutdown, MirrorsDontOverlap
    <2>2. VerdictInv'
      BY <1>6 DEF SkipJob, QuietInv, VerdictInv
    <2> QED BY <2>1, <2>2
  <1>7. CASE FailJob
    <2>1. TypeOK' /\ PcOK' /\ QuietInv' /\ SignalInv' /\ MirrorInv' /\ FrozenAfterShutdown' /\
         MirrorsDontOverlap'
      BY <1>7 DEF FailJob, TypeOK, PcOK, QuietInv, SignalInv, MirrorInv,
         FrozenAfterShutdown, MirrorsDontOverlap
    <2>2. VerdictInv'
      BY <1>7 DEF FailJob, QuietInv, VerdictInv
    <2> QED BY <2>1, <2>2
  <1>8. CASE ListJob
    <2>1. TypeOK' /\ PcOK' /\ QuietInv' /\ SignalInv' /\ MirrorInv' /\ FrozenAfterShutdown' /\
         MirrorsDontOverlap'
      BY <1>8 DEF ListJob, TypeOK, PcOK, QuietInv, SignalInv, MirrorInv,
         FrozenAfterShutdown, MirrorsDontOverlap
    <2>2. VerdictInv'
      BY <1>8 DEF ListJob, QuietInv, VerdictInv
    <2> QED BY <2>1, <2>2
  <1>9. CASE StartSync
    <2>1. TypeOK' /\ PcOK' /\ QuietInv' /\ SignalInv' /\ MirrorInv' /\ VerdictInv' /\
         FrozenAfterShutdown' /\ MirrorsDontOverlap'
      BY <1>9 DEF StartSync, TypeOK, PcOK, QuietInv, SignalInv, MirrorInv, VerdictInv,
         FrozenAfterShutdown, MirrorsDontOverlap
    <2> QED BY <2>1
  <1>10. CASE RestoreHandlers
    <2>1. TypeOK' /\ PcOK' /\ SignalInv' /\ MirrorInv' /\ VerdictInv' /\ FrozenAfterShutdown' /\
         MirrorsDontOverlap'
      BY <1>10 DEF RestoreHandlers, TypeOK, PcOK, SignalInv, MirrorInv, VerdictInv,
         FrozenAfterShutdown, MirrorsDontOverlap
    <2>2. QuietInv'
      BY <1>10 DEF RestoreHandlers, TypeOK, QuietInv
    <2> QED BY <2>1, <2>2
  <1>11. CASE Close
    <2>1. TypeOK' /\ PcOK' /\ QuietInv' /\ SignalInv' /\ VerdictInv'
      BY <1>11 DEF Close, Becomes, TypeOK, PcOK, QuietInv, SignalInv, VerdictInv
    <2>2. MirrorInv'
      BY <1>11 DEF Close, Becomes, TypeOK, SignalInv, MirrorInv
    <2>3. FrozenAfterShutdown'
      BY <1>11 DEF Close, Becomes, TypeOK, FrozenAfterShutdown
    <2>4. MirrorsDontOverlap'
      BY <1>11 DEF Close, Becomes, TypeOK, MirrorsDontOverlap
    <2> QED BY <2>1, <2>2, <2>3, <2>4
  <1>12. CASE CleanupEnds
    <2>1. TypeOK' /\ PcOK' /\ QuietInv' /\ SignalInv' /\ VerdictInv' /\ FrozenAfterShutdown' /\
         MirrorsDontOverlap'
      BY <1>12 DEF CleanupEnds, Becomes, TypeOK, PcOK, QuietInv, SignalInv, VerdictInv,
         FrozenAfterShutdown, MirrorsDontOverlap
    <2>2. MirrorInv'
      BY <1>12 DEF CleanupEnds, Becomes, TypeOK, MirrorInv
    <2> QED BY <2>1, <2>2
  <1>13. CASE Finish
    <2>1. TypeOK' /\ PcOK' /\ QuietInv' /\ SignalInv' /\ MirrorInv' /\ VerdictInv' /\
         MirrorsDontOverlap'
      BY <1>13 DEF Finish, TypeOK, PcOK, QuietInv, SignalInv, MirrorInv, VerdictInv,
         MirrorsDontOverlap
    <2>2. FrozenAfterShutdown'
      BY <1>13 DEF Finish, TypeOK, MirrorInv, FrozenAfterShutdown
    <2> QED BY <2>1, <2>2
  <1>14. CASE Settle
    <2>1. PcOK' /\ SignalInv' /\ FrozenAfterShutdown'
      BY <1>14 DEF Settle, NextJob, PcOK, SignalInv, FrozenAfterShutdown
    <2>2. TypeOK'
      BY <1>14 DEF Settle, NextJob, TypeOK, QuietInv
    <2>3. QuietInv'
      BY <1>14 DEF Settle, NextJob, TypeOK, QuietInv, SignalInv
    <2>4. MirrorInv'
      BY <1>14 DEF Settle, NextJob, TypeOK, MirrorInv
    <2>5. VerdictInv'
      BY <1>14 DEF Settle, NextJob, TypeOK, VerdictInv
    <2>6. MirrorsDontOverlap'
      BY <1>14 DEF Settle, NextJob, TypeOK, MirrorInv, MirrorsDontOverlap
    <2> QED BY <2>1, <2>2, <2>3, <2>4, <2>5, <2>6
  <1>15. CASE SettleError
    <2>1. PcOK' /\ SignalInv' /\ FrozenAfterShutdown'
      BY <1>15 DEF SettleError, NextJob, PcOK, SignalInv, FrozenAfterShutdown
    <2>2. TypeOK'
      BY <1>15 DEF SettleError, NextJob, TypeOK, QuietInv
    <2>3. QuietInv'
      BY <1>15 DEF SettleError, NextJob, TypeOK, QuietInv, SignalInv
    <2>4. MirrorInv'
      BY <1>15 DEF SettleError, NextJob, TypeOK, MirrorInv
    <2>5. VerdictInv'
      BY <1>15 DEF SettleError, NextJob, TypeOK, VerdictInv
    <2>6. MirrorsDontOverlap'
      BY <1>15 DEF SettleError, NextJob, TypeOK, MirrorInv, MirrorsDontOverlap
    <2> QED BY <2>1, <2>2, <2>3, <2>4, <2>5, <2>6
  <1>16. CASE SettleExit
    <2>1. TypeOK' /\ PcOK' /\ QuietInv' /\ SignalInv' /\ MirrorInv' /\ VerdictInv' /\
         FrozenAfterShutdown' /\ MirrorsDontOverlap'
      BY <1>16 DEF SettleExit, TypeOK, PcOK, QuietInv, SignalInv, MirrorInv, VerdictInv,
         FrozenAfterShutdown, MirrorsDontOverlap
    <2> QED BY <2>1
  <1>17. CASE Summary
    <2>1. TypeOK' /\ PcOK' /\ QuietInv' /\ SignalInv' /\ MirrorInv' /\ VerdictInv' /\
         FrozenAfterShutdown' /\ MirrorsDontOverlap'
      BY <1>17 DEF Summary, TypeOK, PcOK, QuietInv, SignalInv, MirrorInv, VerdictInv,
         FrozenAfterShutdown, MirrorsDontOverlap
    <2> QED BY <2>1
  <1> QED BY <1>1, <1>2, <1>3, <1>4, <1>5, <1>6, <1>7, <1>8, <1>9, <1>10, <1>11, <1>12,
         <1>13, <1>14, <1>15, <1>16, <1>17 DEF Work

\* What signals, interrupts and errors do, and how sync() ends.
LEMMA OthersKeep ==
    ASSUME IInv, Next, ~ Work
    PROVE  IInv'
  <1> USE JobAssumption DEF IInv, signal, verdicts, At, Settled, Job, Early, Late, Going, Exits, Running
  <1>1. CASE Raise
    <2>1. TypeOK' /\ PcOK' /\ QuietInv' /\ VerdictInv' /\ FrozenAfterShutdown' /\ MirrorsDontOverlap'
      BY <1>1 DEF Raise, TypeOK, PcOK, QuietInv, VerdictInv, FrozenAfterShutdown,
         MirrorsDontOverlap
    <2>2. SignalInv'
      BY <1>1 DEF Raise, QuietInv, SignalInv
    <2>3. MirrorInv'
      BY <1>1 DEF Raise, QuietInv, MirrorInv
    <2> QED BY <2>1, <2>2, <2>3
  <1>2. ASSUME NEW ok \in {"yes", "no"}, EndSync(ok)
       PROVE  IInv'
    <2>1. TypeOK' /\ PcOK' /\ QuietInv' /\ SignalInv' /\ MirrorInv' /\ VerdictInv' /\
         FrozenAfterShutdown' /\ MirrorsDontOverlap'
      BY <1>2 DEF EndSync, TypeOK, PcOK, QuietInv, SignalInv, MirrorInv, VerdictInv,
         FrozenAfterShutdown, MirrorsDontOverlap
    <2> QED BY <2>1
  <1>3. CASE Signal
    <2>1. TypeOK' /\ PcOK' /\ QuietInv' /\ VerdictInv' /\ FrozenAfterShutdown' /\ MirrorsDontOverlap'
      BY <1>3 DEF Signal, TypeOK, PcOK, QuietInv, VerdictInv, FrozenAfterShutdown,
         MirrorsDontOverlap
    <2>2. SignalInv'
      BY <1>3 DEF Signal, TypeOK, SignalInv
    <2>3. MirrorInv'
      BY <1>3 DEF Signal, TypeOK, MirrorInv
    <2> QED BY <2>1, <2>2, <2>3
  <1>4. CASE HandlerExits
    <2>1. mutex' \in BOOLEAN /\ mutex' = FALSE
      BY <1>4, Zenon DEF HandlerExits, Unwind
    <2>2. PcOK' /\ QuietInv' /\ SignalInv' /\ MirrorInv' /\ VerdictInv' /\ FrozenAfterShutdown' /\
         MirrorsDontOverlap'
      BY <1>4 DEF HandlerExits, Unwind, PcOK, QuietInv, SignalInv, MirrorInv, VerdictInv,
         FrozenAfterShutdown, MirrorsDontOverlap
    <2>3. TypeOK'
      BY <1>4, <2>1 DEF HandlerExits, Unwind, TypeOK, SignalInv
    <2> QED BY <2>2, <2>3
  <1>5. CASE HandlerGivesUp
    <2>1. mutex' \in BOOLEAN /\ mutex' = FALSE
      BY <1>5, Zenon DEF HandlerGivesUp, Unwind
    <2>2. PcOK' /\ QuietInv' /\ SignalInv' /\ MirrorInv' /\ VerdictInv' /\ FrozenAfterShutdown' /\
         MirrorsDontOverlap'
      BY <1>5 DEF HandlerGivesUp, Unwind, PcOK, QuietInv, SignalInv, MirrorInv, VerdictInv,
         FrozenAfterShutdown, MirrorsDontOverlap
    <2>3. TypeOK'
      BY <1>5, <2>1 DEF HandlerGivesUp, Unwind, TypeOK, SignalInv
    <2> QED BY <2>2, <2>3
  <1>6. CASE Interrupt
    <2>1. TypeOK' /\ PcOK' /\ QuietInv' /\ SignalInv' /\ MirrorInv' /\ VerdictInv' /\
         FrozenAfterShutdown' /\ MirrorsDontOverlap'
      BY <1>6 DEF Interrupt, TypeOK, PcOK, QuietInv, SignalInv, MirrorInv, VerdictInv,
         FrozenAfterShutdown, MirrorsDontOverlap
    <2> QED BY <2>1
  <1>7. ASSUME NEW s \in 1 .. Signals, CloserStarts(s)
       PROVE  IInv'
    <2>1. TypeOK' /\ PcOK' /\ QuietInv' /\ SignalInv' /\ VerdictInv' /\ FrozenAfterShutdown' /\
         MirrorsDontOverlap'
      BY <1>7 DEF CloserStarts, TypeOK, PcOK, QuietInv, SignalInv, VerdictInv,
         FrozenAfterShutdown, MirrorsDontOverlap
    <2>2. MirrorInv'
      BY <1>7 DEF CloserStarts, TypeOK, SignalInv, MirrorInv
    <2> QED BY <2>1, <2>2
  <1>8. ASSUME NEW s \in 1 .. Signals, CloserEnds(s)
       PROVE  IInv'
    <2>1. TypeOK' /\ PcOK' /\ QuietInv' /\ SignalInv' /\ VerdictInv' /\ FrozenAfterShutdown' /\
         MirrorsDontOverlap'
      BY <1>8 DEF CloserEnds, Becomes, TypeOK, PcOK, QuietInv, SignalInv, VerdictInv,
         FrozenAfterShutdown, MirrorsDontOverlap
    <2>2. MirrorInv'
      BY <1>8 DEF CloserEnds, Becomes, QuietInv, SignalInv, MirrorInv
    <2> QED BY <2>1, <2>2
  <1> QED BY <1>1, <1>2, <1>3, <1>4, <1>5, <1>6, <1>7, <1>8 DEF Next

LEMMA Inductive == Spec => []IInv
  <1>1. IInv /\ UNCHANGED vars => IInv'
    BY DEF vars, signal, verdicts, IInv, TypeOK, PcOK, QuietInv, SignalInv, MirrorInv, VerdictInv,
           FrozenAfterShutdown, MirrorsDontOverlap, Settled
  <1>2. IInv /\ [Next]_vars => IInv'
    BY <1>1, WorkKeeps, OthersKeep
  <1> QED BY InitEstablishes, <1>2, PTL DEF Spec

-----------------------------------------------------------------------------
\* For any number of jobs, signals and interrupts every variable has its type:
\* a mirror's handlers are never those of another job (_core/_base.py:816-824).
THEOREM TypeCorrect == Spec => []TypeOK
  <1>1. IInv => TypeOK
    BY DEF IInv
  <1> QED BY Inductive, <1>1, PTL

\* The mirrors of a run never overlap, however their jobs end: what a job left
\* open is closed before the next one starts (cli.py:1909).
THEOREM NoOverlap == Spec => []MirrorsDontOverlap
  <1>1. IInv => MirrorsDontOverlap
    BY DEF IInv
  <1> QED BY Inductive, <1>1, PTL

\* A job is reported as done only after its mirror's clean-up
\* (run_report.py:66).
THEOREM ReportedWhenClosed == Spec => []FrozenAfterShutdown
  <1>1. IInv => FrozenAfterShutdown
    BY DEF IInv
  <1> QED BY Inductive, <1>1, PTL

\* The summary names each of the run's directories in exactly one of its lists
\* (cli.py:1960-1990).
THEOREM OneVerdict == Spec => []VerdictOnce
  <1>1. IInv => VerdictOnce
    <2> SUFFICES ASSUME IInv, pc = "summary"
                 PROVE  Settled = Job /\ processed \intersect failed = {}
                        /\ skipped \intersect (processed \union failed) = {}
      BY DEF VerdictOnce, Settled
    <2>1. processed \intersect failed = {} /\ skipped \intersect (processed \union failed) = {}
      BY DEF IInv, VerdictInv
    <2>2. \A j \in Job : j \in Settled
      BY JobAssumption DEF IInv, TypeOK, VerdictInv, Job
    <2>3. Settled \subseteq Job
      BY DEF IInv, TypeOK, Settled
    <2> QED BY <2>1, <2>2, <2>3
  <1> QED BY Inductive, <1>1, PTL
-----------------------------------------------------------------------------
\* What exit code 0 stands on: a signal's handler waits for its own thread, and
\* that thread is done once some clean-up has begun. With one signal it is the
\* thread that cleans up.
GracefulInv ==
    /\ pc = "install" => mirror[job] = "open"
    /\ pc \in {"close", "cleaning"} => handler = 0
    /\ handler # 0 /\ sent = 0 => mirror[job] = "open"
    /\ sent > 0 => mirror[job] # "none"
    /\ \A s \in 1 .. Signals : s > sent => closer[s] = "none"
    /\ \A s \in 1 .. Signals :
           closer[s] \in {"cleaning", "done"} => mirror[job] \in {"closing", "ended"}
    /\ err = "exit0" => sent > 0 /\ mirror[job] \in {"closing", "ended"}
    /\ sent = 1 /\ err = "exit0" => mirror[job] = "ended"
    /\ sent = 1 /\ frames > 0 =>
        /\ closer[1] = "started" => mirror[job] = "open"
        /\ closer[1] = "done" => mirror[job] = "ended"

LEMMA GracefulInit == Init => GracefulInv
  <1> SUFFICES ASSUME Init PROVE GracefulInv
    OBVIOUS
  <1> QED
    BY JobAssumption DEF Init, GracefulInv, Job

LEMMA GracefulStep ==
    ASSUME IInv, GracefulInv, Next
    PROVE  GracefulInv'
  <1> USE JobAssumption DEF IInv, TypeOK, GracefulInv, signal, verdicts, At, Job, Early, Late, Going, Exits
  <1>1. CASE Work
    <2>1. CASE Configure \/ Build \/ BuildFails \/ InstallHandlers
      BY <2>1 DEF Configure, Build, BuildFails, InstallHandlers, Becomes, QuietInv, SignalInv
    <2>2. CASE SkipJob \/ FailJob \/ ListJob \/ StartSync
      BY <2>2 DEF SkipJob, FailJob, ListJob, StartSync
    <2>3. CASE RestoreHandlers \/ Close \/ CleanupEnds
      BY <2>3 DEF RestoreHandlers, Close, CleanupEnds, Becomes
    <2>4. CASE Finish \/ SettleExit \/ Summary
      BY <2>4 DEF Finish, SettleExit, Summary
    <2>5. CASE ConfigFails \/ Settle \/ SettleError
      <3>1. handler = 0 /\ sent = 0 /\ handler' = 0 /\ sent' = 0 /\ frames' = 0 /\ err' = "none"
            /\ pc' \in {"config", "summary"} /\ closer' = closer
        BY <2>5 DEF ConfigFails, Settle, SettleError, NextJob, QuietInv, SignalInv
      <3> QED BY <3>1 DEF SignalInv
    <2> QED BY <1>1, <2>1, <2>2, <2>3, <2>4, <2>5 DEF Work
  <1>2. CASE Raise
    BY <1>2 DEF Raise
  <1>3. ASSUME NEW ok \in {"yes", "no"}, EndSync(ok)
       PROVE  GracefulInv'
    BY <1>3 DEF EndSync
  <1>4. CASE Signal
    BY <1>4 DEF Signal, SignalInv
  <1>5. CASE HandlerExits
    BY <1>5 DEF HandlerExits, Unwind, SignalInv
  <1>6. CASE HandlerGivesUp
    BY <1>6 DEF HandlerGivesUp, Unwind
  <1>7. CASE Interrupt
    BY <1>7 DEF Interrupt
  <1>8. ASSUME NEW s \in 1 .. Signals, CloserStarts(s)
       PROVE  GracefulInv'
    <2>1. s <= sent /\ pc # "install" /\ sent > 0
      BY <1>8 DEF CloserStarts, QuietInv
    <2>2. CASE mirror[job] = "open"
      <3>1. mirror'[job] = "closing" /\ closer' = [closer EXCEPT ![s] = "cleaning"] /\ err # "exit0"
        BY <1>8, <2>2 DEF CloserStarts
      <3> QED BY <1>8, <2>1, <3>1 DEF CloserStarts
    <2>3. CASE mirror[job] # "open"
      <3>1. mirror'[job] = mirror[job] /\ closer' = [closer EXCEPT ![s] = "done"]
        BY <1>8, <2>3 DEF CloserStarts
      <3>2. mirror[job] \in {"closing", "ended"}
        BY <2>1, <2>3
      <3> QED BY <1>8, <2>1, <2>3, <3>1, <3>2 DEF CloserStarts
    <2> QED BY <2>2, <2>3
  <1>9. ASSUME NEW s \in 1 .. Signals, CloserEnds(s)
       PROVE  GracefulInv'
    BY <1>9 DEF CloserEnds, Becomes, QuietInv, SignalInv
  <1> QED BY <1>1, <1>2, <1>3, <1>4, <1>5, <1>6, <1>7, <1>8, <1>9 DEF Next

LEMMA GracefulAlways == Spec => []GracefulInv
  <1>1. GracefulInv /\ UNCHANGED vars => GracefulInv'
    BY DEF vars, signal, verdicts, GracefulInv
  <1>2. IInv /\ GracefulInv /\ [Next]_vars => GracefulInv'
    BY <1>1, GracefulStep
  <1> QED BY GracefulInit, Inductive, <1>2, PTL DEF Spec

\* A run that gets at most one signal leaves with exit code 0 only after its
\* clean-up has ended (USER_GUIDE.md:2259). A second signal breaks this: its
\* handler waits for a thread that finds the guard closing already.
THEOREM GracefulIsClean ==
    ASSUME Signals <= 1
    PROVE  Spec => []GracefulMeansClean
  <1>1. IInv /\ GracefulInv => GracefulMeansClean
    <2> SUFFICES ASSUME IInv, GracefulInv, err = "exit0"
                 PROVE  mirror[job] = "ended"
      BY DEF GracefulMeansClean
    <2>1. sent = 1
      BY JobAssumption DEF IInv, TypeOK, GracefulInv
    <2> QED BY <2>1 DEF GracefulInv
  <1> QED BY Inductive, GracefulAlways, <1>1, PTL

\* However many signals a run gets, it leaves with exit code 0 only after its
\* clean-up has begun (_core/_base.py:113-150): never over an open mirror.
THEOREM GracefulIsBegun == Spec => [](err = "exit0" => mirror[job] \in {"closing", "ended"})
  <1>1. GracefulInv => (err = "exit0" => mirror[job] \in {"closing", "ended"})
    BY DEF GracefulInv
  <1> QED BY GracefulAlways, <1>1, PTL
=============================================================================
