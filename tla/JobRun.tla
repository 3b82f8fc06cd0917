------------------------------- MODULE JobRun -------------------------------
(***************************************************************************)
(* cli.py: _main's loop over the selected directories, with the life of    *)
(* each one's mirror (_core/_base.py) and the signals that interrupt it.   *)
(* The main thread runs the jobs one after another. A signal's handler     *)
(* runs on top of it, starts a thread that closes the mirror, waits for it *)
(* for 30 seconds and leaves by SystemExit, which then unwinds the job.    *)
(* Handlers may be nested: SystemExit of one leaves those below as well.   *)
(*                                                                         *)
(* Every step of _cleanup_resources catches its own errors, so a clean-up  *)
(* ends or goes on; only an interrupt of the main thread breaks it off.    *)
(***************************************************************************)
EXTENDS Naturals

CONSTANTS
    Jobs,           \* directories of the run
    Signals         \* bound: signals that a mirror's handler gets

ASSUME JobAssumption == Jobs \in Nat \ {0} /\ Signals \in Nat

VARIABLES
    job, pc,        \* the job at hand and the main thread's step in it
    err,            \* what is propagating: "none", "error", "exit0",
                    \* "exit1" (SystemExit) or "interrupt" (KeyboardInterrupt)
    mirror,         \* mirror[j]: "none", "open", "closing" or "ended"
    handler,        \* the mirror whose handler is installed, 0 for none
    frames,         \* handlers the main thread is in
    closer,         \* closer[s]: the clean-up thread of the s-th signal
    sent,           \* signals so far
    mutex,          \* the main thread was interrupted in the guard's mutex
    success,        \* sync_success: "none", "yes" or "no"
    report,         \* report[j]: "none", "active", "done" or "failed"
    processed, failed, skipped,
    code            \* exit code, 99 while the process runs

verdicts == <<processed, failed, skipped>>
signal == <<frames, closer, sent, mutex>>
vars == <<job, pc, err, mirror, handler, signal, success, report, verdicts, code>>

Job == 1 .. Jobs
Running == 99
Exits == {"exit0", "exit1", "interrupt"}

Init ==
    /\ job = 1 /\ pc = "config" /\ err = "none" /\ handler = 0
    /\ mirror = [j \in Job |-> "none"] /\ report = [j \in Job |-> "none"]
    /\ frames = 0 /\ sent = 0 /\ mutex = FALSE /\ success = "none"
    /\ closer = [s \in 1 .. Signals |-> "none"]
    /\ processed = {} /\ failed = {} /\ skipped = {} /\ code = Running

\* The main thread goes on, with no handler on top of it.
At(step) == pc = step /\ frames = 0

Becomes(state) == mirror' = [mirror EXCEPT ![job] = state]

-----------------------------------------------------------------------------
(* A job *)

\* On to the next directory, or to the summary.
NextJob ==
    /\ job' = IF job < Jobs THEN job + 1 ELSE job
    /\ pc' = IF job < Jobs THEN "config" ELSE "summary"
    /\ err' = "none" /\ success' = "none"

Configure ==
    /\ At("config") /\ pc' = "build"
    /\ UNCHANGED <<job, err, mirror, handler, signal, success, report, verdicts, code>>

ConfigFails ==
    /\ At("config") /\ NextJob /\ failed' = failed \union {job}
    /\ UNCHANGED <<mirror, handler, signal, report, processed, skipped, code>>

Build ==
    /\ At("build") /\ Becomes("open") /\ pc' = "install"
    /\ UNCHANGED <<job, err, handler, signal, success, report, verdicts, code>>

\* __init__ closes what it has started.
BuildFails ==
    /\ At("build") /\ Becomes("ended") /\ err' = "error" /\ pc' = "settle"
    /\ UNCHANGED <<job, handler, signal, success, report, verdicts, code>>

InstallHandlers ==
    /\ At("install") /\ handler' = job /\ pc' = "body"
    /\ UNCHANGED <<job, err, mirror, signal, success, report, verdicts, code>>

\* No manager, no connection, or a listing: the verdict is given here.
SkipJob ==
    /\ At("body") /\ pc' = "leave" /\ skipped' = skipped \union {job}
    /\ UNCHANGED <<job, err, mirror, handler, signal, success, report, processed, failed, code>>

FailJob ==
    /\ At("body") /\ pc' = "leave" /\ failed' = failed \union {job}
    /\ UNCHANGED <<job, err, mirror, handler, signal, success, report, processed, skipped, code>>

ListJob ==
    /\ At("body") /\ pc' = "leave" /\ processed' = processed \union {job}
    /\ UNCHANGED <<job, err, mirror, handler, signal, success, report, failed, skipped, code>>

StartSync ==
    /\ At("body") /\ pc' = "sync" /\ report' = [report EXCEPT ![job] = "active"]
    /\ UNCHANGED <<job, err, mirror, handler, signal, success, verdicts, code>>

EndSync(ok) ==
    /\ At("sync") /\ pc' = "leave" /\ success' = ok
    /\ UNCHANGED <<job, err, mirror, handler, signal, report, verdicts, code>>

\* Variant: after an error only the old handlers are put back.
RaiseUnclosed ==
    /\ pc \in {"body", "sync"} /\ frames = 0 /\ err' = "error" /\ pc' = "finish"
    /\ handler' = 0
    /\ UNCHANGED <<job, mirror, signal, success, report, verdicts, code>>

Raise ==
    /\ pc \in {"body", "sync"} /\ frames = 0 /\ err' = "error" /\ pc' = "leave"
    /\ UNCHANGED <<job, mirror, handler, signal, success, report, verdicts, code>>

\* __exit__: cleanup() on the main thread puts the old handlers back first ...
RestoreHandlers ==
    /\ At("leave") /\ pc' = "close" /\ handler' = IF handler = job THEN 0 ELSE handler
    /\ UNCHANGED <<job, err, mirror, signal, success, report, verdicts, code>>

\* ... and closes the guard, unless another thread does or did.
Close ==
    /\ At("close")
    /\ IF mirror[job] = "open"
       THEN Becomes("closing") /\ pc' = "cleaning"
       ELSE pc' = "finish" /\ UNCHANGED mirror
    /\ UNCHANGED <<job, err, handler, signal, success, report, verdicts, code>>

CleanupEnds ==
    /\ At("cleaning") /\ Becomes("ended") /\ pc' = "finish"
    /\ UNCHANGED <<job, err, handler, signal, success, report, verdicts, code>>

\* _finish_mirror_job, if the job has a report.
Finish ==
    /\ At("finish") /\ pc' = "settle"
    /\ report' = [report EXCEPT ![job] =
            IF @ = "active" THEN (IF err = "none" THEN "done" ELSE "failed") ELSE @]
    /\ UNCHANGED <<job, err, mirror, handler, signal, success, verdicts, code>>

\* Variant: a job that was not synchronised counts as one that failed.
SettleAlways ==
    /\ At("settle") /\ err = "none" /\ NextJob
    /\ processed' = processed \union IF success = "yes" THEN {job} ELSE {}
    /\ failed' = failed \union IF success # "yes" THEN {job} ELSE {}
    /\ UNCHANGED <<mirror, handler, signal, report, skipped, code>>

Settle ==
    /\ At("settle") /\ err = "none" /\ NextJob
    /\ processed' = processed \union IF success = "yes" THEN {job} ELSE {}
    /\ failed' = failed \union IF success = "no" THEN {job} ELSE {}
    /\ UNCHANGED <<mirror, handler, signal, report, skipped, code>>

\* Errors fail the job, and the next one starts.
SettleError ==
    /\ At("settle") /\ err = "error" /\ NextJob /\ failed' = failed \union {job}
    /\ UNCHANGED <<mirror, handler, signal, report, processed, skipped, code>>

\* SystemExit and KeyboardInterrupt pass through main(): the run is over.
SettleExit ==
    /\ At("settle") /\ err \in Exits /\ pc' = "exited"
    /\ code' = IF err = "exit0" THEN 0 ELSE IF err = "exit1" THEN 1 ELSE 130
    /\ UNCHANGED <<job, err, mirror, handler, signal, success, report, verdicts>>

Summary ==
    /\ At("summary") /\ pc' = "exited" /\ code' = IF failed = {} THEN 0 ELSE 1
    /\ UNCHANGED <<job, err, mirror, handler, signal, success, report, verdicts>>

-----------------------------------------------------------------------------
(* Signals *)

\* _signal_handler, while a mirror's handler is installed.
Signal ==
    /\ handler # 0 /\ pc # "exited" /\ sent < Signals
    /\ sent' = sent + 1 /\ frames' = frames + 1
    /\ closer' = [closer EXCEPT ![sent + 1] = "started"]
    /\ mutex' \in IF frames = 0 /\ pc \in {"body", "sync"} THEN BOOLEAN ELSE {mutex}
    /\ UNCHANGED <<job, pc, err, mirror, handler, success, report, verdicts, code>>

\* The thread calls cleanup(): only the first caller cleans up.
CloserStarts(s) ==
    /\ closer[s] = "started" /\ ~ mutex /\ pc # "exited"
    /\ closer' = [closer EXCEPT ![s] = IF mirror[job] = "open" THEN "cleaning" ELSE "done"]
    /\ mirror' = [mirror EXCEPT ![job] = IF @ = "open" THEN "closing" ELSE @]
    /\ UNCHANGED <<job, pc, err, handler, frames, sent, mutex, success, report, verdicts, code>>

CloserEnds(s) ==
    /\ closer[s] = "cleaning" /\ pc # "exited" /\ Becomes("ended")
    /\ closer' = [closer EXCEPT ![s] = "done"]
    /\ UNCHANGED <<job, pc, err, handler, frames, sent, mutex, success, report, verdicts, code>>

\* Where SystemExit takes the main thread: out of the body, of cleanup(), or
\* of what follows.
Unwind(exit) ==
    /\ err' = exit /\ frames' = 0 /\ mutex' = FALSE
    /\ pc' = CASE pc \in {"install", "body", "sync"} -> "leave"
               [] pc = "leave" -> "finish"
               [] OTHER -> "settle"
    /\ UNCHANGED <<job, mirror, handler, closer, sent, success, report, verdicts, code>>

\* The topmost handler's thread is done.
HandlerExits == frames > 0 /\ closer[sent] = "done" /\ Unwind("exit0")

\* Variant: the handler exits the same way after the timeout.
HandlerGivesUpQuietly == frames > 0 /\ closer[sent] # "done" /\ Unwind("exit0")

\* Variant: it waits without a timeout.
HandlerPatient == frames > 0 /\ closer[sent] = "done" /\ Unwind("exit1")

\* It is not, after 30 seconds.
HandlerGivesUp == frames > 0 /\ closer[sent] # "done" /\ Unwind("exit1")

\* An interrupt with no mirror's handler installed.
Interrupt ==
    /\ handler = 0 /\ frames = 0 /\ err = "none" /\ err' = "interrupt"
    /\ pc' = CASE pc \in {"config", "build", "finish", "settle", "summary"} -> "settle"
               [] pc = "install" -> "leave"
               [] pc \in {"close", "cleaning"} -> "finish"
               [] OTHER -> "nowhere"
    /\ pc' # "nowhere"
    /\ UNCHANGED <<job, mirror, handler, signal, success, report, verdicts, code>>

-----------------------------------------------------------------------------
Work ==
    \/ Configure \/ ConfigFails \/ Build \/ BuildFails \/ InstallHandlers
    \/ SkipJob \/ FailJob \/ ListJob \/ StartSync
    \/ RestoreHandlers \/ Close \/ CleanupEnds \/ Finish
    \/ Settle \/ SettleError \/ SettleExit \/ Summary

Next ==
    \/ Work \/ Raise \/ \E ok \in {"yes", "no"} : EndSync(ok)
    \/ Signal \/ HandlerExits \/ HandlerGivesUp \/ Interrupt
    \/ \E s \in 1 .. Signals : CloserStarts(s) \/ CloserEnds(s)

Spec == Init /\ [][Next]_vars

\* The main thread is not held up outside sync(), and the wait of a handler is
\* over after 30 seconds. Nothing is assumed of the clean-up threads.
FairSpec == Spec /\ WF_vars(Work) /\ WF_vars(HandlerExits \/ HandlerGivesUp)

-----------------------------------------------------------------------------
(* Properties *)

TypeOK ==
    /\ job \in Job /\ handler \in {0, job} /\ frames \in 0 .. sent /\ sent \in 0 .. Signals
    /\ err \in {"none", "error"} \union Exits /\ success \in {"none", "yes", "no"}
    /\ mirror \in [Job -> {"none", "open", "closing", "ended"}]
    /\ report \in [Job -> {"none", "active", "done", "failed"}]
    /\ closer \in [1 .. Signals -> {"none", "started", "cleaning", "done"}]
    /\ mutex \in BOOLEAN /\ (mutex => frames > 0)
    /\ processed \union failed \union skipped \subseteq Job
    /\ code \in {0, 1, 130, Running} /\ (code = Running <=> pc # "exited")

\* The summary names each directory once (cli.py:1737-1741, 1960-1990): in one
\* of its three lists, whichever step of its job failed.
VerdictOnce ==
    pc = "summary" =>
        /\ processed \union failed \union skipped = Job
        /\ processed \intersect failed = {} /\ skipped \intersect (processed \union failed) = {}

\* "Freeze after worker/client shutdown, retaining a shutdown failure"
\* (run_report.py:66): a job is reported as it ended only when its mirror's
\* clean-up has ended, and as failed if anything broke that off.
FrozenAfterShutdown == \A j \in Job : report[j] = "done" => mirror[j] = "ended"

\* A job starts only when the mirrors before it are closed (cli.py:1909;
\* _core/_base.py:803-806), so that two of them never write at once.
MirrorsDontOverlap ==
    \A j \in Job : j < job => mirror[j] \in {"none", "ended"}

\* Exit code 0 says: "handled a shutdown signal and completed cleanup"
\* (USER_GUIDE.md:2259, _core/_base.py:143-145).
GracefulMeansClean == err = "exit0" => mirror[job] = "ended"

\* Once a handler runs, the run ends, also if the clean-up never does or waits
\* for a lock that the interrupted main thread has (_core/_base.py:113-150).
InterruptEnds == (frames > 0) ~> (pc = "exited")
=============================================================================
