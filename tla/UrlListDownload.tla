-------------------------- MODULE UrlListDownload --------------------------
(***************************************************************************)
(* transfers.py: download_url_list and AsyncTransfers. A job downloads a   *)
(* list of URLs with a fixed number of workers in one event loop; what     *)
(* touches the disk runs in threads, which a cancelled worker waits for.   *)
(* A receipt tells a file this mode published from a file of somebody      *)
(* else: it is noted by the thread that publishes, and all are saved when  *)
(* the job ends.                                                           *)
(*                                                                         *)
(* Other programs write destination files, the user interrupts the job,    *)
(* the process is killed. A file's identity (device, inode, size, times)   *)
(* is a number no two writes share. How chunks arrive is the subject of    *)
(* ChunkedDownload, the disk budget that of CapacityRegistry; here the     *)
(* budget's "stop" is one flag.                                            *)
(***************************************************************************)
EXTENDS Naturals, FiniteSets

CONSTANTS
    Url,            \* the list: each URL names its own local file
    Chunked,        \* URLs that are tried with ranges first
    Overwrite,      \* config.overwrite
    Concurrency,    \* max_concurrent_downloads
    Retries,        \* max_retries
    Meddling,       \* when other programs write: subset of {"between", "queued", "fetching"}
    Writes,         \* bounds of a behaviour: writes of files ...
    Jobs            \* ... and jobs

\* Assumed of the constants wherever the module is instantiated.
ListAssumption ==
    /\ Chunked \subseteq Url /\ Overwrite \in BOOLEAN
    /\ Concurrency \in Nat \ {0} /\ Retries \in Nat /\ Writes \in Nat /\ Jobs \in Nat
    /\ Meddling \subseteq {"between", "queued", "fetching"}

VARIABLES
    phase,          \* "idle", "examine", "load" or "save"
    disk,           \* disk[u]: identity of u's local file, 0 if there is none
    last,           \* the identity given last
    ours,           \* identities this mode has published
    noted,          \* receipts in memory
    saved,          \* the receipt file
    stage,          \* stage[u] of u's transfer
    original,       \* original[u]: what the transfer found at the destination
    attempt,
    published,      \* URLs published by this job
    succeeded,      \* URLs whose result is a success
    unnoted,        \* published, but the receipt could not be noted
    cancelled,      \* the job is interrupted
    exhausted,      \* the disk budget has stopped
    closed,         \* the client's pools are closed
    lost,           \* foreign files that were replaced without --overwrite
    result,         \* of the last job: "none", "ok", "failed", "refused", "unsaved" or "killed"
    jobs

fileVars == <<disk, last, ours, lost>>
receiptVars == <<noted, saved>>
transferVars == <<stage, original, attempt, published, succeeded, unnoted>>
jobVars == <<phase, cancelled, exhausted, closed, result, jobs>>
vars == <<fileVars, receiptVars, transferVars, jobVars>>

\* In a worker's hands: "fetching" is the only stage the event loop owns.
InThread == {"preparing", "probing", "ranges", "publishing", "noting", "releasing"}
Busy == InThread \union {"fetching"}
Stages == {"none", "listed", "done"} \union Busy

Active == {u \in Url : stage[u] \in Busy}
None == [u \in Url |-> 0]

Init ==
    /\ phase = "idle" /\ result = "none" /\ jobs = 0
    /\ disk = None /\ last = 0 /\ ours = {} /\ lost = {}
    /\ noted = None /\ saved = None
    /\ stage = [u \in Url |-> "none"] /\ original = None /\ attempt = None
    /\ published = {} /\ succeeded = {} /\ unnoted = {}
    /\ cancelled = FALSE /\ exhausted = FALSE /\ closed = FALSE

At(u, from, to) == stage[u] = from /\ stage' = [stage EXCEPT ![u] = to]

-----------------------------------------------------------------------------
(* download_url_list: the job begins *)

Begin ==
    /\ phase = "idle" /\ jobs < Jobs /\ jobs' = jobs + 1
    /\ phase' = "examine" /\ result' = "none"
    /\ noted' = saved
    /\ stage' = [u \in Url |-> "none"] /\ original' = None /\ attempt' = None
    /\ published' = {} /\ succeeded' = {} /\ unnoted' = {}
    /\ cancelled' = FALSE /\ exhausted' = FALSE /\ closed' = FALSE
    /\ UNCHANGED <<fileVars, saved>>

\* Variant: a receipt that names the file is enough.
MayReplaceAnyOwned(u) == disk[u] = 0 \/ Overwrite \/ noted[u] # 0

\* The file is absent, or it is the one the receipt describes.
MayReplace(u) == disk[u] = 0 \/ Overwrite \/ noted[u] = disk[u]

Examine(u) ==
    /\ phase = "examine" /\ MayReplace(u)
    /\ At(u, "none", "listed")
    /\ UNCHANGED <<fileVars, receiptVars, original, attempt, published, succeeded, unnoted, jobVars>>

\* An entry that fails the examination ends the job before the first GET.
Refuse ==
    /\ phase = "examine" /\ \E u \in Url : stage[u] = "none" /\ ~MayReplace(u)
    /\ phase' = "idle" /\ result' = "refused"
    /\ UNCHANGED <<fileVars, receiptVars, transferVars, cancelled, exhausted, closed, jobs>>

Start ==
    /\ phase = "examine" /\ \A u \in Url : stage[u] = "listed"
    /\ phase' = "load"
    /\ UNCHANGED <<fileVars, receiptVars, transferVars, cancelled, exhausted, closed,
                   result, jobs>>

-----------------------------------------------------------------------------
(* The workers of AsyncTransfers.run *)

Take(u) ==
    /\ phase = "load" /\ ~cancelled /\ Cardinality(Active) < Concurrency
    /\ At(u, "listed", IF exhausted THEN "done"
                       ELSE IF u \in Chunked THEN "probing" ELSE "preparing")
    /\ UNCHANGED <<fileVars, receiptVars, original, attempt, published, succeeded, unnoted, jobVars>>

\* A thread that fails, or a worker that is cancelled, has staging to release.
GiveUp(u) == stage' = [stage EXCEPT ![u] = "releasing"]

\* _one: the destination is looked at in a thread, staging is made.
Prepare(u) ==
    /\ stage[u] = "preparing"
    /\ original' = [original EXCEPT ![u] = disk[u]]
    /\ IF cancelled THEN GiveUp(u) ELSE At(u, "preparing", "fetching")
    /\ UNCHANGED <<fileVars, receiptVars, attempt, published, succeeded, unnoted, jobVars>>

\* _one_chunked: the destination is looked at before the range probe. A file
\* that cannot come in ranges takes the way of _one from its beginning.
Probe(u) ==
    /\ stage[u] = "probing"
    /\ original' = [original EXCEPT ![u] = disk[u]]
    /\ IF cancelled THEN GiveUp(u)
       ELSE \E next \in {"ranges", "preparing"} : At(u, "probing", next)
    /\ UNCHANGED <<fileVars, receiptVars, attempt, published, succeeded, unnoted, jobVars>>

\* The path is unsafe, no workspace can be made, no response to the probe.
PrepareFails(u) ==
    /\ stage[u] \in {"preparing", "probing"} /\ GiveUp(u)
    /\ UNCHANGED <<fileVars, receiptVars, original, attempt, published, succeeded, unnoted, jobVars>>

Loaded(u) ==
    /\ \/ At(u, "fetching", "publishing") /\ ~cancelled
       \/ At(u, "ranges", "publishing")
    /\ UNCHANGED <<fileVars, receiptVars, original, attempt, published, succeeded, unnoted, jobVars>>

\* A connection that breaks is tried again, from byte zero.
Retry(u) ==
    /\ stage[u] = "fetching" /\ ~cancelled /\ ~exhausted /\ attempt[u] < Retries
    /\ attempt' = [attempt EXCEPT ![u] = @ + 1]
    /\ UNCHANGED <<fileVars, receiptVars, stage, original, published, succeeded, unnoted, jobVars>>

\* Retries are used up, or status, length or encoding are wrong, or the disk
\* is full, which stops every transfer at its next request or block.
LoadFails(u) ==
    /\ stage[u] \in {"fetching", "ranges"} /\ GiveUp(u)
    /\ exhausted' \in {exhausted, TRUE}
    /\ UNCHANGED <<fileVars, receiptVars, original, attempt, published, succeeded, unnoted,
                   phase, cancelled, closed, result, jobs>>

\* _publish and replace_verified_file: the destination is what the transfer
\* found. An interruption may come after the last look at it.
Publish(u) ==
    /\ disk[u] = original[u]
    /\ last < Writes /\ last' = last + 1
    /\ disk' = [disk EXCEPT ![u] = last'] /\ ours' = ours \union {last'}
    /\ lost' = IF disk[u] \in ours \union {0} \/ Overwrite THEN lost ELSE lost \union {disk[u]}
    /\ published' = published \union {u}
    /\ At(u, "publishing", "noting")
    /\ UNCHANGED <<receiptVars, original, attempt, succeeded, unnoted, jobVars>>

\* Staging or destination changed, or the job was interrupted in time.
PublishFails(u) ==
    /\ stage[u] = "publishing" /\ GiveUp(u)
    /\ UNCHANGED <<fileVars, receiptVars, original, attempt, published, succeeded, unnoted, jobVars>>

\* Variant: the receipt is noted by the worker, after the thread has ended.
NoteInWorker(u) ==
    /\ noted' = IF cancelled THEN noted ELSE [noted EXCEPT ![u] = disk[u]]
    /\ succeeded' = IF cancelled THEN succeeded ELSE succeeded \union {u}
    /\ At(u, "noting", "releasing")
    /\ UNCHANGED <<fileVars, saved, original, attempt, published, unnoted, jobVars>>

\* published(): in the publishing thread, before a cancelled worker goes on.
Note(u) ==
    /\ noted' = [noted EXCEPT ![u] = disk[u]]
    /\ succeeded' = IF cancelled THEN succeeded ELSE succeeded \union {u}
    /\ At(u, "noting", "releasing")
    /\ UNCHANGED <<fileVars, saved, original, attempt, published, unnoted, jobVars>>

\* The identity cannot be read: a failure although the file is published.
NoteFails(u) ==
    /\ At(u, "noting", "releasing") /\ unnoted' = unnoted \union {u}
    /\ UNCHANGED <<fileVars, receiptVars, original, attempt, published, succeeded, jobVars>>

\* Staging is released in a thread. A failure spoils a success.
Release(u) ==
    /\ At(u, "releasing", "done")
    /\ succeeded' \in {succeeded, succeeded \ {u}}
    /\ UNCHANGED <<fileVars, receiptVars, original, attempt, published, unnoted, jobVars>>

Interrupt ==
    /\ phase = "load" /\ ~cancelled /\ cancelled' = TRUE
    /\ stage' = [u \in Url |-> IF stage[u] = "fetching" THEN "releasing" ELSE stage[u]]
    /\ UNCHANGED <<fileVars, receiptVars, original, attempt, published, succeeded, unnoted,
                   phase, exhausted, closed, result, jobs>>

\* run's finally: all workers have ended, then the client is closed.
LoadEnds ==
    /\ phase = "load" /\ Active = {}
    /\ cancelled \/ \A u \in Url : stage[u] = "done"
    /\ phase' = "save" /\ closed' = TRUE
    /\ UNCHANGED <<fileVars, receiptVars, transferVars, cancelled, exhausted, result, jobs>>

Outcome == IF ~cancelled /\ succeeded = Url THEN "ok" ELSE "failed"

\* _save_receipts: a temporary file, then one replacement.
Save ==
    /\ phase = "save" /\ phase' = "idle"
    /\ saved' = noted /\ result' = Outcome
    /\ UNCHANGED <<fileVars, noted, transferVars, cancelled, exhausted, closed, jobs>>

SaveFails ==
    /\ phase = "save" /\ phase' = "idle" /\ result' = "unsaved"
    /\ UNCHANGED <<fileVars, receiptVars, transferVars, cancelled, exhausted, closed, jobs>>

-----------------------------------------------------------------------------
(* The environment *)

Kill ==
    /\ phase # "idle" /\ phase' = "idle" /\ result' = "killed"
    /\ stage' = [u \in Url |-> "none"]
    /\ UNCHANGED <<fileVars, receiptVars, original, attempt, published, succeeded, unnoted,
                   cancelled, exhausted, closed, jobs>>

\* Another program writes or removes a destination file.
Meddle(u) ==
    /\ \/ "between" \in Meddling /\ phase = "idle"
       \/ "queued" \in Meddling /\ phase = "load" /\ stage[u] = "listed"
       \/ "fetching" \in Meddling /\ stage[u] \in {"fetching", "ranges"}
    /\ \/ last < Writes /\ last' = last + 1 /\ disk' = [disk EXCEPT ![u] = last']
       \/ disk[u] # 0 /\ disk' = [disk EXCEPT ![u] = 0] /\ last' = last
    /\ UNCHANGED <<ours, lost, receiptVars, transferVars, jobVars>>

-----------------------------------------------------------------------------
Work(u) ==
    \/ Take(u) \/ Prepare(u) \/ Probe(u) \/ Loaded(u)
    \/ (stage[u] = "publishing" /\ Publish(u))
    \/ Note(u) \/ Release(u)

Fail(u) == PrepareFails(u) \/ Retry(u) \/ LoadFails(u) \/ PublishFails(u) \/ NoteFails(u)

Job == Refuse \/ Start \/ LoadEnds \/ Save

Next ==
    \/ Begin \/ Job \/ SaveFails \/ Interrupt \/ Kill
    \/ \E u \in Url : Examine(u) \/ Work(u) \/ Fail(u) \/ Meddle(u)

Spec == Init /\ [][Next]_vars

\* Threads end, responses have timeouts: a transfer goes on or fails.
FairSpec ==
    /\ Spec /\ WF_vars(Job)
    /\ \A u \in Url : WF_vars(Examine(u)) /\ WF_vars(Work(u) \/ PublishFails(u))

-----------------------------------------------------------------------------
TypeOK ==
    /\ phase \in {"idle", "examine", "load", "save"}
    /\ disk \in [Url -> 0..Writes] /\ last \in 0..Writes
    /\ ours \subseteq 1..Writes /\ lost \subseteq 1..Writes
    /\ noted \in [Url -> 0..Writes] /\ saved \in [Url -> 0..Writes]
    /\ stage \in [Url -> Stages]
    /\ original \in [Url -> 0..Writes] /\ attempt \in [Url -> 0..Retries]
    /\ published \subseteq Url /\ succeeded \subseteq published /\ unnoted \subseteq published
    /\ cancelled \in BOOLEAN /\ exhausted \in BOOLEAN /\ closed \in BOOLEAN
    /\ result \in {"none", "ok", "failed", "refused", "unsaved", "killed"} /\ jobs \in 0..Jobs

(* transfers.py:1050, "existing files require a matching prior receipt
   or explicit overwrite": without --overwrite no job ever replaces a file
   that this mode has not published. *)
ForeignFilesKept == lost = {}

(* transfers.py:1153-1164: a saved receipt describes a file this mode
   published, so that a match proves ownership in every later job. *)
ReceiptsAreOurs == \A u \in Url : saved[u] # 0 => saved[u] \in ours

(* transfers.py:893-897 and :1188-1193: a job that ends by itself, failed or
   interrupted, leaves a receipt for each file it reports as downloaded. *)
SuccessesHaveReceipts ==
    (phase = "idle" /\ result \in {"ok", "failed"}) =>
        \A u \in succeeded : saved[u] \in ours /\ saved[u] > original[u]

(* transfers.py:893-897: an interruption between the publication and the
   worker's return loses no receipt: every file it published, and whose
   identity could be read, is one the saved receipts describe. *)
InterruptionKeepsReceipts ==
    (phase = "idle" /\ result = "failed" /\ cancelled) =>
        \A u \in published \ unnoted : disk[u] \in ours => saved[u] = disk[u]

(* transfers.py:1000-1020: when the client is closed and receipts are saved,
   no thread of the job is at work on a file. *)
QuietWhenClosed == closed => Active = {}

(* transfers.py:998-1020: a job ends, interrupted or not. *)
JobEnds == phase # "idle" ~> phase = "idle"
=============================================================================
