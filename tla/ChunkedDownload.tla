--------------------------- MODULE ChunkedDownload ---------------------------
(***************************************************************************)
(* download.py: ParallelDownloadManager, with its caller                   *)
(* _core/downloads.py: download_file_with_resume. One file is fetched as   *)
(* ranges by the threads of an executor, into one preallocated staging     *)
(* file (streaming) or one temporary file per chunk; then it is published  *)
(* with one rename. A wait that times out does not stop the thread it      *)
(* waited for, so the scratch space and the capacity claim must outlive    *)
(* the last writer. When the chunks fail the whole file is downloaded in   *)
(* one piece, unless the destination is no longer what it was.             *)
(*                                                                         *)
(* The server may change the file between any two requests and other       *)
(* programs may edit the destination. A chunk is one block, named by the   *)
(* version its bytes came from, or torn while it is being (re)written.     *)
(***************************************************************************)
EXTENDS Naturals, Sequences, FiniteSets

CONSTANTS
    Version,        \* representations of the file
    Tagged,         \* those with a strong ETag (one ETag names one version)
    Chunks,         \* chunks per file
    Workers,        \* max_parallel_chunks
    PerHost,        \* permits of the per-IP semaphore
    ChunkRetries,   \* retries of a request within a chunk (2, or max_retries)
    RetryLimit,     \* max_retries of _retry_failed_chunks (3)
    RetryMode,      \* config.mode # "download": failed chunks are retried
    UserFile, NoFile, NoVersion, Torn

\* Assumed of the constants wherever the module is instantiated.
ChunkAssumption ==
    /\ Tagged \subseteq Version
    /\ Chunks \in Nat \ {0} /\ Workers \in Nat \ {0} /\ PerHost \in Nat \ {0}
    /\ ChunkRetries \in Nat /\ RetryLimit \in Nat /\ RetryMode \in BOOLEAN
    /\ NoVersion \notin Version /\ Torn \notin Version

VARIABLES
    server, offered,    \* the version served now; every version served so far
    dest,               \* the destination file
    original,           \* download.original_identity, or what the whole-file path saw
    pc,                 \* where the caller's thread is
    next,               \* the chunk its loop is at
    status,             \* download.status
    planned,            \* the version the HEAD described (download.server_etag)
    chunk,              \* chunk[c]: ChunkInfo.status
    task,               \* task[c]: what the thread of chunk c does
    got,                \* got[c]: the version of the response being read
    block,              \* block[c]: the bytes in the staging or chunk file
    attempt, retries,   \* attempts of this call; ChunkInfo.retries
    failed,             \* failed futures counted by the wait
    noSpace,            \* some chunk.capacity_failed
    unpublished,        \* download.publication_failed
    work,               \* the scratch workspace exists
    deferred,           \* a clean-up is deferred and its callback has not run
    budgeted, claim,    \* there is a capacity budget; the bytes are claimed
    shut                \* the manager was shut down

envVars == <<server, offered, dest>>
fileVars == <<planned, original, budgeted>>
taskVars == <<chunk, task, got, block, attempt, retries, noSpace>>
spaceVars == <<work, deferred, claim>>
others == <<envVars, fileVars, spaceVars, pc, next, status, failed, unpublished, shut>>
fixed == <<envVars, fileVars, taskVars, shut>>
vars == <<others, taskVars>>

Chunk == 1..Chunks
Pending == {c \in Chunk : task[c] \notin {"none", "done"}}
Running == {c \in Chunk : task[c] \notin {"none", "queued", "done"}}
Holders == {c \in Chunk : task[c] \in {"request", "body"}}

Init ==
    /\ server \in Version /\ offered = {server}
    /\ dest \in UserFile \union {NoFile} /\ original = dest
    /\ pc = "idle" /\ next = 1 /\ status = "none"
    /\ planned = NoVersion
    /\ chunk = [c \in Chunk |-> "pending"]
    /\ task = [c \in Chunk |-> "none"]
    /\ got = [c \in Chunk |-> NoVersion]
    /\ block = [c \in Chunk |-> Torn]
    /\ attempt = [c \in Chunk |-> 0] /\ retries = [c \in Chunk |-> 0]
    /\ failed = 0 /\ noSpace = FALSE /\ unpublished = FALSE
    /\ work = FALSE /\ deferred = FALSE
    /\ budgeted \in BOOLEAN /\ claim = FALSE
    /\ shut = FALSE

-----------------------------------------------------------------------------
(* download_file_with_resume and create_chunks *)

\* capacity.reserve, before the chunks are planned. Only one chunked download
\* of the file is followed; its workspace must be gone before the next.
Start ==
    /\ pc = "idle" /\ ~work /\ ~deferred
    /\ pc' = "create"
    /\ claim' = budgeted
    /\ status' = "none" /\ unpublished' = FALSE /\ failed' = 0
    /\ UNCHANGED <<fixed, work, deferred, next>>

\* The HEAD must be a 200 with byte ranges, the planned length and a strong
\* ETag. Streaming preallocates the staging file; an OSError there falls back
\* to chunk files.
Create(streaming) ==
    /\ pc = "create" /\ server \in Tagged
    /\ planned' = server
    /\ original' = dest
    /\ status' = IF streaming THEN "streaming" ELSE "downloading"
    /\ chunk' = [c \in Chunk |-> "pending"]
    /\ task' = [c \in Chunk |-> "none"]
    /\ got' = [c \in Chunk |-> NoVersion]
    /\ block' = [c \in Chunk |-> Torn]
    /\ attempt' = [c \in Chunk |-> 0] /\ retries' = [c \in Chunk |-> 0]
    /\ noSpace' = FALSE
    /\ work' = TRUE
    /\ pc' = "submit" /\ next' = 1
    /\ UNCHANGED <<envVars, budgeted, deferred, claim, failed, unpublished, shut>>

\* No plan (the HEAD does not qualify or fails, the breaker refuses): the
\* claim is released and the file downloaded whole.
NoPlan ==
    /\ pc = "create"
    /\ claim' = FALSE
    /\ pc' = "whole"
    /\ UNCHANGED <<fixed, work, deferred, next, status, failed, unpublished>>

\* An OSError of the admission or of the preallocation ends the call.
NoAdmission ==
    /\ pc = "create"
    /\ claim' = FALSE
    /\ pc' = "idle"
    /\ UNCHANGED <<fixed, work, deferred, next, status, failed, unpublished>>

-----------------------------------------------------------------------------
(* download_parallel *)

\* Every path that gives up goes through cleanup_chunks.
GiveUp ==
    /\ status' = "failed"
    /\ pc' = "clean"
    /\ UNCHANGED <<fixed, spaceVars, next, failed, unpublished>>

\* The disk check of download_parallel.
DiskFull == pc = "submit" /\ next = 1 /\ GiveUp

Submit ==
    /\ pc = "submit" /\ ~shut
    /\ task' = [task EXCEPT ![next] = "queued"]
    /\ IF next = Chunks THEN pc' = "wait" /\ next' = 1 ELSE pc' = pc /\ next' = next + 1
    /\ UNCHANGED <<envVars, fileVars, spaceVars, chunk, got, block, attempt, retries, noSpace, status, failed, unpublished, shut>>

\* The executor is shut down; the chunks submitted before go on.
SubmitRefused == pc = "submit" /\ shut /\ GiveUp

Waited == IF next = Chunks THEN pc' = "decide" /\ next' = 1 ELSE pc' = pc /\ next' = next + 1

\* future.result: a result, or the CancelledError of a future that never ran.
Wait ==
    /\ pc = "wait" /\ task[next] = "done"
    /\ failed' = IF chunk[next] = "completed" THEN failed ELSE failed + 1
    /\ chunk' = IF chunk[next] = "completed" THEN chunk ELSE [chunk EXCEPT ![next] = "failed"]
    /\ Waited
    /\ UNCHANGED <<envVars, fileVars, spaceVars, task, got, block, attempt, retries, noSpace, status, unpublished, shut>>

\* future.result(timeout=120) gives up on a chunk. If the future is done by
\* the time the handler looks, the chunk counts as failed whatever it did.
WaitTimeout ==
    /\ pc = "wait"
    /\ failed' = failed + 1
    /\ chunk' = IF task[next] = "done" THEN [chunk EXCEPT ![next] = "failed"] ELSE chunk
    /\ Waited
    /\ UNCHANGED <<envVars, fileVars, spaceVars, task, got, block, attempt, retries, noSpace, status, unpublished, shut>>

\* A future that is not done ends the download: nothing is published or
\* retried beside a writer. Otherwise a minority of failures is retried.
Decide ==
    /\ pc = "decide"
    /\ IF failed = 0
       THEN pc' = "finish" /\ UNCHANGED <<status, next>>
       ELSE IF Pending = {} /\ RetryMode /\ ~noSpace /\ failed <= Chunks \div 2
            THEN pc' = "retry" /\ next' = 1 /\ UNCHANGED status
            ELSE pc' = "clean" /\ status' = "failed" /\ UNCHANGED next
    /\ UNCHANGED <<fixed, spaceVars, failed, unpublished>>

\* _retry_failed_chunks, in the caller's thread, one chunk after the other.
Retry ==
    /\ pc = "retry"
    /\ IF chunk[next] = "failed"
       THEN /\ retries' = [retries EXCEPT ![next] = @ + 1]
            /\ chunk' = [chunk EXCEPT ![next] = "pending"]
            /\ IF retries[next] < RetryLimit
               THEN /\ task' = [task EXCEPT ![next] = "permit"]
                    /\ attempt' = [attempt EXCEPT ![next] = 0]
                    /\ pc' = "retrying" /\ UNCHANGED status
               ELSE pc' = "clean" /\ status' = "failed" /\ UNCHANGED <<task, attempt>>
            /\ UNCHANGED next
       ELSE /\ IF next = Chunks
               THEN pc' = "finish" /\ UNCHANGED next
               ELSE next' = next + 1 /\ UNCHANGED pc
            /\ UNCHANGED <<chunk, task, attempt, retries, status>>
    /\ UNCHANGED <<envVars, fileVars, spaceVars, got, block, noSpace, failed, unpublished, shut>>

Retried ==
    /\ pc = "retrying" /\ task[next] = "done"
    /\ IF chunk[next] = "completed"
       THEN pc' = "retry" /\ failed' = failed - 1 /\ UNCHANGED status
       ELSE pc' = "clean" /\ status' = "failed" /\ UNCHANGED failed
    /\ UNCHANGED <<fixed, spaceVars, next, unpublished>>

\* _check_capacity before the retries.
RetryRefused == pc = "retry" /\ next = 1 /\ GiveUp

-----------------------------------------------------------------------------
(* The thread of a chunk: _download_chunk_with_semaphore and               *)
(* _download_verified_chunk                                                *)

TaskEnds(c, result) ==
    /\ chunk' = [chunk EXCEPT ![c] = result]
    /\ task' = [task EXCEPT ![c] = "done"]
    /\ got' = [got EXCEPT ![c] = NoVersion]

Take(c) ==
    /\ task[c] = "queued" /\ Cardinality(Running) < Workers
    /\ task' = [task EXCEPT ![c] = "permit"]
    /\ UNCHANGED <<others, chunk, got, block, attempt, retries, noSpace>>

Permit(c) ==
    /\ task[c] = "permit" /\ Cardinality(Holders) < PerHost
    /\ task' = [task EXCEPT ![c] = "request"]
    /\ chunk' = [chunk EXCEPT ![c] = "downloading"]
    /\ UNCHANGED <<others, got, block, attempt, retries, noSpace>>

\* No permit within 120 s.
NoPermit(c) ==
    /\ task[c] = "permit" /\ Cardinality(Holders) >= PerHost
    /\ TaskEnds(c, "failed")
    /\ UNCHANGED <<others, block, attempt, retries, noSpace>>

\* A 206 with the range, total and ETag of the plan (validate_range). The
\* chunk's bytes are then rewritten from its start.
Answer(c) ==
    /\ task[c] = "request" /\ server = planned
    /\ task' = [task EXCEPT ![c] = "body"]
    /\ got' = [got EXCEPT ![c] = server]
    /\ block' = [block EXCEPT ![c] = Torn]
    /\ UNCHANGED <<others, chunk, attempt, retries, noSpace>>

Complete(c) ==
    /\ task[c] = "body"
    /\ block' = [block EXCEPT ![c] = got[c]]
    /\ TaskEnds(c, "completed")
    /\ UNCHANGED <<others, attempt, retries, noSpace>>

\* Another status, range, total or ETag; a body too short or too long.
BadAnswer(c) ==
    /\ task[c] \in {"request", "body"}
    /\ TaskEnds(c, "failed")
    /\ UNCHANGED <<others, block, attempt, retries, noSpace>>

\* Variant: a retry that is not counted.
NetworkErrorUncounted(c) ==
    /\ task[c] \in {"request", "body"}
    /\ task' = [task EXCEPT ![c] = "request"]
    /\ UNCHANGED <<others, chunk, got, block, attempt, retries, noSpace>>

\* RequestError or OSError: the request is repeated, then the chunk fails.
NetworkError(c) ==
    /\ task[c] \in {"request", "body"}
    /\ retries' = [retries EXCEPT ![c] = @ + 1]
    /\ IF attempt[c] = ChunkRetries
       THEN TaskEnds(c, "failed") /\ UNCHANGED attempt
       ELSE /\ attempt' = [attempt EXCEPT ![c] = @ + 1]
            /\ task' = [task EXCEPT ![c] = "request"]
            /\ got' = [got EXCEPT ![c] = NoVersion]
            /\ UNCHANGED chunk
    /\ UNCHANGED <<others, block, noSpace>>

NoSpace(c) ==
    /\ task[c] \in {"request", "body"}
    /\ noSpace' = TRUE
    /\ TaskEnds(c, "failed")
    /\ UNCHANGED <<others, block, attempt, retries>>

-----------------------------------------------------------------------------
(* _finish_streaming and assemble_file *)

\* Every chunk must be complete. Assembling copies the chunk files into one
\* and checks the length of each; the staging file is already in one piece.
Finish ==
    /\ pc = "finish"
    /\ unpublished' = (unpublished \/ status = "streaming" \/ \A c \in Chunk : chunk[c] = "completed")
    /\ IF \A c \in Chunk : chunk[c] = "completed"
       THEN /\ pc' = "publish"
            /\ status' = IF status = "streaming" THEN status ELSE "assembling"
       ELSE pc' = "clean" /\ status' = "failed"
    /\ UNCHANGED <<fixed, spaceVars, next, failed>>

\* An I/O or capacity error while assembling, flushing or hashing.
FinishFails == pc = "publish" /\ GiveUp

\* Variant: the destination is not looked at again.
PublishUnchecked ==
    /\ pc = "publish"
    /\ dest' = [c \in Chunk |-> block[c]] /\ status' = "completed" /\ unpublished' = FALSE
    /\ pc' = "clean"
    /\ UNCHANGED <<fileVars, spaceVars, taskVars, server, offered, next, failed, shut>>

\* _publish_staging, replace_verified_file.
Publish ==
    /\ pc = "publish"
    /\ IF dest = original
       THEN dest' = [c \in Chunk |-> block[c]] /\ status' = "completed" /\ unpublished' = FALSE
       ELSE status' = "failed" /\ UNCHANGED <<dest, unpublished>>
    /\ pc' = "clean"
    /\ UNCHANGED <<fileVars, spaceVars, taskVars, server, offered, next, failed, shut>>

-----------------------------------------------------------------------------
(* cleanup_chunks, and the end of the call *)

\* Variant: the workspace goes while chunks are still written.
CleanNow ==
    /\ pc = "clean"
    /\ work' = FALSE /\ pc' = "caller" /\ UNCHANGED deferred
    /\ UNCHANGED <<fixed, claim, next, status, failed, unpublished>>

\* The workspace goes now, or with the last writer; its removal may fail.
Clean ==
    /\ pc = "clean"
    /\ IF Pending # {}
       THEN deferred' = TRUE /\ UNCHANGED work
       ELSE work' \in {FALSE, work} /\ UNCHANGED deferred
    /\ pc' = "caller"
    /\ UNCHANGED <<fixed, claim, next, status, failed, unpublished>>

\* retire, the done callback of the futures a clean-up was deferred for.
Retire ==
    /\ deferred /\ Pending = {}
    /\ deferred' = FALSE /\ work' \in {FALSE, work}
    /\ UNCHANGED <<fixed, claim, pc, next, status, failed, unpublished>>

\* With a budget the futures are waited for and the workspace is cleaned once
\* more; what is still there, or was published, stays charged.
Settle ==
    /\ pc = "caller"
    /\ IF budgeted
       THEN /\ Pending = {}
            /\ work' \in {FALSE, work}
            /\ claim' = (status = "completed" \/ work')
       ELSE UNCHANGED <<work, claim>>
    /\ pc' = "result"
    /\ UNCHANGED <<fixed, deferred, next, status, failed, unpublished>>

\* Success and lost capacity end the call, a destination that may have been
\* somebody's too; otherwise the whole file is downloaded.
Result ==
    /\ pc = "result"
    /\ pc' = IF status = "completed" \/ noSpace \/ unpublished \/ dest # original
             THEN "idle" ELSE "whole"
    /\ UNCHANGED <<fixed, spaceVars, next, status, failed, unpublished>>

\* _download_file_single (WholeFileTransfer), by what it promises.
WholeFile ==
    /\ pc = "whole"
    /\ original' = dest
    /\ pc' = "wholePublish"
    /\ UNCHANGED <<envVars, spaceVars, taskVars, planned, budgeted, next, status, failed, unpublished, shut>>

WholeFileEnds ==
    /\ pc = "wholePublish"
    /\ \/ dest' = [c \in Chunk |-> server] /\ dest = original
       \/ UNCHANGED dest
    /\ pc' = "idle"
    /\ UNCHANGED <<fileVars, spaceVars, taskVars, server, offered, next, status, failed, unpublished, shut>>

-----------------------------------------------------------------------------
(* Shutdown, and the environment *)

\* Running downloads are marked; futures still queued are cancelled.
Shutdown ==
    /\ ~shut /\ shut' = TRUE
    /\ status' = IF work /\ status \in {"downloading", "assembling"} THEN "cancelled" ELSE status
    /\ task' = [c \in Chunk |-> IF task[c] = "queued" THEN "done" ELSE task[c]]
    /\ UNCHANGED <<envVars, fileVars, spaceVars, chunk, got, block, attempt, retries, noSpace, pc, next, failed, unpublished>>

ServerChange(v) ==
    /\ server' = v /\ offered' = offered \union {v}
    /\ UNCHANGED <<fileVars, spaceVars, taskVars, dest, pc, next, status, failed, unpublished, shut>>

UserEdit(file) ==
    /\ dest' = file
    /\ UNCHANGED <<fileVars, spaceVars, taskVars, server, offered, pc, next, status, failed, unpublished, shut>>

-----------------------------------------------------------------------------
Caller ==
    \/ \E streaming \in BOOLEAN : Create(streaming)
    \/ NoPlan \/ NoAdmission \/ DiskFull \/ Submit \/ SubmitRefused
    \/ Wait \/ WaitTimeout \/ Decide \/ Retry \/ Retried \/ RetryRefused
    \/ Finish \/ FinishFails \/ Publish \/ Clean \/ Settle \/ Result \/ WholeFile \/ WholeFileEnds

Worker(c) ==
    \/ Take(c) \/ Permit(c) \/ NoPermit(c)
    \/ Answer(c) \/ Complete(c) \/ BadAnswer(c) \/ NetworkError(c) \/ NoSpace(c)

Environment ==
    \/ Start \/ Shutdown
    \/ \E v \in Version : ServerChange(v)
    \/ \E file \in UserFile \union {NoFile} : UserEdit(file)

Next == Caller \/ (\E c \in Chunk : Worker(c)) \/ Retire \/ Environment

Spec == Init /\ [][Next]_vars

\* Waits, requests and reads are bounded by timeouts, and a done callback runs
\* when its future is done.
FairSpec ==
    /\ Spec
    /\ WF_vars(Caller) /\ WF_vars(Retire)
    /\ \A c \in Chunk : WF_vars(Worker(c))

-----------------------------------------------------------------------------
(* Properties *)

\* Every variable has its type.
TypeOK ==
    /\ server \in Version /\ offered \subseteq Version
    /\ {dest, original} \subseteq UserFile \union {NoFile} \union [Chunk -> Version]
    /\ pc \in {"idle", "create", "submit", "wait", "decide", "retry", "retrying", "finish",
               "publish", "clean", "caller", "result", "whole", "wholePublish"}
    /\ next \in Chunk
    /\ status \in {"none", "downloading", "streaming", "assembling", "completed", "failed",
                   "cancelled"}
    /\ planned \in Tagged \union {NoVersion}
    /\ chunk \in [Chunk -> {"pending", "downloading", "failed", "completed"}]
    /\ task \in [Chunk -> {"none", "queued", "permit", "request", "body", "done"}]
    /\ got \in [Chunk -> Tagged \union {NoVersion}]
    /\ block \in [Chunk -> Tagged \union {Torn}]
    /\ attempt \in [Chunk -> 0..ChunkRetries] /\ retries \in [Chunk -> Nat]
    /\ failed \in 0..Chunks
    /\ {noSpace, unpublished, work, deferred, budgeted, claim, shut} \subseteq BOOLEAN

\* Scratch stays leased "until the last writer exits": no thread that may
\* still open or write its chunk finds the workspace gone
\* (download.py:788-792, 1359-1377).
WorkspaceOutlivesWriters == Running # {} => work

\* What is published is judged when no thread can still change it: from the
\* last wait to the rename every chunk is complete and nobody writes
\* (download.py:788, 837, 1030).
NobodyWritesWhilePublishing ==
    pc = "publish" => Running = {} /\ \A c \in Chunk : block[c] = planned

\* Under a budget, scratch on disk is always charged: while the workspace
\* exists, also when its removal failed, the claim is not released
\* (_core/downloads.py:108-121).
ScratchIsCharged == budgeted /\ work => claim

\* Chunked download, its retries, timeouts and whole-file fallback look, from
\* the destination, like one atomic publication of one representation.
Atomic == INSTANCE AtomicPublication
    WITH seen <- original, Announced <- Version, Size <- [v \in Version |-> Chunks]
ImplementsAtomicPublication == Atomic!Spec

\* Every call returns, whatever times out, fails or is shut down.
DownloadEnds == pc # "idle" ~> pc = "idle"

\* Deferred clean-up is not forgotten: once the writers it found are gone it
\* runs, although the call may have returned long before (download.py:1370-1377).
DeferredCleanupHappens == deferred ~> ~deferred /\ Pending = {}
=============================================================================
