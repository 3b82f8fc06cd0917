------------------------------ MODULE Transfers ------------------------------
(***************************************************************************)
(* The three engines that put a file at its destination: the whole-file    *)
(* transfer, the chunked download, and the mode that downloads a list of   *)
(* URLs. They share no state, so each behaviour follows one of them while  *)
(* the others rest: what holds of all these behaviours holds of the three  *)
(* side by side.                                                           *)
(***************************************************************************)
EXTENDS Integers, Sequences, FiniteSets

CONSTANTS
    Parts,          \* the parts that are followed
    \* whole-file transfers: see WholeFileTransfer
    Url, Version, VersionUrl, Tag, Size, Announced, UserFile, MaxRetries,
    NoFile, NoMeta, NoTag, NoUrl, NoVersion,
    \* chunked downloads: see ChunkedDownload
    Served,         \* versions on the server
    Edits,          \* what other programs put at the destination
    Chunks, Workers, PerHost, ChunkRetries, RetryLimit, RetryMode, Torn,
    \* lists: see UrlListDownload; each is a function of the way
    Listed, Ranged, Width, ListRetries, Meddled, Written, ListJobs

VARIABLES
    part,
    server, offered, dest, partial, meta, pc, url, resume, original, attempt, using,
    version, append,
    chunkServer, chunkOffered, chunkDest, chunkOriginal, chunkPc, next, status, planned,
    chunk, task, got, block, chunkAttempt, retries, failed, noSpace, unpublished, work,
    deferred, budgeted, claim, shut,
    phase, disk, last, ours, noted, saved, stage, listOriginal, listAttempt, published,
    succeeded, unnoted, cancelled, exhausted, closed, lost, result, jobs

wholeVars == <<server, offered, dest, partial, meta, pc, url, resume, original, attempt,
               using, version, append>>
chunkVars == <<chunkServer, chunkOffered, chunkDest, chunkOriginal, chunkPc, next, status,
               planned, chunk, task, got, block, chunkAttempt, retries, failed, noSpace,
               unpublished, work, deferred, budgeted, claim, shut>>
listVars == <<phase, disk, last, ours, noted, saved, stage, listOriginal, listAttempt,
              published, succeeded, unnoted, cancelled, exhausted, closed, lost, result, jobs>>
vars == <<part, wholeVars, chunkVars, listVars>>

Whole == INSTANCE WholeFileTransfer

InChunks == INSTANCE ChunkedDownload WITH
    Version <- Served, Tagged <- Served, UserFile <- Edits,
    server <- chunkServer, offered <- chunkOffered, dest <- chunkDest,
    original <- chunkOriginal, pc <- chunkPc, attempt <- chunkAttempt

\* Lists that keep what is there, and lists with --overwrite.
Ways == {"kept", "overwritten"}
Lists(way) == INSTANCE UrlListDownload WITH
    Url <- Listed[way], Chunked <- Ranged[way], Overwrite <- (way = "overwritten"),
    Concurrency <- Width[way], Retries <- ListRetries[way], Meddling <- Meddled[way],
    Writes <- Written[way], Jobs <- ListJobs[way],
    original <- listOriginal, attempt <- listAttempt

\* A file that is created while its URL waits in the list is not noticed.
ASSUME PartsAssumption ==
    /\ Parts \subseteq {"whole", "chunked"} \union Ways
    /\ Whole!TransferAssumption /\ InChunks!ChunkAssumption
    /\ \A way \in Ways : Lists(way)!ListAssumption
    /\ "queued" \notin Meddled["kept"]

\* The parts that rest do so in one of their initial states.
Init ==
    /\ part \in Parts
    /\ Whole!Init /\ InChunks!Init
    /\ \E way \in Ways : way = (IF part \in Ways THEN part ELSE "kept") /\ Lists(way)!Init
    /\ part # "whole" =>
           dest = NoFile /\ server = [u \in Url |-> CHOOSE v \in Version : VersionUrl[v] = u]
    /\ part # "chunked" =>
           chunkDest = NoFile /\ chunkServer = (CHOOSE v \in Served : TRUE) /\ ~budgeted

WholeMoves == part = "whole" /\ Whole!Next /\ UNCHANGED <<part, chunkVars, listVars>>
ChunkedMoves == part = "chunked" /\ InChunks!Next /\ UNCHANGED <<part, wholeVars, listVars>>
ListMoves ==
    /\ \E way \in Ways : part = way /\ Lists(way)!Next
    /\ UNCHANGED <<part, wholeVars, chunkVars>>

Next == WholeMoves \/ ChunkedMoves \/ ListMoves

Spec == Init /\ [][Next]_vars

\* The fairness of each part (its FairSpec), for the part that moves.
FairSpec ==
    /\ Spec
    /\ WF_vars(part = "whole" /\ Whole!Step /\ UNCHANGED <<part, chunkVars, listVars>>)
    /\ WF_vars(part = "chunked" /\ InChunks!Caller /\ UNCHANGED <<part, wholeVars, listVars>>)
    /\ WF_vars(part = "chunked" /\ InChunks!Retire /\ UNCHANGED <<part, wholeVars, listVars>>)
    /\ \A c \in InChunks!Chunk :
          WF_vars(part = "chunked" /\ InChunks!Worker(c)
                  /\ UNCHANGED <<part, wholeVars, listVars>>)
    /\ WF_vars(part = "overwritten" /\ Lists("overwritten")!Job
               /\ UNCHANGED <<part, wholeVars, chunkVars>>)
    /\ \A u \in Listed["overwritten"] :
          /\ WF_vars(part = "overwritten" /\ Lists("overwritten")!Examine(u)
                     /\ UNCHANGED <<part, wholeVars, chunkVars>>)
          /\ WF_vars(/\ part = "overwritten"
                     /\ Lists("overwritten")!Work(u) \/ Lists("overwritten")!PublishFails(u)
                     /\ UNCHANGED <<part, wholeVars, chunkVars>>)

-----------------------------------------------------------------------------
(* What the three promise *)

\* Every variable of the part that moves has its type.
TypeOK ==
    /\ part = "whole" => Whole!TypeOK
    /\ part = "chunked" => InChunks!TypeOK
    /\ \A way \in Ways : part = way => Lists(way)!TypeOK

\* A partial file that its record makes resumable holds the first blocks of
\* the representation the record names (download_integrity.py:164-208).
ResumableIsPrefix == Whole!ResumableIsPrefix

\* Seen from the destination, whole-file transfers with their resumptions and
\* chunked downloads with their retries, timeouts and whole-file fallback are
\* atomic publications of one representation (download_integrity.py:53-91).
ImplementsAtomicPublication ==
    Whole!ImplementsAtomicPublication /\ InChunks!ImplementsAtomicPublication

\* Scratch stays leased "until the last writer exits" (download.py:788-792,
\* 1359-1377), is charged to the budget for as long as it exists
\* (_core/downloads.py:108-121), and is judged only when nobody writes to it
\* (download.py:837, 1030).
ScratchServesWriters ==
    /\ InChunks!WorkspaceOutlivesWriters
    /\ InChunks!ScratchIsCharged
    /\ InChunks!NobodyWritesWhilePublishing

\* A list never replaces a file of somebody else without --overwrite, also
\* when receipts of earlier, failed or killed jobs are all it has to know its
\* own by (transfers.py:1050, 1153-1164).
ForeignFilesKept ==
    \A way \in Ways : part = way =>
        Lists(way)!ForeignFilesKept /\ Lists(way)!ReceiptsAreOurs

\* A list's job that ends by itself, failed or interrupted, leaves a true
\* receipt for each file it reports, and for each it published before the
\* interruption (transfers.py:893-897, 1188-1193); no thread of it is at work
\* when the receipts are saved (transfers.py:1000-1020).
SuccessesHaveReceipts ==
    \A way \in Ways : part = way =>
        /\ Lists(way)!SuccessesHaveReceipts
        /\ Lists(way)!InterruptionKeepsReceipts
        /\ Lists(way)!QuietWhenClosed

\* Every call returns and every job ends, whatever fails, times out or is
\* interrupted (_core/downloads.py:217-534, download.py:770-856,
\* transfers.py:998-1020), and a deferred clean-up of scratch runs once the
\* writers it waits for are gone (download.py:1370-1377).
TransfersEnd ==
    /\ Whole!TransferEnds
    /\ InChunks!DownloadEnds
    /\ InChunks!DeferredCleanupHappens
    /\ Lists("overwritten")!JobEnds
=============================================================================
