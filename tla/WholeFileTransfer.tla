-------------------------- MODULE WholeFileTransfer --------------------------
(***************************************************************************)
(* _core/downloads.py: _download_file_single, with download_integrity.py:  *)
(* the download of one destination file through a partial file that        *)
(* survives failures and crashes, and a resume record (.part.json) that    *)
(* binds the bytes of the partial to one URL and strong ETag.              *)
(*                                                                         *)
(* The process may die between any two steps; what is on disk (partial,    *)
(* meta, dest) stays, and a later run may download the same file again,    *)
(* with or without resume, from the same or another URL. The server may    *)
(* change the file at any time, ignore or misread the range, answer with   *)
(* any status and drop the connection. One answer carries one version, and *)
(* a strong ETag names one version of a URL (the HTTP contract); the same  *)
(* tag may mean something else at another URL. The partial file is the     *)
(* program's own (its tree is locked, see DestinationLock), so the         *)
(* identity checks on it always succeed here; those on the destination,    *)
(* which others may edit, are modelled.                                    *)
(***************************************************************************)
EXTENDS Naturals, Sequences

CONSTANTS
    Url,
    Version,        \* representations of the file
    VersionUrl,     \* VersionUrl[v]: where v is served
    Tag,            \* Tag[v]: its strong ETag, or NoTag
    Size,           \* Size[v]: blocks of v
    Announced,      \* versions served with a Content-Length
    UserFile,       \* what other programs put at the destination
    MaxRetries,     \* config.max_retries
    NoFile, NoMeta, NoTag, NoUrl, NoVersion

\* Assumed of the constants wherever the module is instantiated.
TransferAssumption ==
    /\ VersionUrl \in [Version -> Url]
    /\ Size \in [Version -> Nat \ {0}]
    /\ Announced \subseteq Version
    /\ MaxRetries \in Nat
    /\ \A v, w \in Version :
          VersionUrl[v] = VersionUrl[w] /\ Tag[v] = Tag[w] /\ Tag[v] # NoTag => v = w
    /\ NoUrl \notin Url /\ NoVersion \notin Version

VARIABLES
    server,         \* server[u]: the version u serves now
    offered,        \* every version served so far (history)
    dest,           \* the destination: NoFile, a user's file, or blocks
    partial,        \* the partial file: NoFile, or blocks (the version of each)
    meta,           \* the resume record beside it: [url, tag, size], or NoMeta
    pc,             \* where the transfer is
    url, resume,    \* the requested URL; config.enable_resume
    original,       \* original_destination
    attempt,
    using,          \* the record of this attempt (metadata), or NoMeta
    version,        \* the version of the response being read
    append          \* mode: "ab" (TRUE) or "wb" (FALSE)

diskVars == <<dest, partial, meta>>
netVars == <<server, offered>>
runVars == <<url, resume, original>>
vars == <<netVars, diskVars, pc, runVars, attempt, using, version, append>>

Blocks(v, n) == [i \in 1..n |-> v]

\* load_resume_metadata: the record is usable for a non-empty partial of u.
Load(u) ==
    IF /\ partial # NoFile /\ meta # NoMeta
       /\ meta.url = u
       /\ 0 < Len(partial) /\ Len(partial) <= meta.size
    THEN meta ELSE NoMeta

Init ==
    /\ server \in [Url -> Version]
    /\ \A u \in Url : VersionUrl[server[u]] = u
    /\ offered = {server[u] : u \in Url}
    /\ dest \in UserFile \union {NoFile}
    /\ partial = NoFile
    /\ meta = NoMeta
    /\ pc = "idle"
    /\ url = NoUrl /\ resume = FALSE /\ original = dest
    /\ attempt = 0 /\ using = NoMeta /\ version = NoVersion /\ append = FALSE

-----------------------------------------------------------------------------
(* A new download, and the start of an attempt *)

\* The call ends: with success, with a failure that is reported, or killed.
Stop ==
    /\ pc' = "idle"
    /\ attempt' = 0 /\ using' = NoMeta /\ version' = NoVersion /\ append' = FALSE
    /\ UNCHANGED runVars

Start(u, r) ==
    /\ pc = "idle"
    /\ pc' = "attempt"
    /\ url' = u /\ resume' = r
    /\ original' = dest
    /\ UNCHANGED <<netVars, diskVars, attempt, using, version, append>>

\* Without a usable record the stale one goes before the request is made.
BeginAttempt ==
    LET loaded == IF resume THEN Load(url) ELSE NoMeta
    IN  /\ pc = "attempt"
        /\ using' = loaded
        /\ meta' = IF loaded = NoMeta THEN NoMeta ELSE meta
        /\ pc' = "request"
        /\ UNCHANGED <<netVars, dest, partial, runVars, attempt, version, append>>

-----------------------------------------------------------------------------
(* The answers to the request *)

\* 416 to a range request: ask again for the whole file. The record goes only
\* when the second answer is there.
RangeNotSatisfiable ==
    /\ pc = "request" /\ using # NoMeta
    /\ pc' = "refetch"
    /\ UNCHANGED <<netVars, diskVars, runVars, attempt, using, version, append>>

\* 200: the whole file, whether or not a range was asked for. The old record
\* is cleared before anything happens to the partial file.
Answer200 ==
    /\ pc \in {"request", "refetch"}
    /\ version' = server[url]
    /\ append' = FALSE
    /\ using' = NoMeta
    /\ meta' = NoMeta
    /\ pc' = "open"
    /\ UNCHANGED <<netVars, dest, partial, runVars, attempt>>

\* Variant: offset and total are checked, the ETag is not.
AcceptableAnyTag(start) ==
    /\ pc = "request" /\ using # NoMeta
    /\ start = Len(partial)
    /\ Size[server[url]] = using.size

\* A 206 is read only as the answer to the range asked for, and
\* validate_range wants offset, total and strong ETag to be the record's.
Acceptable(start) ==
    /\ pc = "request" /\ using # NoMeta
    /\ start = Len(partial)
    /\ Size[server[url]] = using.size
    /\ Tag[server[url]] = using.tag

Answer206(start) ==
    /\ Acceptable(start)
    /\ version' = server[url]
    /\ append' = TRUE
    /\ pc' = "open"
    /\ UNCHANGED <<netVars, diskVars, runVars, attempt, using>>

\* An unsolicited 206, another range than the one asked for, or the range of
\* a version the record does not name: a ValueError.
BadRange(start) ==
    /\ pc \in {"request", "refetch"}
    /\ ~Acceptable(start)
    /\ meta' = IF pc = "refetch" THEN NoMeta ELSE meta
    /\ pc' = "discard"
    /\ UNCHANGED <<netVars, dest, partial, runVars, attempt, using, version, append>>

\* Any other status ends the call, and the partial file stays.
OtherStatus ==
    /\ pc \in {"request", "refetch"}
    /\ meta' = IF pc = "refetch" THEN NoMeta ELSE meta
    /\ Stop
    /\ UNCHANGED <<netVars, dest, partial>>

-----------------------------------------------------------------------------
(* The body *)

\* open_owned_partial, truncate for "wb", fsync.
OpenPartial ==
    /\ pc = "open"
    /\ partial' = IF append THEN partial ELSE <<>>
    /\ pc' = "bind"
    /\ UNCHANGED <<netVars, dest, meta, runVars, attempt, using, version, append>>

\* The new record is saved only now that no old byte is left in the partial.
BindRecord ==
    /\ pc = "bind"
    /\ meta' = IF Tag[version] # NoTag /\ version \in Announced
               THEN [url |-> url, tag |-> Tag[version], size |-> Size[version]]
               ELSE NoMeta
    /\ pc' = "stream"
    /\ UNCHANGED <<netVars, dest, partial, runVars, attempt, using, version, append>>

WriteBlock ==
    /\ pc = "stream"
    /\ Len(partial) < Size[version]
    /\ partial' = Append(partial, version)
    /\ UNCHANGED <<netVars, dest, meta, pc, runVars, attempt, using, version, append>>

\* The body ends, possibly early.
EndOfBody ==
    /\ pc = "stream"
    /\ pc' = "verify"
    /\ UNCHANGED <<netVars, diskVars, runVars, attempt, using, version, append>>

\* A length that was announced must have arrived in full.
Verify ==
    /\ pc = "verify"
    /\ pc' = IF version \in Announced /\ Len(partial) # Size[version]
             THEN "discard" ELSE "publish"
    /\ UNCHANGED <<netVars, diskVars, runVars, attempt, using, version, append>>

\* replace_verified_file: the check of the destination and the os.replace.
Publish ==
    /\ pc = "publish"
    /\ IF dest = original
       THEN /\ dest' = partial
            /\ partial' = NoFile
            /\ pc' = "published"
       ELSE /\ pc' = "discard"
            /\ UNCHANGED <<dest, partial>>
    /\ UNCHANGED <<netVars, meta, runVars, attempt, using, version, append>>

\* The record of a published partial goes; an OSError only leaves it behind.
Finish ==
    /\ pc = "published"
    /\ meta' \in {NoMeta, meta}
    /\ Stop
    /\ UNCHANGED <<netVars, dest, partial>>

-----------------------------------------------------------------------------
(* Failures *)

\* Variant: one retry too many.
NetworkErrorOneMore ==
    /\ pc \in {"request", "refetch", "stream"}
    /\ IF attempt <= MaxRetries
       THEN /\ attempt' = attempt + 1
            /\ pc' = "attempt"
            /\ using' = NoMeta /\ version' = NoVersion /\ append' = FALSE
            /\ UNCHANGED runVars
       ELSE Stop
    /\ UNCHANGED <<netVars, diskVars>>

\* ConnectError, TimeoutException, ReadError, RemoteProtocolError: the partial
\* and its record stay, for the next attempt or for a later run.
NetworkError ==
    /\ pc \in {"request", "refetch", "stream"}
    /\ IF attempt < MaxRetries
       THEN /\ attempt' = attempt + 1
            /\ pc' = "attempt"
            /\ using' = NoMeta /\ version' = NoVersion /\ append' = FALSE
            /\ UNCHANGED runVars
       ELSE Stop
    /\ UNCHANGED <<netVars, diskVars>>

\* MirrorConnectionError (a circuit breaker refuses the domain): no retry, and
\* nothing is discarded.
ConnectionRefused ==
    /\ pc \in {"request", "refetch"}
    /\ Stop
    /\ UNCHANGED <<netVars, diskVars>>

\* CapacityError or a full disk: the partial stays if it can be resumed.
NoCapacity ==
    /\ pc \in {"attempt", "open", "bind", "stream"}
    /\ IF Load(url) # NoMeta
       THEN Stop
       ELSE /\ pc' = "discard"
            /\ UNCHANGED <<runVars, attempt, using, version, append>>
    /\ UNCHANGED <<netVars, diskVars>>

\* HTTPStatusError, or any other exception of the body of an attempt.
OtherError ==
    /\ pc \in {"attempt", "request", "refetch", "open", "bind", "stream", "verify", "publish"}
    /\ pc' = "discard"
    /\ UNCHANGED <<netVars, diskVars, runVars, attempt, using, version, append>>

\* discard_partial: the bytes, then the record; nothing when there is no file.
\* An OSError ends it and what is left stays.
DiscardBytes ==
    /\ pc = "discard"
    /\ \/ /\ partial # NoFile
          /\ partial' = NoFile
          /\ pc' = "discardRecord"
          /\ UNCHANGED <<runVars, attempt, using, version, append>>
       \/ Stop /\ UNCHANGED partial
    /\ UNCHANGED <<netVars, dest, meta>>

DiscardRecord ==
    /\ pc = "discardRecord"
    /\ meta' \in {NoMeta, meta}
    /\ Stop
    /\ UNCHANGED <<netVars, dest, partial>>

Crash ==
    /\ pc # "idle"
    /\ Stop
    /\ UNCHANGED <<netVars, diskVars>>

\* cleanup_stale_partials, between downloads of this file: an old partial is
\* removed, then its record (a failure or a crash may leave the record).
CleanupStalePartial ==
    /\ pc = "idle" /\ partial # NoFile
    /\ partial' = NoFile
    /\ meta' \in {NoMeta, meta}
    /\ UNCHANGED <<netVars, dest, pc, runVars, attempt, using, version, append>>

-----------------------------------------------------------------------------
(* The environment *)

ServerChange(v) ==
    /\ server' = [server EXCEPT ![VersionUrl[v]] = v]
    /\ offered' = offered \union {v}
    /\ UNCHANGED <<diskVars, pc, runVars, attempt, using, version, append>>

UserEdit(file) ==
    /\ dest' = file
    /\ UNCHANGED <<netVars, partial, meta, pc, runVars, attempt, using, version, append>>

-----------------------------------------------------------------------------
Step ==
    \/ BeginAttempt \/ RangeNotSatisfiable \/ Answer200 \/ OtherStatus
    \/ url # NoUrl /\ \E start \in 0..Size[server[url]] - 1 : Answer206(start) \/ BadRange(start)
    \/ OpenPartial \/ BindRecord \/ WriteBlock \/ EndOfBody \/ Verify \/ Publish \/ Finish
    \/ NetworkError \/ ConnectionRefused \/ NoCapacity \/ OtherError
    \/ DiscardBytes \/ DiscardRecord

Environment ==
    \/ \E u \in Url, r \in BOOLEAN : Start(u, r)
    \/ Crash
    \/ CleanupStalePartial
    \/ \E v \in Version : ServerChange(v)
    \/ \E file \in UserFile \union {NoFile} : UserEdit(file)

Next == Step \/ Environment

Spec == Init /\ [][Next]_vars

\* Every step of a running transfer ends: requests and reads have a timeout
\* of 30 s. Nobody is obliged to start one, to crash, or to edit files.
FairSpec == Spec /\ WF_vars(Step)

-----------------------------------------------------------------------------
(* Properties *)

Body == {b \in Seq(Version) : \E v \in Version : Len(b) <= Size[v]}
Record == [url : Url, tag : {Tag[v] : v \in Version} \ {NoTag}, size : Nat]

\* Every variable has its type.
TypeOK ==
    /\ server \in [Url -> Version] /\ offered \subseteq Version
    /\ dest \in UserFile \union {NoFile} \union Body
    /\ partial \in {NoFile} \union Body
    /\ meta \in Record \union {NoMeta}
    /\ pc \in {"idle", "attempt", "request", "refetch", "open", "bind", "stream", "verify",
               "publish", "published", "discard", "discardRecord"}
    /\ url \in Url \union {NoUrl} /\ resume \in BOOLEAN
    /\ original \in UserFile \union {NoFile} \union Body
    /\ attempt \in 0..MaxRetries
    /\ using \in Record \union {NoMeta}
    /\ version \in Version \union {NoVersion} /\ append \in BOOLEAN

\* A partial file that its record makes resumable holds the first blocks of
\* exactly the representation the record names, at every instant a crash can
\* expose ("a crash cannot bind old bytes to the new representation").
ResumableIsPrefix ==
    \A u \in Url :
        Load(u) # NoMeta =>
            \E v \in Version :
                /\ VersionUrl[v] = u /\ Tag[v] = meta.tag /\ Size[v] = meta.size
                /\ partial = Blocks(v, Len(partial))

\* A download of a file, seen from the destination, is one atomic publication
\* of one representation.
Atomic == INSTANCE AtomicPublication WITH seen <- original
ImplementsAtomicPublication == Atomic!Spec

\* Retries are bounded, and every failure path ends: a call to
\* _download_file_single returns.
TransferEnds == pc # "idle" ~> pc = "idle"
=============================================================================
