------------------------------ MODULE MirrorSync ------------------------------
(***************************************************************************)
(* ReportMixin.sync: the phases of one run (discovery, metadata checks,    *)
(* downloads, clean-up), composed with the module Discovery. A mirror may  *)
(* run again, and its process may be killed at any step and started anew.  *)
(*                                                                         *)
(* What a transfer does to one file is the subject of WholeFileTransfer    *)
(* and ChunkedDownload: here a file is local or not, and a transfer brings *)
(* it or fails. Whether a local file is current is the freshness policy's  *)
(* decision and left open.                                                 *)
(***************************************************************************)
EXTENDS Discovery

CONSTANTS
    Filtered,       \* files outside --filter: never listed, may be local
    Clashing,       \* sets of two files that map to one local name
    Policy,         \* cleanup_policy: "safe", "preview", "delete" or "move"
    DryRun,         \* config.dry_run
    Method,         \* "sequential" or "pool" (threads, or the tasks of aiohttp)
    MaxParallel     \* max_concurrent_downloads

\* Assumed of the constants wherever the module is instantiated.
SyncAssumption ==
    /\ Filtered \subseteq File
    /\ \A d \in Dir, listing \in Listings : listing \intersect Filtered = {}
    /\ Clashing \subseteq SUBSET File
    /\ Policy \in {"safe", "preview", "delete", "move"}
    /\ DryRun \in BOOLEAN /\ Method \in {"sequential", "pool"} /\ MaxParallel \in Nat \ {0}

VARIABLES
    phase,          \* "idle", "scan", "check", "load", "clean", "prune" or "end"
    local, dirs,    \* files and directories below the target directory
    archive,        \* records [file, stamp] in <target>_obsolete
    unchecked, todo, active,
    failed,         \* files_failed is not zero
    limit,          \* max_parallel, moved by the tuner
    obsolete,       \* what the clean-up has still to remove
    keptDirs,       \* directories it could not remove
    cleanFailed,    \* cleanup_failed_operations is not zero
    declined,       \* the user did not confirm the deletion
    result,         \* "none", "success" or "failed"
    removed         \* files this run removed or archived

treeVars == <<local, dirs, archive, removed>>
loadVars == <<unchecked, todo, active, failed, limit>>
cleanVars == <<obsolete, keptDirs, cleanFailed, declined>>
syncVars == <<phase, treeVars, loadVars, cleanVars, result>>
vars == <<discoveryVars, syncVars>>

\* _cleanup_path_selected: paths the scan deliberately did not inspect are
\* not the clean-up's business.
DirSelected(d) ==
    /\ PathDepth(d) <= MaxDepth
    /\ ~IsExcluded(d) /\ ~IsExcluded(Root)
    /\ Above[d] \intersect protected = {}

\* Variant: files outside the filters are obsolete, too.
FileSelectedUnfiltered(f) == DirSelected(Home[f])

FileSelected(f) == DirSelected(Home[f]) /\ f \notin Filtered

SyncInit ==
    /\ DiscoveryInit
    /\ phase = "idle" /\ result = "none"
    /\ local \in SUBSET File /\ dirs = UNION {Above[Home[f]] : f \in local}
    /\ archive = {} /\ removed = {}
    /\ unchecked = {} /\ todo = {} /\ active = {} /\ failed = FALSE /\ limit = 1
    /\ obsolete = {} /\ keptDirs = {} /\ cleanFailed = FALSE /\ declined = FALSE

Finish(outcome) == phase' = "end" /\ result' = outcome

-----------------------------------------------------------------------------
(* Discovery *)

Sync ==
    /\ phase \in {"idle", "end"}
    /\ Begin
    /\ phase' = "scan" /\ result' = "none"
    /\ failed' = FALSE /\ cleanFailed' = FALSE /\ declined' = FALSE
    /\ removed' = {} /\ unchecked' = {} /\ todo' = {} /\ active' = {}
    /\ obsolete' = {} /\ keptDirs' = {}
    /\ UNCHANGED <<local, dirs, archive, limit>>

\* No connection, or no disk space: the run ends before it begins.
RefuseToStart ==
    /\ phase \in {"idle", "end"}
    /\ Finish("failed")
    /\ UNCHANGED <<discoveryVars, treeVars, loadVars, cleanVars>>

Scan == phase = "scan" /\ (Walker \/ Abort) /\ UNCHANGED syncVars

ScanFailed ==
    /\ phase = "scan" /\ pc = "aborted"
    /\ Finish("failed")
    /\ UNCHANGED <<discoveryVars, treeVars, loadVars, cleanVars>>

Surveyed ==
    /\ phase = "scan" /\ pc = "done" /\ LinkMode = "detect"
    /\ Finish(IF incomplete THEN "failed" ELSE "success")
    /\ UNCHANGED <<discoveryVars, treeVars, loadVars, cleanVars>>

\* _validate_remote_paths: two URLs with one local name are a fatal error.
RefuseClash ==
    /\ phase = "scan" /\ pc = "done" /\ LinkMode # "detect"
    /\ \E pair \in Clashing : pair \subseteq remote
    /\ Finish("failed")
    /\ UNCHANGED <<discoveryVars, treeVars, loadVars, cleanVars>>

Scanned ==
    /\ phase = "scan" /\ pc = "done" /\ LinkMode # "detect"
    /\ \A pair \in Clashing : ~(pair \subseteq remote)
    /\ phase' = "check" /\ unchecked' = remote /\ todo' = {}
    /\ UNCHANGED <<discoveryVars, treeVars, active, failed, limit, cleanVars, result>>

-----------------------------------------------------------------------------
(* Metadata checks, by threads or by tasks with a synchronous fallback *)

CheckFile(f) ==
    /\ phase = "check" /\ f \in unchecked
    /\ \E current \in BOOLEAN :
          /\ current => f \in local
          /\ todo' = IF current THEN todo ELSE todo \union {f}
    /\ unchecked' = unchecked \ {f}
    /\ UNCHANGED <<discoveryVars, phase, treeVars, active, failed, limit, cleanVars, result>>

\* check_file's own handler: the file counts as failed and is not fetched.
CheckBroken(f) ==
    /\ phase = "check" /\ f \in unchecked
    /\ failed' = TRUE /\ unchecked' = unchecked \ {f}
    /\ UNCHANGED <<discoveryVars, phase, treeVars, todo, active, limit, cleanVars, result>>

\* A dry run goes on to preview the clean-up; a full disk ends the run.
Checked ==
    /\ phase = "check" /\ unchecked = {}
    /\ \/ phase' = (IF DryRun THEN "clean" ELSE "load") /\ UNCHANGED result
       \/ todo # {} /\ ~DryRun /\ Finish("failed")
    /\ \E n \in 1..MaxParallel : limit' = n
    /\ UNCHANGED <<discoveryVars, treeVars, unchecked, todo, active, failed, cleanVars>>

-----------------------------------------------------------------------------
(* Downloads *)

Submit(f) ==
    /\ phase = "load" /\ f \in todo
    /\ Cardinality(active) < (IF Method = "sequential" THEN 1 ELSE limit)
    /\ todo' = todo \ {f} /\ active' = active \union {f}
    /\ UNCHANGED <<discoveryVars, phase, treeVars, unchecked, failed, limit, cleanVars, result>>

\* Variant: the tuner's answer is taken as it is.
DownloadedUntuned(f) ==
    /\ f \in active
    /\ local' = local \union {f} /\ dirs' = dirs \union Above[Home[f]]
    /\ active' = active \ {f}
    /\ \E n \in 0..MaxParallel : limit' = n
    /\ UNCHANGED <<discoveryVars, phase, archive, removed, unchecked, todo, failed, cleanVars,
                   result>>

Downloaded(f) ==
    /\ f \in active
    /\ local' = local \union {f} /\ dirs' = dirs \union Above[Home[f]]
    /\ active' = active \ {f}
    /\ \E n \in 1..MaxParallel : limit' = n
    /\ UNCHANGED <<discoveryVars, phase, archive, removed, unchecked, todo, failed, cleanVars,
                   result>>

\* Variant: only exceptions of the pool's futures are counted.
DownloadFailedUncounted(f) ==
    /\ f \in active
    /\ active' = active \ {f}
    /\ UNCHANGED <<discoveryVars, phase, treeVars, unchecked, todo, failed, limit, cleanVars, result>>

\* The transfer counts its failure, or the pool counts its exception.
DownloadFailed(f) ==
    /\ f \in active
    /\ active' = active \ {f} /\ failed' = TRUE
    /\ UNCHANGED <<discoveryVars, phase, treeVars, unchecked, todo, limit, cleanVars, result>>

\* An exception of a sequential transfer ends the run.
DownloadFatal(f) ==
    /\ f \in active /\ Method = "sequential"
    /\ active' = {} /\ todo' = {}
    /\ Finish("failed")
    /\ UNCHANGED <<discoveryVars, treeVars, unchecked, failed, limit, cleanVars>>

Loaded ==
    /\ phase = "load" /\ todo = {} /\ active = {}
    /\ phase' = "clean"
    /\ UNCHANGED <<discoveryVars, treeVars, loadVars, cleanVars, result>>

-----------------------------------------------------------------------------
(* clean_obsolete *)

Outcome == IF failed \/ incomplete \/ cleanFailed THEN "failed" ELSE "success"
DryOutcome == IF incomplete \/ cleanFailed THEN "failed" ELSE "success"

\* Variant: a listing that is known to be partial will do.
CleanAllowedAnyScan == Policy \in {"delete", "move"} /\ ~DryRun

CleanAllowed == Policy \in {"delete", "move"} /\ ~DryRun /\ ~incomplete

SkipClean ==
    /\ phase = "clean" /\ ~CleanAllowed
    /\ Finish(IF DryRun THEN DryOutcome ELSE Outcome)
    /\ UNCHANGED <<discoveryVars, treeVars, loadVars, cleanVars>>

\* A local directory cannot be read, or the archive cannot be made.
InspectionFailed ==
    /\ phase = "clean" /\ Policy # "safe" /\ ~incomplete
    /\ cleanFailed' = TRUE
    /\ Finish("failed")
    /\ UNCHANGED <<discoveryVars, treeVars, loadVars, obsolete, keptDirs, declined>>

Decline ==
    /\ phase = "clean" /\ CleanAllowed /\ Policy = "delete"
    /\ \E f \in local \ remote : FileSelected(f)
    /\ declined' = TRUE
    /\ Finish(Outcome)
    /\ UNCHANGED <<discoveryVars, treeVars, loadVars, obsolete, keptDirs, cleanFailed>>

Inspect ==
    /\ phase = "clean" /\ CleanAllowed
    /\ obsolete' = {f \in local \ remote : FileSelected(f)}
    /\ keptDirs' = {} /\ phase' = "prune"
    /\ UNCHANGED <<discoveryVars, treeVars, loadVars, cleanFailed, declined, result>>

\* An archived file keeps its name, or gets a time stamp when the name is
\* taken; when that name is taken too, the file stays. (Two stamps suffice
\* for a run within the clock's resolution of the last one.)
Stamps == {"plain", "t1", "t2"}
FreeStamp(f, stamp) ==
    /\ [file |-> f, stamp |-> stamp] \notin archive
    /\ stamp = "plain" \/ [file |-> f, stamp |-> "plain"] \in archive

RemoveFile(f) ==
    /\ phase = "prune" /\ f \in obsolete
    /\ obsolete' = obsolete \ {f}
    /\ local' = local \ {f} /\ removed' = removed \union {f}
    /\ IF Policy = "delete" THEN UNCHANGED archive
       ELSE \E stamp \in Stamps : /\ FreeStamp(f, stamp)
                                  /\ archive' = archive \union {[file |-> f, stamp |-> stamp]}
    /\ UNCHANGED <<discoveryVars, phase, dirs, loadVars, keptDirs, cleanFailed, declined, result>>

RemoveFails(f) ==
    /\ phase = "prune" /\ f \in obsolete
    /\ obsolete' = obsolete \ {f} /\ cleanFailed' = TRUE
    /\ UNCHANGED <<discoveryVars, phase, treeVars, loadVars, keptDirs, declined, result>>

Empty(d) ==
    /\ d \in dirs
    /\ \A f \in local : d \notin Above[Home[f]]
    /\ \A e \in dirs \ {d} : d \notin Above[e]

Removable == {d \in Dir \ ({Root} \union keptDirs) : Empty(d) /\ DirSelected(d)}

RemoveDir(d) ==
    /\ phase = "prune" /\ obsolete = {} /\ d \in Removable
    /\ \/ dirs' = dirs \ {d} /\ UNCHANGED <<keptDirs, cleanFailed>>
       \/ keptDirs' = keptDirs \union {d} /\ cleanFailed' = TRUE /\ UNCHANGED dirs
    /\ UNCHANGED <<discoveryVars, phase, local, archive, removed, loadVars, obsolete, declined,
                   result>>

CleanEnds ==
    /\ phase = "prune" /\ obsolete = {} /\ Removable = {}
    /\ Finish(Outcome)
    /\ UNCHANGED <<discoveryVars, treeVars, loadVars, cleanVars>>

-----------------------------------------------------------------------------
(* The environment *)

\* The process is killed; a new one starts with empty caches.
Crash ==
    /\ phase \notin {"idle", "end"}
    /\ phase' = "idle" /\ result' = "none"
    /\ pc' = "idle" /\ queue' = <<>> /\ batch' = <<>>
    /\ cache' = [d \in Dir |-> NoPage] /\ fetched' = [d \in Dir |-> NoPage]
    /\ visited' = {} /\ incomplete' = FALSE
    /\ unchecked' = {} /\ todo' = {} /\ active' = {}
    /\ obsolete' = {}
    /\ UNCHANGED <<page, processed, found, protected, seen, flagged, walked, passVars, treeVars,
                   failed, limit, keptDirs, cleanFailed, declined>>

ServerSide == DiscoveryEnvironment /\ UNCHANGED syncVars

Run ==
    \/ Scan \/ ScanFailed \/ Surveyed \/ RefuseClash \/ Scanned \/ Checked \/ Loaded
    \/ SkipClean \/ InspectionFailed \/ Decline \/ Inspect \/ CleanEnds
    \/ \E f \in File : \/ CheckFile(f) \/ CheckBroken(f) \/ Submit(f)
                       \/ Downloaded(f) \/ DownloadFailed(f) \/ DownloadFatal(f)
                       \/ RemoveFile(f) \/ RemoveFails(f)
    \/ \E d \in Dir : RemoveDir(d)

SyncNext == Sync \/ RefuseToStart \/ Run \/ Crash \/ ServerSide

SyncSpec == SyncInit /\ [][SyncNext]_vars

-----------------------------------------------------------------------------
(* Properties *)

\* Every link leads to a deeper directory: then the walk, which counts links,
\* reaches no directory later than its path would have it.
LinksLeadDown ==
    \A d \in Dir : \A listing \in Pages[d] : \A e \in listing \intersect Dir :
        PathDepth(d) < PathDepth(e)

Deepest(S) == CHOOSE d \in S : \A e \in S : PathDepth(e) <= PathDepth(d)
Step(d, e) == CHOOSE c \in Above[e] : PathDepth(c) = PathDepth(d) + 1

\* Every file the clean-up removes was seen to be absent in this run: its
\* directory was listed without it, or the deepest directory found above it
\* was read and did not name the next one. "Protect paths the current scan
\* deliberately did not inspect" (cleanup.py:142-208, 240-253).
RemovedWasAbsent ==
    \A f \in removed :
        LET d == Deepest(Above[Home[f]] \intersect FoundDirs)
        IN  IF d = Home[f] THEN used[d] # NoPage /\ f \notin used[d]
            ELSE walked[d] # NoPage /\ Step(d, Home[f]) \notin walked[d]

\* A file leaves the local tree only in the clean-up of a run with a complete
\* scan; excluded, filtered, too deep and linked subtrees keep theirs, and a
\* dry run, a preview or the safe policy takes nothing (cleanup.py:210-240).
RemovesInCleanup ==
    \A f \in local \ local' :
        /\ phase = "prune" /\ ~incomplete /\ ~DryRun /\ Policy \in {"delete", "move"}
        /\ f \notin remote \union Filtered
        /\ Above[Home[f]] \intersect (protected \union Excluded) = {}
        /\ PathDepth(Home[f]) <= MaxDepth

\* A run that reports success leaves every listed file in the local tree and,
\* unless the user declined, no other file the clean-up is responsible for
\* (report.py:745-870).
SuccessMirrors ==
    result = "success" /\ ~DryRun /\ LinkMode # "detect" =>
        /\ remote \subseteq local
        /\ Policy \in {"delete", "move"} /\ ~declined =>
              \A f \in local : FileSelected(f) => f \in remote

\* Archived files stay archived, and a file that is moved out of the tree is
\* in the archive: the policy "move" loses nothing (cleanup.py:31-58, 344-365).
ArchivesRemoved ==
    /\ archive \subseteq archive'
    /\ \A f \in local \ local' : \E a \in archive' \ archive : a.file = f

\* A directory is removed only when nothing is left below it
\* (cleanup.py:388-440).
NoTreeIsCutOff == \A f \in local : Above[Home[f]] \subseteq dirs

\* A dry run, or a survey of links, changes nothing in the tree or the archive
\* (report.py:196-226, 240-310).
ChangesNothing == UNCHANGED <<local, dirs, archive>>

\* A run that began ends, unless the process dies (report.py:46-884).
SyncEnds == phase = "scan" ~> phase \in {"end", "idle"}
=============================================================================
