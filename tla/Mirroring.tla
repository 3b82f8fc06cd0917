------------------------------- MODULE Mirroring -------------------------------
(***************************************************************************)
(* What a run of the mirror decides: sync() with its scan, comparison,     *)
(* downloads and clean-up; the walk alone, with more workers and links     *)
(* than a whole run can be followed with; and the asynchronous checks of   *)
(* one run. Each behaviour follows one of these parts, under one choice of *)
(* options and of a server's pages, while the others rest; what holds of   *)
(* all behaviours holds for every such choice.                             *)
(***************************************************************************)
EXTENDS Integers, Sequences, FiniteSets

CONSTANTS
    Syncs, Walks, Checks,   \* names of the runs, walks and checks that are followed
    Setting,        \* Setting[w]: the constants of MirrorSync for a run or walk, a record
    HeadSetting,    \* HeadSetting[c]: those of AsyncHeads for checks
    NoPage, Queued, Unread

VARIABLES
    part,
    page, cache, pc, queue, batch, fetched, processed, found, protected, seen, flagged,
    visited, next, used, walked, remote, incomplete,
    phase, local, dirs, archive, unchecked, todo, active, failed, limit, obsolete, keptDirs,
    cleanFailed, declined, result, removed,
    headPc, first, stage, attempt, queued, checks, vouched, late, conc, pending, cooled, fellAt,
    headLimit, breaker, outages

walkVars == <<page, cache, pc, queue, batch, fetched, processed, found, protected, seen,
              flagged, visited, next, used, walked, remote, incomplete>>
runVars == <<phase, local, dirs, archive, unchecked, todo, active, failed, limit, obsolete,
             keptDirs, cleanFailed, declined, result, removed>>
headVars == <<headPc, first, stage, attempt, queued, checks, vouched, late, conc, pending,
              cooled, fellAt, headLimit, breaker, outages>>
vars == <<part, walkVars, runVars, headVars>>

Mirrors == Syncs \union Walks

Mirror(w) == INSTANCE MirrorSync WITH
    Dir <- Setting[w].Dir, File <- Setting[w].File, Root <- Setting[w].Root,
    Above <- Setting[w].Above, Home <- Setting[w].Home, Name <- Setting[w].Name,
    DirOrder <- Setting[w].DirOrder, Pages <- Setting[w].Pages,
    Excluded <- Setting[w].Excluded, MaxDepth <- Setting[w].MaxDepth,
    Workers <- Setting[w].Workers, LinkMode <- Setting[w].LinkMode,
    MaxLinks <- Setting[w].MaxLinks, Caching <- Setting[w].Caching,
    Filtered <- Setting[w].Filtered, Clashing <- Setting[w].Clashing,
    Policy <- Setting[w].Policy, DryRun <- Setting[w].DryRun, Method <- Setting[w].Method,
    MaxParallel <- Setting[w].MaxParallel

Heads(c) == INSTANCE AsyncHeads WITH
    Files <- HeadSetting[c].Files, BatchSize <- HeadSetting[c].BatchSize,
    Absent <- HeadSetting[c].Absent, Unasked <- HeadSetting[c].Unasked,
    Adaptive <- HeadSetting[c].Adaptive, Deadlines <- HeadSetting[c].Deadlines,
    Retries <- HeadSetting[c].Retries, StartAt <- HeadSetting[c].StartAt,
    MaxAt <- HeadSetting[c].MaxAt, Threads <- HeadSetting[c].Threads,
    Outages <- HeadSetting[c].Outages, FailureThreshold <- HeadSetting[c].FailureThreshold,
    HalfOpenLimit <- HeadSetting[c].HalfOpenLimit, pc <- headPc, limit <- headLimit

ASSUME PartsAssumption ==
    /\ Mirrors # {} /\ Checks # {} /\ Syncs \intersect Walks = {}
    /\ \A w \in Mirrors : Mirror(w)!DiscoveryAssumption /\ Mirror(w)!SyncAssumption
    /\ \A c \in Checks : Heads(c)!HeadsAssumption /\ Heads(c)!BreakerAssumption

\* The parts that rest do so in one of their initial states.
Init ==
    /\ part \in Mirrors \union Checks
    /\ \E w \in Mirrors :
          /\ w = (IF part \in Mirrors THEN part ELSE CHOOSE m \in Mirrors : TRUE)
          /\ Mirror(w)!SyncInit
          /\ part \notin Mirrors =>
                \A d \in Setting[w].Dir : page[d] = CHOOSE listing \in Setting[w].Pages[d] : TRUE
    /\ part \notin Syncs => local = {}
    /\ \E c \in Checks :
          c = (IF part \in Checks THEN part ELSE CHOOSE h \in Checks : TRUE) /\ Heads(c)!Init
    /\ part \notin Checks => conc = 1 /\ cooled

RunMoves ==
    /\ \E w \in Syncs : part = w /\ Mirror(w)!SyncNext
    /\ UNCHANGED <<part, headVars>>

WalkMoves ==
    /\ \E w \in Walks : part = w /\ Mirror(w)!Next
    /\ UNCHANGED <<part, runVars, headVars>>

HeadsMove ==
    /\ \E c \in Checks : part = c /\ Heads(c)!Next
    /\ UNCHANGED <<part, walkVars, runVars>>

Next == RunMoves \/ WalkMoves \/ HeadsMove

Spec == Init /\ [][Next]_vars

\* The fairness of each part, for the part that moves.
RunStep(w, A) == part = w /\ A /\ UNCHANGED <<part, headVars>>
WalkStep(w, A) == part = w /\ A /\ UNCHANGED <<part, runVars, headVars>>
HeadStep(c, A) == part = c /\ A /\ UNCHANGED <<part, walkVars, runVars>>

FairSpec ==
    /\ Spec
    /\ \A w \in Syncs : WF_vars(RunStep(w, Mirror(w)!Run))
    /\ \A w \in Walks : WF_vars(WalkStep(w, Mirror(w)!Walker))
    /\ \A c \in Checks :
          /\ \A f \in 1..HeadSetting[c].Files :
                /\ WF_vars(HeadStep(c, Heads(c)!Progress(f)))
                /\ SF_vars(HeadStep(c, Heads(c)!Admit(f)))
          /\ WF_vars(HeadStep(c, Heads(c)!Enter)) /\ WF_vars(HeadStep(c, Heads(c)!ProfileServer))
          /\ WF_vars(HeadStep(c, Heads(c)!BatchEnds)) /\ WF_vars(HeadStep(c, Heads(c)!SyncEnds))

-----------------------------------------------------------------------------
(* What a run promises *)

\* A scan that calls itself complete has read every page it goes by, each
\* directory once (scan.py:270-330, 812-850); a directory set aside as a link
\* had its target entered (scan.py:665-690); roots selected by a pattern cover
\* what matches and do not overlap (directory_selection.py:86-101).
CompleteMeansRead ==
    \A w \in Mirrors : part = w =>
        /\ Mirror(w)!CompleteMeansRead /\ Mirror(w)!LinkHasItsTarget
        /\ w \in Walks => Mirror(w)!SelectionIsDisjointCover

\* A file is removed or archived only if this run saw it absent: the page of
\* the deepest directory found above it was read and did not name it, or the
\* next directory on its path (cleanup.py:142-208, 240-253). With a link that
\* leads sideways or up this is not so.
RemovedWasAbsent ==
    \A w \in Syncs : part = w /\ Mirror(w)!LinksLeadDown => Mirror(w)!RemovedWasAbsent

\* A run that reports success leaves every listed file in the tree and no
\* other it is responsible for (report.py:745-870); directories are removed
\* only when nothing is left below them (cleanup.py:388-440).
SuccessMirrors ==
    \A w \in Syncs : part = w => Mirror(w)!SuccessMirrors /\ Mirror(w)!NoTreeIsCutOff

\* The checks decide about every file once, in every mixture of answers,
\* failures, deadlines and switches to synchronous checks (compare.py:546-683),
\* and keep to the concurrency in force (async_primitives.py:40-64).
EveryFileDecidedOnce ==
    \A c \in Checks : part = c => Heads(c)!EveryFileDecidedOnce /\ Heads(c)!HeadsWithinConcurrency

\* A file leaves the tree only in the clean-up of a complete run, never a
\* protected, excluded, filtered or too deep one (cleanup.py:210-240); moved
\* files are in the archive and stay there (cleanup.py:31-58, 344-365); a dry
\* run and a survey change nothing (report.py:196-226, 240-310).
TreeKept ==
    [][\A w \in Syncs : part = w =>
         /\ Mirror(w)!RemovesInCleanup
         /\ Setting[w].Policy = "move" => Mirror(w)!ArchivesRemoved
         /\ Setting[w].DryRun \/ Setting[w].LinkMode = "detect" => Mirror(w)!ChangesNothing]_vars

\* Whatever order the threads of a parallel scan finish in, its walk is the
\* breadth-first walk of the sequential one, step by step (scan.py:40-63).
WalksBreadthFirst ==
    [][\A w \in Walks : part = w => Mirror(w)!Walk!Next \/ UNCHANGED Mirror(w)!Walk!vars]_vars

\* A run that began ends unless its process dies (report.py:46-884), cyclic
\* links do not keep the walk going (scan.py:812-850), and the checks wait for
\* nothing for ever (compare.py:630-683).
MirroringEnds ==
    /\ \A w \in Syncs : part = w => Mirror(w)!SyncEnds
    /\ \A w \in Walks : part = w => Mirror(w)!DiscoveryEnds
    /\ \A c \in Checks : part = c => Heads(c)!ChecksEnd
=============================================================================
