------------------------------ MODULE Discovery ------------------------------
(***************************************************************************)
(* _core/scan.py and scanner.py: one run of get_remote_files. A breadth-   *)
(* first walk finds the directories; with --scan-mode parallel a batch of  *)
(* pages is fetched by threads beside the walk. Then every directory is    *)
(* read again for its files. Pages come from the parse cache or from the   *)
(* server, which may change them at any time, and any read may fail.       *)
(*                                                                         *)
(* A page is the set of directories and (selected) files it links to; two  *)
(* pages look alike when their entries have the same names. Paths are      *)
(* abstract: Above[d] is the set of directories on the path to d.          *)
(***************************************************************************)
EXTENDS Naturals, Sequences, FiniteSets

CONSTANTS
    Dir, File, Root,
    Above,          \* Above[d]: d and its ancestors by path
    Home,           \* Home[f]: the directory of a file
    Name,           \* Name[x]: the last path component of a directory or file
    DirOrder,       \* DirOrder[S]: the directories S in the order pages list them
    Pages,          \* Pages[d]: what the page of d may say
    Excluded,       \* directories named by --exclude-dir
    MaxDepth,       \* config.max_depth
    Workers,        \* fetching threads (1: sequential)
    LinkMode,       \* "off", "detect", "skip" or "follow"
    MaxLinks,       \* links a tracker follows (symlink_bomb_threshold)
    Caching,        \* config.cache_html
    NoPage, Queued, Unread

\* The directories on a path form a finite chain that begins at the root.
PathAssumption ==
    /\ Root \in Dir
    /\ Above \in [Dir -> SUBSET Dir]
    /\ \A d \in Dir : IsFiniteSet(Above[d]) /\ {Root, d} \subseteq Above[d]
    /\ \A d \in Dir : \A e \in Above[d] : Above[e] \subseteq Above[d]
    /\ \A d \in Dir : \A e, g \in Above[d] : e \in Above[g] \/ g \in Above[e]
    /\ \A d, e \in Dir : d \in Above[e] /\ e \in Above[d] => d = e

\* Assumed of the constants wherever the module is instantiated.
DiscoveryAssumption ==
    /\ PathAssumption
    /\ Home \in [File -> Dir]
    /\ \A S \in SUBSET Dir :
          DirOrder[S] \in Seq(S) /\ \A d \in S : \E i \in 1..Len(DirOrder[S]) : DirOrder[S][i] = d
    /\ Pages \in [Dir -> SUBSET SUBSET (Dir \union File)]
    /\ \A d \in Dir : Pages[d] \intersect {NoPage, Queued, Unread} = {}
    /\ NoPage # Queued /\ NoPage # Unread /\ Queued # Unread
    /\ Excluded \subseteq Dir
    /\ MaxDepth \in Nat /\ Workers \in Nat \ {0} /\ MaxLinks \in Nat
    /\ LinkMode \in {"off", "detect", "skip", "follow"} /\ Caching \in BOOLEAN

VARIABLES
    page,           \* page[d]: what the server says now
    cache,          \* cache[d]: the cached listing, or NoPage
    pc,             \* "idle", "walk", "collect", "done" or "aborted"
    queue,          \* directories to visit: records [dir, depth]
    batch,          \* taken from the queue, their pages being fetched
    fetched,        \* fetched[d]: NoPage, Queued, Unread, or a listing
    processed, found, protected,
    seen,           \* dir_signatures: pairs of a signature and its first directory
    flagged,        \* flagged_symlink_prefixes
    visited,        \* the SymlinkTracker's visited_symlinks (kept between runs)
    next,           \* index of the second pass in found
    used,           \* used[d]: the listing the second pass saw, or NoPage
    walked,         \* walked[d]: the listing the walk saw, or NoPage
    remote,         \* the files collected
    incomplete      \* scan_incomplete

walkVars == <<queue, batch, processed, found, protected, seen, flagged, visited, walked>>
passVars == <<next, used, remote>>
discoveryVars == <<page, cache, pc, fetched, walkVars, passVars, incomplete>>

PathDepth(d) == Cardinality(Above[d]) - 1
IsExcluded(d) == Above[d] \intersect Excluded # {}
Listings == UNION {Pages[d] : d \in Dir}
Ordered(S) == DirOrder[S]
Signature(listing) == {Name[x] : x \in listing}

\* What a read of d may return: the cached listing or the page.
Readable(d) == {page[d]} \union (IF Caching /\ cache[d] # NoPage THEN {cache[d]} ELSE {})

Remember(d, listing) ==
    cache' = IF Caching /\ listing # Unread THEN [cache EXCEPT ![d] = listing] ELSE cache

DiscoveryInit ==
    /\ page \in [Dir -> Listings] /\ \A d \in Dir : page[d] \in Pages[d]
    /\ cache = [d \in Dir |-> NoPage]
    /\ pc = "idle"
    /\ queue = <<>> /\ batch = <<>>
    /\ fetched = [d \in Dir |-> NoPage]
    /\ processed = {} /\ found = <<>> /\ protected = {}
    /\ seen = {} /\ flagged = {} /\ visited = {}
    /\ next = 1
    /\ used = [d \in Dir |-> NoPage] /\ walked = [d \in Dir |-> NoPage]
    /\ remote = {} /\ incomplete = FALSE

-----------------------------------------------------------------------------
(* The walk *)

\* get_remote_files forgets the last run, except the caches and the tracker.
\* An excluded root is protected as a whole and nothing is walked.
Begin ==
    /\ pc \in {"idle", "done", "aborted"}
    /\ pc' = "walk"
    /\ queue' = IF IsExcluded(Root) THEN <<>> ELSE <<[dir |-> Root, depth |-> 0]>>
    /\ protected' = IF IsExcluded(Root) THEN {Root} ELSE {}
    /\ batch' = <<>> /\ fetched' = [d \in Dir |-> NoPage]
    /\ processed' = {} /\ found' = <<>> /\ seen' = {} /\ flagged' = {}
    /\ walked' = [d \in Dir |-> NoPage] /\ used' = [d \in Dir |-> NoPage]
    /\ remote' = {} /\ next' = 1 /\ incomplete' = FALSE
    /\ UNCHANGED <<page, cache, visited>>

\* _directory_work: up to one directory per worker, fetched ahead when it is
\* shallow enough to be read at all and not known or scheduled yet.
FillBatch ==
    /\ pc = "walk" /\ batch = <<>> /\ queue # <<>>
    /\ LET n == IF Len(queue) < Workers THEN Len(queue) ELSE Workers
           taken == SubSeq(queue, 1, n)
       IN  /\ batch' = taken
           /\ queue' = SubSeq(queue, n + 1, Len(queue))
           /\ fetched' = [d \in Dir |->
                 IF /\ d \notin processed
                    /\ \E i \in 1..n : taken[i].dir = d /\ taken[i].depth < MaxDepth
                 THEN Queued ELSE NoPage]
    /\ UNCHANGED <<page, cache, pc, processed, found, protected, seen, flagged, visited, walked,
                   passVars, incomplete>>

\* _scan_discovery_directory, in a thread of the pool (in the walk itself
\* when there is only one worker): a listing, or a failure.
Fetch(d) ==
    /\ fetched[d] = Queued
    /\ \E listing \in Readable(d) \union {Unread} :
          fetched' = [fetched EXCEPT ![d] = listing] /\ Remember(d, listing)
    /\ UNCHANGED <<page, pc, walkVars, passVars, incomplete>>

Drop ==
    /\ pc = "walk" /\ batch # <<>>
    /\ Head(batch).dir \in processed \/ Head(batch).depth > MaxDepth
    /\ batch' = Tail(batch)
    /\ UNCHANGED <<page, cache, pc, fetched, queue, processed, found, protected, seen, flagged,
                   visited, walked, passVars, incomplete>>

\* A directory at the depth limit is found without being read.
VisitLeaf ==
    /\ pc = "walk" /\ batch # <<>>
    /\ LET d == Head(batch).dir
       IN  /\ d \notin processed /\ Head(batch).depth = MaxDepth
           /\ processed' = processed \union {d}
           /\ found' = Append(found, d)
    /\ batch' = Tail(batch)
    /\ UNCHANGED <<page, cache, pc, fetched, queue, protected, seen, flagged, visited, walked,
                   passVars, incomplete>>

LooksLinked(d, listing) ==
    /\ LinkMode # "off" /\ Above[d] \intersect flagged = {} /\ listing # {}
    /\ \E pair \in seen : pair[1] = Signature(listing)

\* SymlinkTracker.can_follow: not a link it has followed, nor too many. (Its
\* limits per directory and on the depth are of the same kind.)
CanFollow(d) == d \notin visited /\ Cardinality(visited) < MaxLinks

Entered(d, link) ==
    \/ ~link
    \/ LinkMode = "detect"
    \/ LinkMode = "follow" /\ CanFollow(d)

Leave(d) ==
    /\ protected' = protected \union {d}
    /\ UNCHANGED <<queue, found, visited>>

\* Variant: subdirectories are visited before the rest of the queue.
EnterDepthFirst(d, depth, listing, link) ==
    /\ visited' = visited
    /\ LET children == Ordered({e \in listing \intersect Dir :
                                   e \notin processed' /\ ~IsExcluded(e)})
       IN  queue' = [i \in 1..Len(children) |-> [dir |-> children[i], depth |-> depth + 1]] \o queue
    /\ found' = Append(found, d)
    /\ UNCHANGED protected

Enter(d, depth, listing, link) ==
    /\ visited' = IF link /\ LinkMode = "follow" THEN visited \union {d} ELSE visited
    /\ LET children == Ordered({e \in listing \intersect Dir :
                                   e \notin processed' /\ ~IsExcluded(e)})
       IN  queue' = queue \o [i \in 1..Len(children) |->
                                 [dir |-> children[i], depth |-> depth + 1]]
    /\ found' = Append(found, d)
    /\ UNCHANGED protected

\* Variant: a page that could not be read is an empty one.
VisitSwallowing ==
    /\ pc = "walk" /\ batch # <<>>
    /\ LET d == Head(batch).dir
           listing == IF fetched[d] = Unread THEN {} ELSE fetched[d]
       IN  /\ d \notin processed /\ Head(batch).depth < MaxDepth
           /\ fetched[d] \notin {NoPage, Queued}
           /\ processed' = processed \union {d}
           /\ walked' = [walked EXCEPT ![d] = listing]
           /\ UNCHANGED <<incomplete, flagged, seen>>
           /\ Enter(d, Head(batch).depth, listing, FALSE)
    /\ batch' = Tail(batch)
    /\ UNCHANGED <<page, cache, pc, fetched, passVars>>

\* A failed page makes the run incomplete and counts as empty from there on.
Visit ==
    /\ pc = "walk" /\ batch # <<>>
    /\ LET d == Head(batch).dir
           listing == IF fetched[d] = Unread THEN {} ELSE fetched[d]
           link == LooksLinked(d, listing)
       IN  /\ d \notin processed /\ Head(batch).depth < MaxDepth
           /\ fetched[d] \notin {NoPage, Queued}
           /\ processed' = processed \union {d}
           /\ walked' = [walked EXCEPT ![d] = IF fetched[d] = Unread THEN NoPage ELSE listing]
           /\ incomplete' = (incomplete \/ fetched[d] = Unread)
           /\ flagged' = IF link THEN flagged \union {d} ELSE flagged
           /\ seen' = IF LinkMode = "off" \/ link \/ listing = {} \/ Above[d] \intersect flagged # {}
                      THEN seen ELSE seen \union {<<Signature(listing), d>>}
           /\ IF Entered(d, link) THEN Enter(d, Head(batch).depth, listing, link)
                                  ELSE Leave(d)
    /\ batch' = Tail(batch)
    /\ UNCHANGED <<page, cache, pc, fetched, passVars>>

\* --symlink-mode detect ends here: it only surveys.
WalkEnds ==
    /\ pc = "walk" /\ batch = <<>> /\ queue = <<>>
    /\ pc' = IF found = <<>> \/ LinkMode = "detect" THEN "done" ELSE "collect"
    /\ UNCHANGED <<page, cache, fetched, walkVars, passVars, incomplete>>

-----------------------------------------------------------------------------
(* The second pass of get_remote_files *)

Collect ==
    /\ pc = "collect" /\ next <= Len(found)
    /\ LET d == found[next]
       IN  \E listing \in Readable(d) \union {Unread} :
             /\ used' = [used EXCEPT ![d] = IF listing = Unread THEN NoPage ELSE listing]
             /\ remote' = remote \union (IF listing = Unread THEN {} ELSE listing \intersect File)
             /\ incomplete' = (incomplete \/ listing = Unread)
             /\ Remember(d, listing)
    /\ next' = next + 1
    /\ UNCHANGED <<page, pc, fetched, walkVars>>

CollectEnds ==
    /\ pc = "collect" /\ next > Len(found)
    /\ pc' = "done"
    /\ UNCHANGED <<page, cache, fetched, walkVars, passVars, incomplete>>

\* Any other exception: no list at all. The walk's generator is closed, which
\* waits for the threads and drops their results.
Abort ==
    /\ pc \in {"walk", "collect"}
    /\ pc' = "aborted" /\ incomplete' = TRUE
    /\ queue' = <<>> /\ batch' = <<>> /\ fetched' = [d \in Dir |-> NoPage]
    /\ UNCHANGED <<page, cache, processed, found, protected, seen, flagged, visited, walked,
                   passVars>>

-----------------------------------------------------------------------------
(* The environment: pages change, cached listings expire or are shed *)

PageChange(d, listing) ==
    /\ page[d] # listing
    /\ page' = [page EXCEPT ![d] = listing]
    /\ UNCHANGED <<cache, pc, fetched, walkVars, passVars, incomplete>>

Expire(d) ==
    /\ cache[d] # NoPage
    /\ cache' = [cache EXCEPT ![d] = NoPage]
    /\ UNCHANGED <<page, pc, fetched, walkVars, passVars, incomplete>>

Walker ==
    \/ FillBatch \/ Drop \/ VisitLeaf \/ Visit \/ WalkEnds \/ Collect \/ CollectEnds
    \/ \E d \in Dir : Fetch(d)

DiscoveryEnvironment ==
    \E d \in Dir : Expire(d) \/ \E listing \in Pages[d] : PageChange(d, listing)

Next == Begin \/ Walker \/ Abort \/ DiscoveryEnvironment

Spec == DiscoveryInit /\ [][Next]_discoveryVars

\* Requests time out and threads run.
FairSpec == Spec /\ WF_discoveryVars(Walker)

-----------------------------------------------------------------------------
(* Directory selection (--dir-regex): the matching directories that have no *)
(* matching directory above them.                                           *)

FoundDirs == {found[i] : i \in 1..Len(found)}
Matched(matching) == {d \in (FoundDirs \intersect matching) \ {Root} : PathDepth(d) <= MaxDepth}

SelectedRoots(matching) ==
    {d \in Matched(matching) : \A e \in Above[d] \ {d} : e \notin Matched(matching)}

-----------------------------------------------------------------------------
(* Properties *)

\* Whatever order the threads of a parallel scan finish in, the walk is the
\* breadth-first walk of the sequential one (scan.py:40-63).
Walk == INSTANCE BreadthFirstWalk WITH queue <- batch \o queue, InPageOrder <- Ordered

\* A complete run has read, twice, every page it may claim to know: a
\* directory is found only once, and its files are those of a page that was
\* read; nothing below a directory it did not enter is claimed
\* (scan.py:270-330, 812-850).
CompleteMeansRead ==
    pc = "done" /\ ~incomplete /\ LinkMode # "detect" =>
        /\ Cardinality(FoundDirs) = Len(found)
        /\ \A d \in FoundDirs : used[d] # NoPage
        /\ \A f \in remote : \E d \in FoundDirs : f \in used[d]
        /\ \A d \in FoundDirs : walked[d] # NoPage =>
              /\ walked[d] \in Pages[d]
              /\ \A e \in walked[d] \intersect Dir :
                    e \in FoundDirs \union protected \/ IsExcluded(e)

\* Roots selected by a pattern do not overlap, and every found directory that
\* matches lies under exactly one of them (directory_selection.py:86-101).
SelectionIsDisjointCover ==
    \A matching \in SUBSET Dir : \A d \in Matched(matching) :
        Cardinality(SelectedRoots(matching) \intersect Above[d]) = 1

\* A directory set aside as a link is not the only copy: a directory that was
\* entered in the same run looked the same (scan.py:665-690).
LinkHasItsTarget ==
    \A d \in protected : walked[d] # NoPage =>
        \E e \in FoundDirs : walked[e] # NoPage /\ Signature(walked[e]) = Signature(walked[d])

\* Cyclic links or not, discovery ends.
DiscoveryEnds == pc \in {"walk", "collect"} ~> pc \in {"done", "aborted"}
=============================================================================
