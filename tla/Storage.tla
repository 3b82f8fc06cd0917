------------------------------ MODULE Storage ------------------------------
(***************************************************************************)
(* What a mirror keeps on disk beside the files themselves: scratch        *)
(* workspaces, the receipts of files it downloaded (trusted by time stamps *)
(* or verified by content), and the registry of capacity claims. The three *)
(* share no state: each behaviour follows one of them while the others     *)
(* rest.                                                                   *)
(***************************************************************************)
EXTENDS Integers, Sequences, FiniteSets

CONSTANTS
    \* scratch workspaces: see ScratchLease
    Owner, Work, Crashes, Faults, Strays,
    \* receipts: see FreshnessReceipts; Sized[w] and Written[w] are those of way w
    Remote, Foreign, NoContent, Sized, Written, Changes, Runs,
    \* capacity: see CapacityRegistry
    Job, Capacity, Headroom, Window, Hint, Sizes, MaxForeign, NoRegistry, NoSample

VARIABLES
    part,
    root, dir, manifest, bytes, lease, stray, pc, at, todo, saw, active, closing, drawn,
    held, spoiled, torn, refused, crashes, faults,
    remote, changes, local, last, lru, dict, file, saved, run, runs, checker, seen, cached,
    stored, verified, judged, verdict, loader, got, noting, loaded,
    registry, jobLease, jobPc, sample, funded, remaining, pending, reserved, written, kept,
    foreign, members, honest

scratchVars == <<root, dir, manifest, bytes, lease, stray, pc, at, todo, saw, active, closing,
                 drawn, held, spoiled, torn, refused, crashes, faults>>
receiptVars == <<remote, changes, local, last, lru, dict, file, saved, run, runs, checker, seen,
                 cached, stored, verified, judged, verdict, loader, got, noting, loaded>>
budgetVars == <<registry, jobLease, jobPc, sample, funded, remaining, pending, reserved,
                written, kept, foreign, members, honest>>
vars == <<part, scratchVars, receiptVars, budgetVars>>

Scratch == INSTANCE ScratchLease

\* Receipts by stamps, with checks that end after their deadline, and by hashes.
\* What another program writes before the stamp of a download is noted can only
\* be told by its content or its size.
Ways == {"stamped", "late", "hashed"}
Told(way) ==
    way = "hashed" \/ \A c, d \in Remote \union Foreign : Sized[way][c] = Sized[way][d] => c = d
Receipts(way) == INSTANCE FreshnessReceipts WITH
    SizeOf <- Sized[way], Writes <- Written[way],
    VerifyContent <- (way = "hashed"), LateChecks <- (way = "late"),
    Meddling <- {"between", "checking"} \union (IF Told(way) THEN {"noting"} ELSE {})

Budgets == INSTANCE CapacityRegistry WITH lease <- jobLease, pc <- jobPc

ASSUME PartsAssumption ==
    /\ Scratch!ScratchAssumption /\ Budgets!CapacityAssumption
    /\ \A way \in Ways : Receipts(way)!ReceiptAssumption

Init ==
    /\ part \in Ways \union {"scratch", "capacity"}
    /\ Scratch!Init /\ Budgets!Init
    /\ \E way \in Ways : way = (IF part \in Ways THEN part ELSE "stamped") /\ Receipts(way)!Init
    /\ part \notin Ways => remote = CHOOSE content \in Remote : TRUE

ScratchMoves == part = "scratch" /\ Scratch!Next /\ UNCHANGED <<part, receiptVars, budgetVars>>
ReceiptsMove ==
    /\ \E way \in Ways : part = way /\ Receipts(way)!Next
    /\ UNCHANGED <<part, scratchVars, budgetVars>>
CapacityMoves == part = "capacity" /\ Budgets!Next /\ UNCHANGED <<part, scratchVars, receiptVars>>

Next == ScratchMoves \/ ReceiptsMove \/ CapacityMoves

Spec == Init /\ [][Next]_vars

-----------------------------------------------------------------------------
(* What the three promise *)

\* Every variable of the part that moves has its type.
TypeOK ==
    /\ part = "scratch" => Scratch!TypeOK
    /\ \A way \in Ways : part = way => Receipts(way)!TypeOK
    /\ part = "capacity" => Budgets!TypeOK

\* What a transfer works in stays there whatever other owners recover
\* meanwhile (scratch.py:26, 84), bytes always lie beside a manifest by which
\* a later owner knows them (scratch.py:25, 161), an owner that is in has
\* reclaimed the recorded work that nobody holds and nothing spoiled
\* (docs/USER_GUIDE.md:975, scratch.py:181-216), and a root that stays keeps
\* its marker (scratch.py:219-236).
WorkHasItsOwner ==
    part = "scratch" =>
        /\ Scratch!LiveWorkKept /\ Scratch!BytesHaveManifest
        /\ Scratch!AbandonedWorkReclaimed /\ Scratch!RootKeepsMarker

\* A file that an ETag or a 304 calls current has the content the server has
\* at that moment, by stamps, with checks that end after their deadline, and
\* by hashes (_core/compare.py:54); no expired receipt decides, whatever
\* --quick did to the age of the cache (cache.py:384-395).
TrustedIsTrue ==
    \A way \in Ways : part = way =>
        Receipts(way)!TrustedIsTrue /\ Receipts(way)!ExpiredDecidesNothing

\* A job's claim is in the registry as the job believes it to be, everything
\* an epoch wrote is charged in it, and claims and charges fit the sample it
\* began with, whoever crashes between two sections (capacity.py:79-150); if
\* that sample was right, cooperating jobs fit the disk.
WrittenIsCharged ==
    part = "capacity" =>
        /\ Budgets!LiveClaimKept /\ Budgets!WrittenIsCharged
        /\ Budgets!EpochWithinSample /\ Budgets!HonestEpochFits
=============================================================================
