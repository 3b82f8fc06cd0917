# Verification of mirror-url

TLA+ models of the parts of `mirror-url` whose correctness depends on the order
in which threads, processes, servers and crashes act, TLC runs that check them
on small instances, and theorems that TLAPS proves for every instance. Paths
below are relative to `src/src/mirror_url/` unless they start with `src/`.

## 1. The system

`mirror-url` downloads directory trees from HTTP servers. A CLI process runs
one job per suffix; each job is a `MirrorURL` object whose `sync()` scans the
remote listing, compares it with the local tree, downloads, and cleans up.
A second engine (`transfers.py`) downloads lists of known URLs with asyncio.
Several processes may run for the same user at the same time.

| Component | State | Operations | Hard behaviour | What makes it correct |
|---|---|---|---|---|
| `destination_lock.py` | lock files held (shared / exclusive), `_active`, `_closing`, mutex, parent guard | `add_paths`, `operation`, `_leave`, `close` | threads of one process, competing processes, bounded close, roll-back, killed processes | trees of two runs never overlap; a writer keeps its tree; lock files are freed in the end |
| `scratch.py` | leased workspaces with manifests | `create`, `release`, `recover`, `cleanup_empty_state` | idle check against new operations; crash leaves workspaces | never removes what is in use or not its own |
| `_core/downloads.py`, `download_integrity.py` | partial file, resume record, destination | `_download_file_single`, `download_file_with_resume` | crash at any step, servers that change, ranges, retries | one whole representation is published atomically; resumable means prefix |
| `download.py` (`PartialDownloadManager`) | `active_partials` | register, complete, stale clean-up | clean-up against running transfers | never removes a partial in use |
| `download.py` (`ParallelDownloadManager`) | chunk states, work files, pool, per-host semaphores | plan, fetch, retry, assemble, cancel | late workers, cancelled and failing chunks | all chunks of one representation or nothing |
| `capacity.py` | registry file shared by processes, leases, budget counters | `reserve`, `ensure`, `release`, `close` | stale samples, crashed jobs, epochs | no space promised twice |
| `circuit_breaker.py` | state, failure counts, half-open permits | `can_execute`, `record_*` | results of old requests arrive late | open circuits close again; a window keeps its limit |
| `rate_limiter.py` | tokens, per-host active chunks | `throttle`, `wait`, register / complete | threads sleeping outside the lock | rate bound; counts return to zero |
| `queue.py`, `concurrency.py` | queued, active, done; shared pool futures | add, get, complete; submit, callback, shutdown | callbacks against shutdown | every item finishes once |
| `async_primitives.py`, `tuner.py` | permits, limit | acquire, release, resize | resize below the active count, cancelled waiters | limit is respected, waiters wake |
| `transfers.py` | tasks, admission, results | run, transfer, publish, cancel | cancellation, partial failure | every URL has one result |
| `_core/scan.py`, `scanner.py` | frontier, visited, worker futures | breadth-first discovery | partial failure must stop deletion | no deletion after an incomplete scan |
| `_core/compare.py`, `_core/cleanup.py`, `_core/report.py` | file lists, phase | compare, clean-up, sync | failure between phases | only obsolete files are removed |
| `storage.py`, `cache.py` | cached stats, spilled sets, cache files | get, invalidate, spill, save | stat outside the lock | no stale entry after invalidation |
| `domain_health.py`, `head_recovery.py` | per-domain failures and back-off | record, allow | concurrent results | recovers after success |
| `_core/_base.py` | managers, signal handlers | construct, `cleanup`, signal | signal during a lock section | clean-up once |
| `connection.py`, `async_connection.py`, `transport.py` | pools, clients | request, retry, close | close against requests | no request on a closed client |
| the rest (`cli`, `config`, `parsing`, `planning`, `security`, `metrics`, `progress`, `monitoring`, `run_report`, `health`, `utils`, models and constants) | options, counters, text | | mostly sequential | |

How they interact: a job's `MirrorURL` owns a `DestinationLock` whose parent is
the run's; every public operation (`destination_operation`) takes a lease of
both. Downloads reserve space from the job's `CapacityBudget`, which shares the
registry file with other processes, write through the state directory
`.mirror-url-state` (partials, staging), and publish with `os.replace`. `close`
runs `_cleanup_resources` under a lease: it stops the pools, removes stale
partials and finally, when the mirror deletes, the empty state directory.

## 2. Modules

| Module | Models | Kind |
|---|---|---|
| `TreeOwnership` | what the destination locks promise | abstract |
| `DestinationLock` | `destination_lock.py` with `scratch.py: cleanup_empty_state` | detailed, implements `TreeOwnership` |
| `AtomicPublication` | what putting a file at its destination promises | abstract |
| `WholeFileTransfer` | `_download_file_single`, `download_integrity.py`, stale partial clean-up | detailed, implements `AtomicPublication` |
| `ChunkedDownload` | `download.py: ParallelDownloadManager` with its caller in `_core/downloads.py` | detailed, implements `AtomicPublication` |
| `UrlListDownload` | `transfers.py`: a job over a list of URLs | detailed |
| `ScratchLease` | `scratch.py: OwnedScratch` | detailed |
| `FreshnessReceipts` | `cache.py`, `primitives.py: LRUCache`, the freshness decision of `_core/compare.py` | detailed |
| `CapacityRegistry` | `capacity.py` | detailed |
| `BreadthFirstWalk` | what directory discovery promises | abstract |
| `Discovery` | `_core/scan.py`, `scanner.py`, `directory_selection.py`, `SymlinkTracker` | detailed, implements `BreadthFirstWalk` |
| `MirrorSync` | `sync()` of `_core/report.py` with the comparison and the clean-up; extends `Discovery` | composition |
| `AsyncHeads` | `_check_files_async`, `async_connection.py`, `async_primitives.py`; extends `CircuitBreaker` | detailed |
| `AsyncSession` | `async_connection.py`: the managers' client, `AsyncTaskManager`, and their clean-up in `_core/_base.py` | detailed |
| `CircuitBreaker` | `CircuitBreaker` of `circuit_breaker.py`, as operators on a record | pure |
| `DomainRequests` | `ConnectionManager.request` with `CircuitBreakerManager` and the thread budget | detailed |
| `ThreadBudget` | `concurrency.py: UnifiedConcurrencyManager` | detailed |
| `ClientPool` | `connection.py: ConnectionPool` | detailed |
| `AddressCache` | `transport.py`: the threads' and the event loop's transport | detailed |
| `RequestPacing` | `rate_limiter.py`, the pacer and the byte budget of `transfers.py` | detailed |
| `DomainHealth` | `domain_health.py` | detailed |
| `JobRun` | `cli.py: _main`, `_core/_base.py`: jobs, mirrors, signals | detailed |
| `Transfers` | `WholeFileTransfer`, `ChunkedDownload` and `UrlListDownload` (kept, overwritten) | parts side by side |
| `Storage` | `ScratchLease`, `FreshnessReceipts` (three ways) and `CapacityRegistry` | parts side by side |
| `Connections` | `RequestPacing` (three ways), `ThreadBudget`, `ClientPool`, `AddressCache` (both transports), `DomainHealth`, `AsyncSession` | parts side by side |
| `Mirroring` | `MirrorSync` as a run or as a walk alone, and `AsyncHeads` | parts side by side |
| `DestinationLock_proofs`, `DomainRequests_proofs`, `JobRun_proofs`, `Transfers_proofs`, `Storage_proofs`, `Connections_proofs`, `Mirroring_proofs` | theorems (section 4) | proofs |
| `MCTransfers`, `MCStorage`, `MCConnections`, `MCMirroring`, `MCDestinationLock`, `MCDomainRequests`, `MCJobRun`, `MCMirrorSync` | constants of the runs | model checking |

The order is that of the data: the locks decide who may write, the engines put
files at their destination, scratch, receipts and the registry are what they
keep on disk meanwhile, discovery and `sync()` decide which files, and the rest
stands between a request and the network. Where one module needs another only
for what it promises, it takes the promise: `MirrorSync` has transfers that
bring a file or fail, `UrlListDownload` publishes in one step, `DomainRequests`
takes leases of a counter.

Operators whose comment begins with *Variant* are not part of the models: each
is a definition as a plausible mistake would have it, and is there to check that
the properties would notice.

### DestinationLock

A guard (`DestinationLock` object) has the sets of keys it holds `shared` and
`exclusive` (`_handles` and `_exclusive`), `active`, `closing` and a mutex. The
run's guard has no parent; a mirror's guard has the run's as parent and holds no
lock files. Threads go through the calls label by label:

- `Construct` / `AddPaths` → (`AddPathsParent` | `AddPathsRefused`) →
  `LockKey`* → `LockDone` or `LockRefused`. The mutexes of child and parent stay
  held (they are variables here) since the code holds them across the loop.
- `OperationParent` → `OperationEnter` | `OperationRefused`; `OperationRoot` for
  a guard without parent; then the body (`StartWrite`, `StopWrite`, nested calls),
  `FinishBody`, `OperationLeave`, `OperationLeaveParent`.
- `Close` → `CloseParent` → `Cleanup` → (`IdleParent`, `IdleOwn`, `RemoveState`)
  → `CloseLeaveParent` → `CloseLeave`.
- `Crash(p)` kills a process: the kernel closes its lock files.

Abstractions. A section under a mutex that waits for nothing is one action,
enabled when the mutex is free (the RLock is not re-entered by another path of
the same thread). Closing all lock files of a guard is one step: in between,
another process would see some files free and others not, and get a refusal,
which `LockRefused` allows at any time anyway. `writing` and `stateDir` stand for the body of an
operation: it makes sure of the state directory (`_state_directory`) and writes
below a path that `add_paths` granted. `claimed` and `cleaned` are history.

### WholeFileTransfer

One destination file, its partial file and the resume record (`meta`) on disk,
the server's current representation per URL, and the program counter of the one
call that may run (two calls for one file are excluded: the tree is locked and
the coordinator hands out each file once). Content is a sequence of blocks, each
labelled with the representation it came from, so that a mix is visible. The
actions follow the code in order: `BeginAttempt` (load or clear the record),
the answers (`RangeNotSatisfiable` with its second request, `Answer200`,
`Answer206`, `BadRange`, `OtherStatus`), `OpenPartial`, `BindRecord`,
`WriteBlock`, `EndOfBody`, `Verify`, `Publish`, `Finish`; the failures
(`NetworkError`, `ConnectionRefused`, `NoCapacity`, `OtherError`, then
`DiscardBytes` and `DiscardRecord`); `Crash` between any two; and
`CleanupStalePartial` between calls.

Assumptions on the server: one response carries one representation, and a strong
ETag names one representation of its URL. Nothing else is assumed: it may change
the file at any moment, ignore ranges, send the wrong one, or stop early.
Process death is modelled, loss of power is not (src/docs/DEVELOPER_GUIDE.md:1436-1437
excludes it too). The last check of the destination and `os.replace` are one step.

### CapacityRegistry

Each job is one sequential actor (its budget has a lock); its transfers are
summed. `FundSample` takes the free-space sample and the lease, `FundClaim` is
the section under the registry's kernel lock (`_load`, the decision, `_save`)
with the credit that follows, `FundFailed` any error on the way; `Reserve`,
`Resample`, `Write`, `DiskFull`, `Release`, `Close` and `Crash` are the rest.
`members` and `honest` are history variables of the current epoch.

### CircuitBreaker and DomainRequests

A breaker is a record and its methods are operators, each one section under the
breaker's lock; the clock is one flag, whether `recovery_timeout` has passed
since the time the present state looks at (`time.time()` is taken not to go
back). `DomainRequests` has threads that call `request()` for URLs of one domain
(a redirect is only followed within the scope, which has one origin):
`Start`, `Lease` (`acquire_thread`), `Blocked` (the security check), `Ask`
(`can_execute`), `Scope`, then an answer: `AnswerOk`, `AnswerFinal`,
`AnswerRetry`, `AnswerRedirect`, and `CloseBody` or `Leave`, which give the
lease back. The recursive call for a redirect is the same thread back at
`Lease` with `depth` one higher: the frames it leaves behind have nothing more to
do. Handling an answer is one step, since the breaker's section is the only
shared state in it. `probe` and `healthy` are history and environment.
Left out: waiting (back-off, rate limit, `consecutive_failures`, which only
delays), headers, metrics and the client pool (`ClientPool`).

### ChunkedDownload

The caller's thread goes through `Start`, `Create` (the plan that the probe
made, streaming or one file per chunk, with the capacity claim), `Submit`* ,
`Wait`* with its timeouts, `Decide`, `Retry`*, `Finish`, `Publish`, `Clean`,
`Settle` and `Result`, or falls back to `WholeFile`. Each chunk has a thread of
its own: `Take`, `Permit` (the per-host semaphore), `Answer` or a failure,
`Complete`, `TaskEnds`. A wait that times out leaves the thread running, which
is why `Retire` (the callback that cleans up after the last writer) is an actor
of its own. The environment changes the file on the server, edits the
destination and shuts the manager down at any time.

A chunk is one block labelled with its version, or torn while it is rewritten.
Only versions with a strong ETag are planned in chunks by the instances, and the
whole-file path, whose steps are in `WholeFileTransfer`, is one step here.

### UrlListDownload

A job is `Begin`, `Examine` for every URL (the receipts against the files that
are there), `Start`, the workers, `LoadEnds` and `Save`; each URL goes through
`Prepare`, `Probe` with ranges, fetching, `Publish`, `Note` and `Release`. What
touches the disk is in a thread that a cancelled worker waits for, so that
`Interrupt` stops fetches and lets the other stages run on. `Kill` ends the job
between any two steps. `ours` is the history of what this mode published.
`Meddling` says when other programs write: without `--overwrite` at any time but
while a URL waits in the list, when a write is not noticed (section 5).

### ScratchLease

One root with its marker, workspaces with directory, manifest and bytes, and the
OS leases on manifests. A root or a workspace that somebody else put an entry
into cannot be removed (`rmdir` fails). Owners are the successive mirrors of one process, for
the CLI runs its jobs one after another and another process does not own the
tree (`DestinationLock`); two owners overlap when the first one's bounded
shutdown left it with a writer. Every file operation is a step of its own that
may fail (`Fault`), and `Crash` may come between any two. One root stands for
`parallel` and `chunks`, whose code is the same.

### FreshnessReceipts

One file over several runs: the receipt in the LRU cache, in the dictionary and
in the cache file, the check as a thread of its own (`StartCheck`, `ReadLru`,
`GetReceipt`, the verdicts), the transfer (`Fetch`, `Publish`, `NoteLru`,
`NoteDict`), eviction, ageing, damaged files, other programs that write and runs
that die. Stamps are numbers no two writes share. `Meddling` excludes writes between
publication and its note unless they can be told by hash or size (`Told` in
`Storage`). Verdicts from size and date
are left open, since nothing is promised of them. Left out: the save that the
probe of an empty file makes by itself, and backups of the cache file (the
restore finds none that its own check accepts). A late check may put an older
receipt back into the LRU cache; the run shows that it decides nothing wrong.

### Discovery and MirrorSync

A page is the set of directories and files it names; the server may change it,
and any read may fail. `Discovery` has the walk (`FillBatch`, `Fetch`, `Drop`,
`Visit`), with links entered, skipped or followed, the second reading of each
directory for its files (`Collect`), and the flag `incomplete`. The worker
threads only fetch; the pages are used in breadth-first order, and
`WalksBreadthFirst` says that this makes the parallel scan a sequential one.

`MirrorSync` extends it by the phases of `sync()`: `Sync`, `Scan`, the early
returns (`ScanFailed`, `Surveyed`, `RefuseClash`), `CheckFile`, `Submit`,
`Downloaded` and its failures, `Inspect` and `Decline`, `RemoveFile` (which
deletes or archives), `RemoveDir` and `CleanEnds`; `Crash` comes anywhere and
the mirror may run again. Whether a local file is current is open here.

### AsyncHeads

The tasks of one event loop check a batch of files: local facts, a HEAD through
pacing, admission, the request, retries, then a synchronous check in an executor
when the HEAD says nothing. `Deadline` cuts a check off, whose executor call
goes on (`LateAnswer`). `RecordResult` and `ApplyPending` are the adaptive
concurrency and `ResizableSemaphore`: its sections, like the manager's, contain
no `await`, so each is one step. Three paths of the code cannot be taken and are
left out: the fallback inside `check_one_with_timeout`, the cap of 30 s in
`head()` (the caller waits 15 s), and the 404 that arrives as an exception.

### AsyncSession

What `AsyncHeads` works with, over several runs of `sync()`: managers made anew
(`Recreate`), the client opened and closed around the checks (`Enter`, `Leave`,
`Left`), and the tasks, which two scheduled coroutines forget when they are done
(`TaskDone`, `RemoveTask`). `Signal` stops the main thread at any point. The
clean-up thread then shuts down the tasks (`ShutdownTasks`) and the client
(`CloseClient`) in loops of its own, while `HandlerExits`, `UnwindExit` and
`UnwindLoop` take the main thread out of `asyncio.run`. A lock belongs to one
loop: if that is the main thread's and open, the shutdown fails. One signal
comes, in any state.

### ThreadBudget, ClientPool, AddressCache, RequestPacing, DomainHealth

`ThreadBudget`: requesters that take a slot or fail, submitters that wait for
one, the done callback that gives it back, `shutdown`. `ClientPool`: the lookup
without the lock and everything under it; closing a client may fail.
`AddressCache`: `Async` chooses the transport; a rotation of a host's address is
external, a request has no body (so a retry may resend it), and an answer is
stored in the same unit of time in which it came. `RequestPacing`: three
disciplines with one state; time does not go back (the code takes
`time.time()`, `rate_limiter.py:128`), and a sleeper wakes a bounded time late.
`DomainHealth`: one domain in the file that all runs read once and write whole.

### JobRun

The main thread goes through a job (`Configure`, `Build`, `InstallHandlers`,
`SkipJob` / `FailJob` / `ListJob` / `StartSync`, `EndSync`, `RestoreHandlers`,
`Close`, `Finish`, `Settle`) with errors propagating as in the code's `try`
blocks. `Signal` puts a handler on top of it and starts a clean-up thread; the
handler leaves by `HandlerExits` or `HandlerGivesUp`. A signal may come while
the main thread holds the guard's mutex (`mutex`), which the clean-up then waits
for. The steps of `_cleanup_resources` catch their own errors and are one step.

## 3. Runs

Four modules put several parts side by side: `Transfers`, `Storage`,
`Connections` and `Mirroring`. A variable `part`, chosen in `Init`, says which
part moves; the others rest in an initial state. This is sound for properties of
each part since the parts share no variable, and it takes each part's own `Init`
and `Next` through `INSTANCE`. Where a part comes in several ways (kinds of
pacing, of receipts, of lists, settings of a mirror), the ways use the same
variables and are instances with a parameter: `Pacing(d)`, `Receipts(w)`,
`Lists(way)`, `Mirror(w)`, `Heads(c)`. In `Mirroring` the settings themselves are
a constant, so that what is proved there holds for every tree of directories,
every set of pages and every combination of options. Each of the four assumes
(`PartsAssumption`) what its parts assume of their constants
(`...Assumption`), and TLC evaluates that on every run. The MC modules only
extend them by the constants of an instance.

| Run | Instance | Shows |
|---|---|---|
| `transfers` | `whole`: 2 URLs, representations of 2 blocks (two with different ETags, one without, one at the other URL with an equal ETag), 1 retry; `chunked`: 2 chunks, 2 workers, 1 per host, 1 retry within a chunk, 2 of chunks; `kept`: 2 URLs without `--overwrite`, 2 jobs, 4 writes; `overwritten`: 2 URLs with `--overwrite`, one in chunks, one worker | `ResumableIsPrefix`, `ImplementsAtomicPublication`, `ScratchServesWriters`, `ForeignFilesKept`, `SuccessesHaveReceipts` |
| `transfers_end` | the same with fewer representations and one job, fair | `TransfersEnd` |
| `storage` | `scratch`: 2 owners, 2 workspaces, 1 crash, 1 fault, 1 entry of others; receipts `stamped` and `hashed` (3 writes), `late` (2 writes): 2 contents, 1 change, 2 runs; `capacity`: 3 jobs, 3 blocks, headroom and window 1, 1 foreign block | `WorkHasItsOwner`, `TrustedIsTrue`, `WrittenIsCharged` |
| `connections` | pacing `held`, `reserved`, `bytes`: 3 callers, 4 or 5 requests; `budget`: 2 requesters, 3 submitters, 2 slots; `pool`: 2 threads, 3 origins, 1 or 2 clients; addresses `blocking`, `loop`: 2 threads, 2 hosts, 1 entry, 1 rotation; `health`, `successive`: 2 runs, threshold 2, 3 stored, 5 incidents; `session`: 3 checks, any number of runs, one signal | `PaceKept`, `SlotsKept`, `ClientsKept`, `AddressesKept`, `VerdictsFounded` |
| `mirroring` | `deleting`, `moving`: a tree of 4 directories and 4 files, `dry`, `survey`: of 3; `parallel`, `twins`: a chain of 4 directories with links up and sideways, pages that look alike; checks `scaling`, `plain`: 3 files in batches of 2 | `CompleteMeansRead`, `RemovedWasAbsent`, `SuccessMirrors`, `EveryFileDecidedOnce`, `TreeKept`, `WalksBreadthFirst` |
| `mirroring_end` | `syncing`: clashing names; `walking`: links in circles, followed; `checking`: no deadlines; fair | `MirroringEnds` |
| `lock_two_processes` | a run with one mirror and two threads; another process with one guard; requests `left` and its parent `top` | `ExclusiveTrees`, `WriterOwnsTree`, `CleanupOnceAndOwned`, `WriterKeepsState`, `ImplementsTreeOwnership` |
| `lock_progress` | a run with one mirror and two threads, nested leases, fair | `CallsReturn`, `ClosedGuardReleases` |
| `requests` | two threads, one lease, threshold and half-open limit 2, one retry, two redirects followed of three, fair | `LeasesBalance`, `ProbesBounded`, `EveryRequestEnds` |
| `jobs` | three directories, one signal, fair | `VerdictOnce`, `MirrorsDontOverlap`, `GracefulMeansClean`, `InterruptEnds` |
| `requests_redirected` | one thread, one redirect per request, busy, prompt | `Recovers` is violated (section 5) |
| `sync_sideways` | a tree of 4 directories with a sideways link | `RemovedWasAbsent` is violated (section 5) |

The larger runs have between one and five million distinct states. A property of
a composite run is a conjunction of the parts' properties, each stated with its
source in the part's module; `TypeOK` is one conjunction per run (`Mirroring` has
none: its other properties read every variable, and its proofs have types of
their own, `WalkTypes`, `PhaseInv` and `HeadTypes`).

Bounds.
Locks: two guards contend for a common ancestor as soon as there are
two, three threads are one more than any wait needs; nested leases are bounded
by 1, and by 2 in `lock_progress`, where an inner leave is not the last.
Transfers: two blocks or chunks are the least with a proper prefix, a mix, and
one chunk late while the other is done; one retry is the least that resumes
within a call, and later calls resume across crashes without bound. Two URLs and
one worker make a URL wait; two jobs let receipts of the first decide in the
second, and four writes put a foreign file at each place in either.
Scratch: two owners are the least that recover from each other, with one crash
and one failed operation anywhere. Receipts: two contents and a third write let
a content come back. Capacity: three jobs are the least in which one
sees another end while a third keeps the epoch alive. Scans: four directories
have a directory below a directory beside another branch; depth 1 and 2 cut one
off or not. Checks: three files in batches of two make a full and a partial
batch; two failures open the breaker, and `plain` has three. Pool, budget and caches are at their limit
with one more origin, thread or host than they admit. `Requests`, `MaxTime`,
`Uses`, `Clients`, `Horizon`, `Rotations`, `Incidents`, `Writes`, `Changes`,
`Runs`, `Outages`, `Crashes`, `Faults`, `Strays`, `Signals` and `MaxForeign`
bound behaviours and nothing in the code.

`CHECK_DEADLOCK FALSE` stands where a bound ends behaviours (jobs run once,
writes and time are used up) or where the program ends (`jobs`, the checks of
the mirroring runs). The runs of the locks and of `DomainRequests` check for
deadlock: there a thread that cannot go on while no other can would be one.

Symmetry is used in runs without liveness only: of URLs, callers, owners or
workspaces no definition tells apart.

Fairness. `lock_progress` assumes strong fairness of a thread's own steps inside
a call: an RLock that becomes free again and again is eventually granted, and a
body that runs ends (requests have timeouts). No call, close or crash is owed.
`transfers_end` assumes weak fairness of each engine's own steps: each request
and each read has a timeout, each wait for a chunk a deadline; the server, other
programs, shutdowns and interruptions owe nothing. `mirroring_end` assumes weak
fairness of the run, the walk and each check's own steps, and strong fairness of
admission to the semaphore, which is taken and released again and again.
`requests` assumes weak fairness of each thread inside a request (calls have
timeouts, callers close their streams in a `finally`) and of the clock.
`requests_redirected` is about a job that always has another request to make and
a server that answers before a half-open window is over (`Prompt`); without the
second, slow answers alone keep a circuit from closing, as the code intends.
`jobs` assumes weak fairness of the main thread and of the handler's wait, which
ends after 30 s; none of the clean-up threads, so that `InterruptEnds` says an
interrupted run ends also when its clean-up hangs.
Environment steps are never fair.

## 4. Proofs

Every safety property that a run checks, invariant or action property, and each
of the three refinements is also a theorem, for every value of the constants
that satisfies the assumptions of the module. Each proofs module has the same
shape: an inductive invariant `IInv` in named parts, `Init => IInv`,
`IInv /\ [Next]_vars => IInv'` with one step per action and under it one per
part the action can disturb, and the theorems from `IInv`.

| Theorem | States | Hypothesis beyond the module's assumptions |
|---|---|---|
| `DestinationLock_proofs!TypeCorrect`, `TreesApart`, `WritersOwnTheirTrees`, `WritersKeepTheirState` | `TypeOK`, `ExclusiveTrees`, `WriterOwnsTree`, `WriterKeepsState` | |
| `DestinationLock_proofs!CleansUpOnce` | `CleanupOnceAndOwned` | |
| `DestinationLock_proofs!OwnershipImplemented` | `ImplementsTreeOwnership` | |
| `DomainRequests_proofs!TypeCorrect`, `BudgetIsBalanced`, `WindowIsBounded`, `CountersBelong` | `TypeOK`, `LeasesBalance`, `ProbesBounded`, `CountersFit` | |
| `JobRun_proofs!TypeCorrect`, `OneVerdict`, `NoOverlap`, `ReportedWhenClosed` | `TypeOK`, `VerdictOnce`, `MirrorsDontOverlap`, `FrozenAfterShutdown` | |
| `JobRun_proofs!GracefulIsClean` | `GracefulMeansClean` | at most one signal |
| `JobRun_proofs!GracefulIsBegun` | exit code 0 only when the clean-up has begun | |
| `Transfers_proofs!TypeCorrect`, `ResumableAlwaysPrefix`, `ScratchAlwaysServes`, `ForeignAlwaysKept`, `SuccessesAlwaysNoted` | the invariants of `transfers` | |
| `Transfers_proofs!PublicationImplemented` | `ImplementsAtomicPublication`, for both engines | |
| `Storage_proofs!TypeCorrect`, `WorkAlwaysOwned`, `TrustAlwaysTrue`, `WritingAlwaysCharged` | the invariants of `storage` | |
| `Connections_proofs!TypeCorrect`, `PaceAlwaysKept`, `SlotsAlwaysKept`, `ClientsAlwaysKept`, `AddressesAlwaysKept`, `VerdictsAlwaysFounded` | the invariants of `connections` | |
| `Mirroring_proofs!CompleteAlwaysRead`, `SuccessAlwaysMirrors`, `FilesAlwaysDecidedOnce` | the invariants of `mirroring` | |
| `Mirroring_proofs!RemovedAlwaysAbsent` | `RemovedWasAbsent` | links lead down (in the property) |
| `Mirroring_proofs!TreeAlwaysKept`, `WalkAlwaysBreadthFirst` | the action properties `TreeKept` and `WalksBreadthFirst` | |

Three hypotheses carry weight and are the code's, not the proof's. A second
signal really breaks `GracefulMeansClean` (section 5). `RemovedWasAbsent` is
stated for pages that name only deeper directories (`LinksLeadDown`);
`sync_sideways` shows it false with a sideways link. `ForeignAlwaysKept`
rests on `"queued" \notin Meddled["kept"]`, part of the assumption of
`Transfers`: a file another program creates while its URL waits in the list is
replaced (section 5).

### The locks

That a writer owns its tree depends on the counter `active` being at least the
number of leases that threads hold, which depends on every label a thread may be
at. The inductive invariant is a conjunction of

- `OnInv`: which guard a thread at each label is about;
- `MutexInv`: the mutex of a guard is held by the thread at the labels inside it;
- `CountInv`: `active[g]` is exactly the number of leases, as a cardinality of
  the set of lease slots occupied by the threads (the finite set of threads is
  why the assumption names `IsFiniteSet(Thread)`);
- `KernelInv`: no two guards hold a key incompatibly;
- `AncestorInv`: who holds a key exclusively holds its ancestors, the one whose
  `add_paths` is on its way excepted for keys after the current one;
- `AcquiredInv`: what a call has acquired is held and nobody writes in it;
- `ClaimInv`: granted paths stay exclusive while the guard has a lease;
- `WriteInv`: a writer is inside an operation body and its state exists.

`CleansUpOnce` adds `CloseInv`: one thread at most is past the first section of a
guard's `close()`, and the clean-up is still to come until it has called it. Most
actions leave all that `CloseInv` reads alone, which `CloseFrame` says once. The
refinement maps a run's guard to what it holds exclusively (`Owned`) and a
writing thread to its run and path (`Writes`): a lock granted, lock files closed,
a write started and stopped are steps of `TreeOwnership`, everything else a
stutter (`Unseen`).

### Requests and jobs

`LeasesBalance` is inductive only with `LeaseInv`, which says at which points of
`request()` a thread holds its lease (otherwise a stream could be closed by a
thread that still holds one), and `ProbesBounded` only with `ProbeInv`: outside a
window there are no probes, so that a window starts counting at one. The lemmas
`AskedFits`, `SucceededFits` and `FailedFits` say once what the breaker's methods
do.

That a job has no second verdict depends on how far it is and on what is
propagating. `IInv` adds `QuietInv` (no signal or error outside the protected
part of a job), `SignalInv` (a run that got a signal is in a handler or being
left), `MirrorInv` (how far the job's mirror is at each step) and `VerdictInv`
(which jobs have a verdict at each step). `GracefulInv` says what exit code 0
stands on: a handler leaves when its own thread is done, and that thread is done
once some clean-up has begun; with one signal it is the thread that cleans up.

### Transfers

`WholeInv` has, beside the types, `ServerInv`, `RecordInv` (what a record makes
resumable is a beginning of the version it names) and `RunInv` (what has been
written when a response is being read). `ResumableIsPrefix` is not inductive
without the last: a record is bound to a partial while it grows.

`ChunkInv` has `SpaceInv` (where scratch exists and is charged), `PlanInv`,
`BlockInv` (a response that is read is of the planned version, a complete chunk
has that version and no thread) and `CountInv`: a chunk that was waited for and
is not complete has been counted in `failed`, a cardinality of missing chunks.
That a file is published only when no chunk is missing follows from it, since the
code decides by the counter (`_core/downloads.py` reads what `download.py` has
counted) while threads whose wait timed out go on.

`ListInv(way)` has `OursInv` (receipts name what this mode published), `PhaseInv`
(threads work on files only while the list is loaded), `MineInv` (without
`--overwrite`, what an entry is about to replace is ours) and `NotedInv` (what is
published is noted before its entry is done).

`WholeRefines` and `ChunkRefines` are the refinement, action by action: `Publish`
of either engine is the publication of one offered version, the server's steps
and other programs' writes are those of `AtomicPublication`, all else stutters.

### Storage

`ScratchInv`: `WorkInv` says that a workspace is one owner's from its creation to
its release, that an owner looking at a manifest holds its lease, and that it
goes past that only if nobody claims the work. `CoverInv` is what
`AbandonedWorkReclaimed` needs: while an owner is in, somebody is still to come
for each recorded workspace nobody holds.

`ReceiptInv(way)`: every copy of a receipt (in the LRU cache, the dictionary, the
file, the checker's and the loader's hands) is `Sound`, that is, it names its
content by hash, or by size and a stamp that `Tells` the content. The copies are
why the invariant speaks of all receipts at once: a late check may put an old one
back.

`BudgetInv`: `AccountOf` and `ClaimOf` relate a job's counters, its lease and its
claim; `Charged` says that claims and charges fit the sample of the epoch, that a
claim covers what its job has on disk, and the charges what members without a
claim left there; `Fits` says of an honest sample that it counted the free
space. Sums over jobs are cardinalities of sets of pairs
`<<job, k>>` (`Total`), for which adding, replacing and comparing are lemmas about
finite sets instead of induction.

### Connections

`HeldInv`: a sleeper holds the lock and its start is due an interval after the
last one. `ReservedInv` has no lock to lean on: `Placed` gives each past start
a place of its own at most `Late` before it, an interval apart from every other
place and reservation, and `Covered` says that until any reserved start every
moment lies in the interval before somebody's start, from which the bound on a
sleep follows by counting callers. `SpentInv`: there is a set of as many moments
as bytes were let go, none taken twice (`Taken`).

`BudgetInv`: the counter is the number of holders, slots and tasks; while a
submission sleeps there are no more free slots than submissions trying.
`PoolInv`, `AddressInv(async)` and `SessionInv` say who has what at each label.
`HealthInv(overlap)`: a run's list is the end of all it knows (`Truncated`), and
nothing is counted twice (`Among`, an injection of lists); runs that do not
overlap agree with the file.

### Mirroring

`WalkInv(w)`: `QueueInv` (nothing excluded or too deep waits; where links lead
down, nothing waits with more links than its path has components), `FoundInv`
(each directory once), `PagesInv` (what an entered page names is visited,
excluded or waits), `RootInv`, `SeenInv` and `LinkHasItsTarget` (a signature is
that of a directory that was entered), `CollectInv` (the second reading).
`RunInv(w)`: `PhaseInv` (how far the run is), `LoadInv` (unless something failed,
a listed file is in the tree or on its way), `CleanInv` (the clean-up's business
is what is left and nothing else). `HeadInv(c)`: `DecisionInv` (how far each
file's check is), `VouchedInv`, `LimitInv`.

`ObsoleteIsAbsent` is the heart of `RemovedAlwaysAbsent`: for a file that the
clean-up selects take the deepest found directory above it (`DeepestExists`); its
page was read in a complete scan, and if the page named the next directory on the
path (`StepExists`), that one would be found or protected. Both lemmas need paths
to be finite chains, which is what `PathAssumption` states of `Above`.

`WalkAlwaysBreadthFirst` is a step simulation in which the abstract queue is
`batch \o queue`: filling a batch is a stutter, a visit takes the first element
whatever order the threads fetched in.

### What the proofs changed in the models

Attempts that failed showed definitions that were wrong or said too little: a
root with an entry of others cannot be removed by `rmdir` (`ScratchLease`); a job
that waits for the registry holds its lease, and a missing registry is not a
register (`CapacityRegistry`); a file could be written by others between
publication and note where nothing can tell (`FreshnessReceipts`); an unannounced
body was unbounded (`WholeFileTransfer`); the paths above a directory, the order
of subdirectories and the marks for missing pages were not required to be what
they are called (`Discovery`); and the condition on links under which
`RemovedWasAbsent` holds was a choice of instances and is now a definition
(`MirrorSync`).

### Only model-checked

The liveness properties: `TransfersEnd`, `MirroringEnds`, `CallsReturn`,
`ClosedGuardReleases`, `EveryRequestEnds`, `InterruptEnds`. Fairness, `ENABLED`
and what they imply are out of the prover's reach. Absence of deadlock in the
runs of the locks and requests is TLC's as well. So are the two disagreements of
section 5, which are counterexamples.


## 5. Where code and documentation disagree

Two runs show a disagreement:

`requests_redirected`: `request()` asks the breaker again for every redirect it
follows (`connection.py:558`, `:719`), and permits of a half-open window are not
returned. With the limit of 2 that `CircuitBreakerManager` sets, a request that
is redirected once uses up a whole window and records one success of the two
that close the circuit. A healthy domain that redirects every request therefore
never gets out of OPEN and HALF_OPEN, against the transitions of
`src/docs/DEVELOPER_GUIDE.md:1133`.

`sync_sideways`: the walk counts links, `_cleanup_path_selected`
(`_core/cleanup.py:177`) counts path components. A directory first reached by a
sideways link at the depth limit is not read for its subdirectories
(`_core/scan.py:854`), yet their files count as inspected and are removed,
although "Protect paths the current scan deliberately did not inspect"
(`_core/cleanup.py:143`).

Others were met while modelling; the instances leave their trigger out, or the
properties are stated so that they hold:

- `capacity.py:198`: `_fund` samples free space before it takes the registry's
  lock (`:112`); a job that sampled while another wrote and comes to the registry
  after that one ended starts an epoch with a sample that counts written blocks
  as free, against the class comment (`:36-38`). `HonestEpochFits` says that
  an epoch with a true sample fits.
- `download.py:1435` says that cancelled downloads let "threads exit early"; no
  thread reads that status (`:1440`), and one whose chunks complete is published.
- `security.py:61`: `visited_symlinks` is never cleared, so a second `sync()` of
  one object does not follow the links the first one followed.
- `_core/compare.py:539`: the synchronous check of a file that was cut off and
  queued still records its outcome in the report, against `run_report.py:24`.
- `async_connection.py:716`: `_fallback_to_sync` is set and logged, and not read
  by the checks after the profile.
- `domain_health.py:131`: a history that cannot be read is taken as empty and
  overwritten with the next incident, against "degrades gracefully to a no-op"
  (`:94`). `HistorySurvivesRuns` is checked without failing reads.
- `connection.py:401`: a client counts as idle from when it was handed out, so
  one that streams for longer than `idle_timeout` is closed under its user.
- `cache.py:421`: stamps are taken from what is at the path after publication,
  so bytes of another program in between are recorded under the published ETag;
  only the instance with hashes lets others write there.
- `utils.py:164`: the fallback for an undated cache file is an aware time, which
  cannot be subtracted from the naive one (`cache.py:122`), and the load fails.
- `scratch.py:59`: a kill between making a state directory and marking it leaves
  one that every later start refuses, against `src/docs/USER_GUIDE.md:1831`.
- `transfers.py:783`: a file created while its URL waits in the list is replaced
  without `--overwrite`, against `:1050`; `kept` has no writes in that interval.
- `_core/_base.py:846` wants the tasks shut down before the client, "because tasks
  may be using the connection manager's client". After a signal among the checks
  the lock of the tasks belongs to the main thread's open loop
  (`async_primitives.py:30-31`), both shutdowns fail, and the client is closed
  under the tasks. `ClientOutlivesChecks` speaks of the time before a signal.
- `_core/_base.py:113`: a second signal during the clean-up finds the guard
  closing, and exits with 0 before the first clean-up has ended, against
  `src/docs/USER_GUIDE.md:2259`; `jobs` has one signal.

## 6. Plan

Every module of the first plan exists and every safety property of the runs has
its theorem. What is left, in this order:

1. Theorems about single parts that no run states yet: that a breaker leaves
   HALF_OPEN only after its limit of successes or a failure, that a list's job
   reports each URL once.
2. The prewarm thread of `sync()` (`_core/report.py:345-385`), with its join.
3. The two hazards without a property (`destination_lock.py:206`,
   `download_integrity.py:86`), as far as the code promises anything there.


## 7. Not modelled

Parsing of pages, path safety, address validation, logging, metrics, progress
output, configuration and the health server: sequential text and I/O.
`DownloadQueue` is constructed and used by no caller; the tuner is a formula
whose only effect, the number of workers, `MirrorSync` leaves open. The prewarm
thread is left for later. `DiskBackedSet` never gets an item and
`FileSystemCache` is only invalidated. Loss of power, other hosts and programs that ignore the locks are outside what the code
promises. `PROJECT.json` lists every component with its status and every hazard
with the properties that cover it.
