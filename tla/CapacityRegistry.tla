-------------------------- MODULE CapacityRegistry --------------------------
(***************************************************************************)
(* capacity.py: the cooperative accounting of free space. Each job (a run  *)
(* of one process) has a CapacityBudget; the budgets of all the jobs of a  *)
(* user on a filesystem share one registry file, read and replaced under a *)
(* kernel lock, and every job with a claim holds a kernel lock (its lease) *)
(* that tells the others it is alive.                                      *)
(*                                                                         *)
(* A budget's lock makes its calls sequential, so a job is one sequential  *)
(* actor; the files it transfers together are one transfer whose           *)
(* reservation is their sum. Space is counted in blocks. A registry        *)
(* section waits for nothing while it holds the lock and replaces the file *)
(* atomically: it is one action, and a crash falls before or after it. The *)
(* free-space sample is taken before the lock, in a step of its own.       *)
(***************************************************************************)
EXTENDS Naturals, FiniteSets

CONSTANTS
    Job,
    Capacity,       \* blocks of the filesystem
    Headroom,       \* write headroom of a budget
    Window,         \* coarse funding window (WINDOW)
    Hint,           \* Hint[j]: total_hint, 0 for None
    Sizes,          \* the file sizes reserve() is called with
    MaxForeign,     \* bound: blocks written by programs that do not cooperate
    NoRegistry, NoSample

\* Assumed of the constants wherever the module is instantiated.
CapacityAssumption ==
    /\ IsFiniteSet(Job)
    /\ Capacity \in Nat /\ MaxForeign \in Nat
    /\ Headroom \in Nat \ {0} /\ Window \in Nat \ {0}
    /\ Hint \in [Job -> Nat]
    /\ Sizes \subseteq Nat
    /\ NoSample \notin Nat
    /\ NoRegistry \notin [free : Nat, spent : Nat, claims : UNION {[S -> Nat] : S \in SUBSET Job}]

VARIABLES
    registry,       \* the state file: [free, spent, claims], or NoRegistry
    lease,          \* lease[j]: j's lease file is locked
    pc,             \* "idle", "fund" (sampled, not in the registry yet), "failed"
                    \* (the latch _failed), "closed", "dead"
    sample,         \* _free
    funded, remaining,  \* _funded (of budget and claim) and _remaining
    pending,        \* the size reserve() is about
    reserved,       \* _reserved, of the transfer in progress
    written,        \* blocks of that transfer on disk
    kept,           \* blocks earlier transfers of j left on disk
    foreign,        \* blocks written by others
    members,        \* history: the jobs that claimed in this epoch
    honest          \* history: the epoch's sample was not too high when it began

budgetVars == <<sample, funded, remaining, pending, reserved>>
diskVars == <<written, kept, foreign>>
epochVars == <<registry, members, honest>>
vars == <<epochVars, lease, pc, budgetVars, diskVars>>

-----------------------------------------------------------------------------
\* The sum of f[j] over S, as a number of blocks: the j-th owns f[j] of them.
Total(f, S) == Cardinality(UNION {{j} \X (1..f[j]) : j \in S})
Claimed(data) == Total(data.claims, DOMAIN data.claims)

DiskFree == Capacity - Total([j \in Job |-> written[j] + kept[j]], Job) - foreign

Restricted(f, S) == [j \in S |-> f[j]]

Fresh(free) == [free |-> free, spent |-> 0, claims |-> [k \in {} |-> 0]]

\* Variant: the lease of another job is not looked at.
LoadOwnOnly(j, free) ==
    LET data == IF registry = NoRegistry THEN Fresh(free) ELSE registry
        live == {k \in DOMAIN data.claims : k = j}
    IN  IF live = {} THEN Fresh(free)
        ELSE [data EXCEPT !.spent = @ + Total(data.claims, DOMAIN data.claims \ live),
                          !.claims = Restricted(@, live)]

\* _load: an abandoned claim is charged for good; without claims a new epoch
\* starts from the caller's sample.
Load(j, free) ==
    LET data == IF registry = NoRegistry THEN Fresh(free) ELSE registry
        live == {k \in DOMAIN data.claims : k = j \/ lease[k]}
    IN  IF live = {} THEN Fresh(free)
        ELSE [data EXCEPT !.spent = @ + Total(data.claims, DOMAIN data.claims \ live),
                          !.claims = Restricted(@, live)]

Init ==
    /\ registry = NoRegistry /\ members = {} /\ honest = TRUE
    /\ lease = [j \in Job |-> FALSE]
    /\ pc = [j \in Job |-> "idle"]
    /\ sample = [j \in Job |-> NoSample]
    /\ funded = [j \in Job |-> 0]
    /\ remaining = [j \in Job |-> 0]
    /\ pending = [j \in Job |-> 0]
    /\ reserved = [j \in Job |-> 0]
    /\ written = [j \in Job |-> 0]
    /\ kept = [j \in Job |-> 0]
    /\ foreign = 0

-----------------------------------------------------------------------------
(* reserve, ensure and _fund *)

\* reserve(size) for a new transfer, or ensure() for a block more than the
\* reservation of the one in progress.
Request(j, size) ==
    /\ pc[j] = "idle"
    /\ IF reserved[j] = 0 /\ written[j] = 0 THEN size \in Sizes
       ELSE size = 1 /\ written[j] = reserved[j]

\* Variant: the credit at hand is not looked at.
ReserveOnCredit(j, size) ==
    /\ Request(j, size)
    /\ sample[j] # NoSample
    /\ remaining' = [remaining EXCEPT ![j] = @ - size]
    /\ reserved' = [reserved EXCEPT ![j] = @ + size]
    /\ UNCHANGED <<epochVars, lease, pc, sample, funded, pending, diskVars>>

Reserve(j, size) ==
    /\ Request(j, size)
    /\ sample[j] # NoSample /\ size <= remaining[j]
    /\ remaining' = [remaining EXCEPT ![j] = @ - size]
    /\ reserved' = [reserved EXCEPT ![j] = @ + size]
    /\ UNCHANGED <<epochVars, lease, pc, sample, funded, pending, diskVars>>

\* The sample is 30 s old, with credit at hand (reserve), also under an
\* ensure() that asks for nothing: it is taken again.
Resample(j, size) ==
    /\ pc[j] = "idle" /\ (Request(j, size) \/ size = 0)
    /\ sample[j] # NoSample /\ size <= remaining[j]
    /\ sample' = [sample EXCEPT ![j] = DiskFree]
    /\ IF DiskFree < size + Headroom
       THEN pc' = [pc EXCEPT ![j] = "failed"] /\ UNCHANGED <<remaining, reserved>>
       ELSE /\ remaining' = [remaining EXCEPT ![j] = @ - size]
            /\ reserved' = [reserved EXCEPT ![j] = @ + size]
            /\ UNCHANGED pc
    /\ UNCHANGED <<epochVars, lease, funded, pending, diskVars>>

\* _fund up to the registry: the sample, unless it is younger than 30 s, and
\* the lease of a first claim.
FundSample(j, size) ==
    /\ Request(j, size)
    /\ sample[j] = NoSample \/ size > remaining[j]
    /\ \/ sample' = [sample EXCEPT ![j] = DiskFree]
       \/ sample[j] # NoSample /\ UNCHANGED sample
    /\ lease' = [lease EXCEPT ![j] = TRUE]
    /\ pending' = [pending EXCEPT ![j] = size]
    /\ pc' = [pc EXCEPT ![j] = "fund"]
    /\ UNCHANGED <<epochVars, funded, remaining, reserved, diskVars>>

\* disk_usage, the lease or the registry fails: the latch.
FundFailed(j) ==
    /\ pc[j] = "fund"
    /\ pc' = [pc EXCEPT ![j] = "failed"]
    /\ UNCHANGED <<epochVars, lease, budgetVars, diskVars>>

Available(data, free) ==
    LET charged == data.spent + Claimed(data)
        unclaimed == IF charged >= data.free THEN 0 ELSE data.free - charged
    IN  IF free < unclaimed THEN free ELSE unclaimed

\* The rest of _fund: claim.add under the registry's lock, then the credit.
FundClaim(j) ==
    LET data == Load(j, sample[j])
        first == funded[j] = 0
        missing == IF pending[j] > remaining[j] THEN pending[j] - remaining[j] ELSE 0
        minimum == missing + (IF first THEN Headroom ELSE 0)
        window == IF 0 < Hint[j] /\ Hint[j] <= sample[j] THEN Hint[j] ELSE Window
        wish == IF first THEN window + Headroom ELSE Window
        preferred == IF wish > minimum THEN wish ELSE minimum
        available == Available(data, sample[j])
        amount == IF preferred < available THEN preferred ELSE available
        before == IF j \in DOMAIN data.claims THEN data.claims[j] ELSE 0
        newEpoch == DOMAIN data.claims = {}
    IN  /\ pc[j] = "fund"
        /\ before = funded[j] /\ available >= minimum
        /\ registry' = [data EXCEPT !.claims = [k \in DOMAIN @ \union {j} |->
                            IF k = j THEN before + amount ELSE @[k]]]
        /\ members' = IF newEpoch THEN {j} ELSE members \union {j}
        /\ honest' = IF newEpoch THEN data.free <= DiskFree ELSE honest
        /\ funded' = [funded EXCEPT ![j] = @ + amount]
        /\ remaining' = [remaining EXCEPT ![j] =
                            @ + amount - (IF first THEN Headroom ELSE 0) - pending[j]]
        /\ reserved' = [reserved EXCEPT ![j] = @ + pending[j]]
        /\ pending' = [pending EXCEPT ![j] = 0]
        /\ pc' = [pc EXCEPT ![j] = "idle"]
        /\ UNCHANGED <<lease, sample, diskVars>>

-----------------------------------------------------------------------------
(* Writing, release, close *)

Write(j) ==
    /\ pc[j] = "idle" /\ written[j] < reserved[j] /\ DiskFree > 0
    /\ written' = [written EXCEPT ![j] = @ + 1]
    /\ UNCHANGED <<epochVars, lease, pc, budgetVars, kept, foreign>>

\* ENOSPC: fail() closes the admission of the batch.
DiskFull(j) ==
    /\ pc[j] = "idle" /\ written[j] < reserved[j] /\ DiskFree = 0
    /\ pc' = [pc EXCEPT ![j] = "failed"]
    /\ UNCHANGED <<epochVars, lease, budgetVars, diskVars>>

\* The transfer ends with `stays` of its blocks on disk, and tells release()
\* how many: the blocks that stay, those there were before a partial was
\* discarded, or the whole charge when chunk scratch could not be removed.
Release(j, stays, retained) ==
    /\ pc[j] \in {"idle", "failed"} /\ reserved[j] > 0
    /\ retained \in {stays, written[j], reserved[j]}
    /\ remaining' = [remaining EXCEPT ![j] =
                        @ + (IF reserved[j] > retained THEN reserved[j] - retained ELSE 0)]
    /\ reserved' = [reserved EXCEPT ![j] = 0]
    /\ written' = [written EXCEPT ![j] = 0]
    /\ kept' = [kept EXCEPT ![j] = @ + stays]
    /\ UNCHANGED <<epochVars, lease, pc, sample, funded, pending, foreign>>

\* The budget is used no more, the lease is free; what is on disk stays.
Gone(j) ==
    /\ lease' = [lease EXCEPT ![j] = FALSE]
    /\ sample' = [sample EXCEPT ![j] = NoSample]
    /\ funded' = [funded EXCEPT ![j] = 0]
    /\ remaining' = [remaining EXCEPT ![j] = 0]
    /\ pending' = [pending EXCEPT ![j] = 0]
    /\ reserved' = [reserved EXCEPT ![j] = 0]
    /\ written' = [written EXCEPT ![j] = 0]
    /\ kept' = [kept EXCEPT ![j] = @ + written[j]]

Retained(j) ==
    LET used == remaining[j] + Headroom
    IN  IF funded[j] > used THEN funded[j] - used ELSE 0

\* close: the workers have drained. A registry that cannot be updated leaves
\* the claim behind, abandoned.
Close(j) ==
    LET data == Load(j, 0)
        retire == [data EXCEPT !.spent = @ + Retained(j),
                               !.claims = Restricted(@, DOMAIN @ \ {j})]
    IN  /\ pc[j] \in {"idle", "failed"} /\ reserved[j] = 0
        /\ \/ funded[j] > 0 /\ j \in DOMAIN data.claims /\ registry' = retire
           \/ UNCHANGED registry
        /\ Gone(j)
        /\ pc' = [pc EXCEPT ![j] = "closed"]
        /\ UNCHANGED <<members, honest, foreign>>

Crash(j) ==
    /\ pc[j] \in {"idle", "fund", "failed"}
    /\ pc' = [pc EXCEPT ![j] = "dead"]
    /\ Gone(j)
    /\ UNCHANGED <<epochVars, foreign>>

\* A program that does not cooperate writes a block.
ForeignWrite ==
    /\ foreign < MaxForeign /\ DiskFree > 0
    /\ foreign' = foreign + 1
    /\ honest' = FALSE
    /\ UNCHANGED <<registry, members, lease, pc, budgetVars, written, kept>>

JobStep(j) ==
    \/ \E size \in Sizes \union {0, 1} : Reserve(j, size) \/ Resample(j, size) \/ FundSample(j, size)
    \/ FundFailed(j) \/ FundClaim(j)
    \/ Write(j) \/ DiskFull(j)
    \/ \E stays \in 0..written[j], retained \in 0..reserved[j] : Release(j, stays, retained)
    \/ Close(j) \/ Crash(j)

Next == ForeignWrite \/ \E j \in Job : JobStep(j)

Spec == Init /\ [][Next]_vars

-----------------------------------------------------------------------------
(* Properties *)

Alive(j) == pc[j] \in {"idle", "fund", "failed"}

\* Every variable has its type; no counter of a budget goes below zero.
TypeOK ==
    /\ \/ registry = NoRegistry
       \/ /\ DOMAIN registry = {"free", "spent", "claims"}
          /\ registry.free \in 0..Capacity /\ registry.spent \in Nat
          /\ DOMAIN registry.claims \subseteq Job
          /\ \A j \in DOMAIN registry.claims : registry.claims[j] \in Nat
    /\ lease \in [Job -> BOOLEAN]
    /\ pc \in [Job -> {"idle", "fund", "failed", "closed", "dead"}]
    /\ sample \in [Job -> 0..Capacity \union {NoSample}]
    /\ \A f \in {funded, remaining, pending, reserved, written, kept} : f \in [Job -> Nat]
    /\ foreign \in 0..MaxForeign
    /\ members \subseteq Job /\ honest \in BOOLEAN

\* The claims of the live jobs and what the retired ones left never exceed
\* the sample the epoch began with, whoever crashes between two sections.
EpochWithinSample ==
    registry # NoRegistry => registry.spent + Claimed(registry) <= registry.free

\* The registry holds exactly what a live job believes it has: no other job
\* takes it for abandoned, so "Capacity claim changed unexpectedly" is never
\* raised.
LiveClaimKept ==
    \A j \in Job : Alive(j) /\ funded[j] > 0 =>
        /\ j \in DOMAIN registry.claims
        /\ registry.claims[j] = funded[j]

\* What the jobs of an epoch have put on disk is charged in its registry
\* until the epoch ends: "later jobs do not count written bytes twice".
WrittenIsCharged ==
    registry # NoRegistry =>
        Total([j \in Job |-> written[j] + kept[j]], members) <= registry.spent + Claimed(registry)

\* Reservations that are not written yet, of all the live jobs.
Outstanding ==
    Total([j \in Job |-> IF Alive(j) THEN reserved[j] - written[j] ELSE 0], Job)

\* In an epoch whose first sample was right when the epoch began, what the
\* jobs may still write fits the disk: they never meet ENOSPC on their own.
HonestEpochFits == honest => Outstanding <= DiskFree
=============================================================================
