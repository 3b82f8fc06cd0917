--------------------------- MODULE Mirroring_proofs ---------------------------
(***************************************************************************)
(* Theorems about Mirroring: that a complete scan has read what it claims  *)
(* to know, that a walk is the breadth-first walk, what a clean-up may     *)
(* remove, that success means a mirror, and that asynchronous checks       *)
(* decide about every file once.                                           *)
(***************************************************************************)
EXTENDS Mirroring, FiniteSetTheorems, SequenceTheorems, WellFoundedInduction, TLAPS

-----------------------------------------------------------------------------
(* The inductive invariant of the asynchronous checks *)

Stages ==
    {"none", "local", "asking", "pacing", "waiting", "flying", "resting", "backoff", "submitted",
     "checking", "probing", "current", "fetch"}

HeadTypes(c) ==
    /\ headPc \in {"enter", "profile", "batch", "sync", "done"}
    /\ first \in Nat \ {0}
    /\ stage \in [Heads(c)!File -> Stages] /\ queued \in [Heads(c)!File -> Nat]
    /\ conc \in Nat /\ pending \in Nat /\ headLimit \in Nat

\* The file has its place: in the list, or among those that are current.
Decided(f) == (queued[f] = 1 /\ stage[f] = "fetch") \/ (queued[f] = 0 /\ stage[f] = "current")

\* The file is not in the list and its check has not begun.
Untouched(f) == queued[f] = 0 /\ stage[f] = "none"

\* How far the check of each file is at each step of the batches.
DecisionInv(c) ==
    /\ headPc \in {"enter", "profile"} => first = 1
    /\ \A f \in Heads(c)!File :
          /\ headPc = "enter" => Untouched(f)
          /\ headPc = "profile" => queued[f] = 0 /\ stage[f] \in {"none", "local"}
          /\ headPc \in {"profile", "batch"} /\ first + HeadSetting[c].BatchSize <= f =>
                 stage[f] = "none"
          /\ headPc \in {"batch", "sync"} /\ f < first => Decided(f)
          /\ headPc = "batch" /\ first <= f => queued[f] = 0
          /\ headPc = "sync" /\ first <= f => Decided(f) \/ Untouched(f)
          /\ headPc = "done" => Decided(f)

\* Only what was vouched for is current.
VouchedInv(c) == \A f \in Heads(c)!File : stage[f] = "current" => f \in vouched

\* The semaphore's limit is the concurrency in force and is kept.
LimitInv(c) ==
    /\ headPc = "profile" => HeadSetting[c].Adaptive
    /\ headLimit = IF HeadSetting[c].Adaptive THEN conc ELSE HeadSetting[c].MaxAt
    /\ Cardinality(Heads(c)!Holders) <= headLimit

HeadInv(c) == HeadTypes(c) /\ DecisionInv(c) /\ VouchedInv(c) /\ LimitInv(c)

-----------------------------------------------------------------------------
(* The inductive invariant of the walk *)

\* A listing of each directory, or one of the marks instead.
Lists(w, g, marks) ==
    /\ g = [d \in Setting[w].Dir |-> g[d]]
    /\ \A d \in Setting[w].Dir : g[d] \in Setting[w].Pages[d] \union marks

WalkTypes(w) ==
    /\ pc \in {"idle", "walk", "collect", "done", "aborted"}
    /\ Lists(w, page, {}) /\ Lists(w, cache, {NoPage})
    /\ Lists(w, fetched, {NoPage, Queued, Unread})
    /\ Lists(w, used, {NoPage}) /\ Lists(w, walked, {NoPage})
    /\ queue \in Seq([dir: Setting[w].Dir, depth: Nat])
    /\ batch \in Seq([dir: Setting[w].Dir, depth: Nat])
    /\ processed \subseteq Setting[w].Dir /\ protected \subseteq Setting[w].Dir
    /\ found \in Seq(Setting[w].Dir) /\ next \in Nat \ {0}
    /\ remote \subseteq Setting[w].File /\ incomplete \in BOOLEAN

\* The directories that are still to be visited, with their depths.
Elements(sequence) == {sequence[i] : i \in 1..Len(sequence)}
Waiting == Elements(batch) \union Elements(queue)

\* What the scan has found by now is what the run goes by.
Scanning == {"walk", "collect", "done"}

\* Nothing waits outside the walk, nothing excluded or too deep waits, and
\* where links lead down nothing waits longer than its path is.
QueueInv(w) ==
    /\ pc # "walk" => queue = <<>> /\ batch = <<>>
    /\ \A x \in Waiting :
          /\ ~Mirror(w)!IsExcluded(x.dir) /\ x.depth <= Setting[w].MaxDepth
          /\ Mirror(w)!LinksLeadDown => x.depth <= Mirror(w)!PathDepth(x.dir)

\* Each directory is found once.
FoundInv(w) ==
    /\ \A i, j \in 1..Len(found) : found[i] = found[j] => i = j
    /\ Mirror(w)!FoundDirs \subseteq processed
    /\ pc \in Scanning => processed \subseteq Mirror(w)!FoundDirs \union protected

\* What a page that was entered names is visited, excluded, or waits; the
\* pages of a complete walk are read unless they are at the depth limit.
PagesInv(w) ==
    /\ \A d \in Setting[w].Dir : walked[d] # NoPage => d \in processed
    /\ pc \in Scanning =>
          \A d \in Mirror(w)!FoundDirs : walked[d] # NoPage =>
              \A e \in walked[d] \intersect Setting[w].Dir :
                  \/ e \in processed \/ Mirror(w)!IsExcluded(e)
                  \/ \E x \in Waiting : x.dir = e
    /\ pc \in Scanning /\ ~incomplete /\ Mirror(w)!LinksLeadDown =>
          \A d \in Mirror(w)!FoundDirs :
              walked[d] = NoPage => Setting[w].MaxDepth <= Mirror(w)!PathDepth(d)

\* The root is found, or all that waits.
RootInv(w) ==
    pc \in Scanning /\ ~Mirror(w)!IsExcluded(Setting[w].Root) =>
        \/ Setting[w].Root \in Mirror(w)!FoundDirs
        \/ processed = {} /\ Waiting # {} /\ \A x \in Waiting : x.dir = Setting[w].Root

\* Signatures are those of directories that were entered.
SeenInv(w) ==
    \A pair \in seen :
        \E e \in Mirror(w)!FoundDirs :
            walked[e] # NoPage /\ pair[1] = Mirror(w)!Signature(walked[e])

\* The second pass goes through the found directories once, and what it has
\* read is what it has collected.
CollectInv(w) ==
    /\ pc = "walk" =>
          next = 1 /\ remote = {} /\ \A d \in Setting[w].Dir : used[d] = NoPage
    /\ \A f \in remote : \E d \in Mirror(w)!FoundDirs : used[d] # NoPage /\ f \in used[d]
    /\ \A d \in Setting[w].Dir :
          used[d] # NoPage => used[d] \intersect Setting[w].File \subseteq remote
    /\ pc = "collect" =>
          \A i \in 1..Len(found) : next <= i => used[found[i]] = NoPage
    /\ pc \in {"collect", "done"} /\ ~incomplete =>
          \A i \in 1..Len(found) : i < next => used[found[i]] # NoPage
    /\ pc = "done" /\ Setting[w].LinkMode # "detect" => Len(found) < next

WalkInv(w) ==
    /\ WalkTypes(w) /\ QueueInv(w) /\ FoundInv(w) /\ PagesInv(w) /\ RootInv(w) /\ SeenInv(w)
    /\ Mirror(w)!LinkHasItsTarget /\ CollectInv(w)

-----------------------------------------------------------------------------
(* The inductive invariant of a run *)

\* The clean-up's business.
Obsolete(w) == {f \in local \ remote : Mirror(w)!FileSelected(f)}

\* How far the run is.
PhaseInv(w) ==
    /\ phase \in {"idle", "scan", "check", "load", "clean", "prune", "end"}
    /\ local \subseteq Setting[w].File
    /\ failed \in BOOLEAN /\ cleanFailed \in BOOLEAN /\ declined \in BOOLEAN
    /\ phase \in {"check", "load", "clean", "prune"} =>
          pc = "done" /\ Setting[w].LinkMode # "detect"
    /\ phase \in {"load", "prune"} => ~Setting[w].DryRun
    /\ phase = "prune" => ~incomplete /\ Setting[w].Policy \in {"delete", "move"}
    /\ phase \in {"scan", "check", "load", "clean"} => removed = {}
    /\ active # {} => phase = "load"
    /\ active \subseteq Setting[w].File /\ todo \subseteq Setting[w].File
    /\ result = "success" => phase = "end"

\* Unless something failed, a listed file is in the tree or on its way to it.
LoadInv(w) ==
    /\ phase \in {"load", "clean", "prune"} => unchecked = {}
    /\ phase \in {"clean", "prune"} /\ ~Setting[w].DryRun => todo = {}
    /\ phase \in {"check", "load", "clean", "prune"} /\ ~failed =>
          remote \subseteq local \union unchecked \union todo \union active

\* The clean-up removes what is its business, and nothing is left unless it
\* failed.
CleanInv(w) ==
    phase = "prune" =>
        obsolete \subseteq Obsolete(w) /\ (~cleanFailed => Obsolete(w) \subseteq obsolete)

RunInv(w) ==
    /\ PhaseInv(w) /\ LoadInv(w) /\ CleanInv(w)
    /\ Mirror(w)!NoTreeIsCutOff /\ Mirror(w)!SuccessMirrors
    /\ Mirror(w)!LinksLeadDown => Mirror(w)!RemovedWasAbsent

-----------------------------------------------------------------------------
IInv ==
    /\ \A w \in Mirrors : part = w => WalkInv(w)
    /\ \A w \in Syncs : part = w => RunInv(w)
    /\ \A c \in Checks : part = c => HeadInv(c)

-----------------------------------------------------------------------------
(* The checks *)

LEMMA HeadConstants ==
    ASSUME NEW c \in Checks
    PROVE  /\ HeadSetting[c].Files \in Nat /\ HeadSetting[c].BatchSize \in Nat \ {0}
           /\ HeadSetting[c].MaxAt \in Nat \ {0}
           /\ HeadSetting[c].StartAt \in 1..HeadSetting[c].MaxAt
           /\ HeadSetting[c].Adaptive \in BOOLEAN
           /\ Heads(c)!File = 1..HeadSetting[c].Files
           /\ Heads(c)!File \subseteq Nat
  <1>1. Heads(c)!HeadsAssumption
    BY PartsAssumption
  <1> QED
    BY <1>1 DEF Heads!HeadsAssumption, Heads!File

\* AsyncHeads counts with the operator of its own instance of FiniteSets.
LEMMA HeadCounts == \A c, S : Heads(c)!Cardinality(S) = Cardinality(S)
  BY DEF Heads!Cardinality, Cardinality

\* With nobody in the semaphore, nobody exceeds its limit.
LEMMA NobodyHolds ==
    ASSUME NEW c \in Checks, \A f \in Heads(c)!File : stage[f] \notin Heads(c)!Holding
    PROVE  Cardinality(Heads(c)!Holders) = 0
  <1>1. Heads(c)!Holders = {}
    BY DEF Heads!Holders
  <1> QED
    BY <1>1, FS_EmptySet

LEMMA HeadInitially ==
    ASSUME NEW c \in Checks, Heads(c)!Init
    PROVE  HeadInv(c)
  <1> USE HeadConstants
  <1>1. HeadTypes(c)
    BY DEF Heads!Init, Heads!Fresh, HeadTypes, Stages
  <1>2. DecisionInv(c)
    BY DEF Heads!Init, Heads!Fresh, DecisionInv, Untouched
  <1>3. VouchedInv(c)
    BY DEF Heads!Init, Heads!Fresh, VouchedInv
  <1>4. \A f \in Heads(c)!File : stage[f] \notin Heads(c)!Holding
    BY DEF Heads!Init, Heads!Fresh, Heads!Holding
  <1>5. Cardinality(Heads(c)!Holders) = 0
    BY <1>4, NobodyHolds
  <1>6. LimitInv(c)
    BY <1>5 DEF Heads!Init, LimitInv
  <1> QED
    BY <1>1, <1>2, <1>3, <1>6 DEF HeadInv

\* One check goes from one stage to another that is not the first.
Advances(c, f, to) ==
    /\ stage[f] \notin {"none", "current", "fetch"}
    /\ stage[f] = "local" => headPc = "batch"
    /\ to \in Stages \ {"none", "local"} /\ stage' = [stage EXCEPT ![f] = to]
    /\ to \in Heads(c)!Holding =>
           stage[f] \in Heads(c)!Holding \/ Cardinality(Heads(c)!Holders) < headLimit
    /\ vouched \subseteq vouched' /\ (to = "current" => f \in vouched')
    /\ UNCHANGED <<headPc, first, queued, conc, headLimit>>
    /\ pending' \in Nat

LEMMA AdvanceKeeps ==
    ASSUME NEW c \in Checks, HeadInv(c), NEW f \in Heads(c)!File, NEW to, Advances(c, f, to)
    PROVE  HeadInv(c)'
  <1> USE HeadConstants
  <1>t. HeadTypes(c)
    BY DEF HeadInv
  <1>d. DecisionInv(c)
    BY DEF HeadInv
  <1>1. \A g \in Heads(c)!File : stage'[g] = IF g = f THEN to ELSE stage[g]
    BY <1>t DEF Advances, HeadTypes
  <1>2. to \in Stages \ {"none", "local"}
    BY DEF Advances
  <1>3. UNCHANGED <<headPc, first, queued, conc, headLimit>>
    BY DEF Advances
  <1>4. HeadTypes(c)'
    BY <1>t DEF Advances, HeadTypes
  <1>5. stage[f] \notin {"none", "current", "fetch"} /\ (stage[f] = "local" => headPc = "batch")
    BY DEF Advances
  <1>6. headPc = "batch" /\ first <= f /\ f < first + HeadSetting[c].BatchSize /\ f \in Nat
    BY <1>t, <1>d, <1>5 DEF DecisionInv, Decided, Untouched, HeadTypes
  <1>7. DecisionInv(c)'
    BY <1>t, <1>d, <1>1, <1>2, <1>3, <1>6 DEF DecisionInv, Decided, Untouched, HeadTypes
  <1>8. VouchedInv(c)'
    BY <1>1 DEF HeadInv, VouchedInv, Advances
  <1>9. LimitInv(c)'
    <2>1. IsFiniteSet(Heads(c)!Holders)
      <3>1. IsFiniteSet(1..HeadSetting[c].Files)
        BY FS_Interval
      <3>2. Heads(c)!Holders \subseteq 1..HeadSetting[c].Files
        BY DEF Heads!Holders
      <3> QED
        BY <3>1, <3>2, FS_Subset
    <2>2. CASE to \in Heads(c)!Holding /\ stage[f] \notin Heads(c)!Holding
      <3>1. Heads(c)!Holders' = Heads(c)!Holders \union {f} /\ f \notin Heads(c)!Holders
        BY <1>1, <2>2 DEF Heads!Holders, Heads!Holding
      <3>2. Cardinality(Heads(c)!Holders') = Cardinality(Heads(c)!Holders) + 1
        BY <2>1, <3>1, FS_AddElement
      <3>3. Cardinality(Heads(c)!Holders) < headLimit /\ Cardinality(Heads(c)!Holders) \in Nat
        BY <2>1, <2>2, FS_CardinalityType DEF Advances
      <3> QED
        BY <1>3, <1>t, <3>2, <3>3 DEF HeadInv, LimitInv, HeadTypes
    <2>3. CASE ~(to \in Heads(c)!Holding /\ stage[f] \notin Heads(c)!Holding)
      <3>1. Heads(c)!Holders' \subseteq Heads(c)!Holders
        BY <1>1, <2>3 DEF Heads!Holders, Heads!Holding
      <3>2. Cardinality(Heads(c)!Holders') <= Cardinality(Heads(c)!Holders)
        BY <2>1, <3>1, FS_Subset
      <3>3. IsFiniteSet(Heads(c)!Holders')
        BY <2>1, <3>1, FS_Subset
      <3>4. Cardinality(Heads(c)!Holders) \in Nat /\ Cardinality(Heads(c)!Holders') \in Nat
        BY <2>1, <3>3, FS_CardinalityType
      <3> QED
        BY <1>3, <1>t, <3>2, <3>4 DEF HeadInv, LimitInv, HeadTypes
    <2> QED
      BY <2>2, <2>3
  <1> QED
    BY <1>4, <1>7, <1>8, <1>9 DEF HeadInv

\* What the rate of failures does to the concurrency waits for the next batch.
LEMMA RescaleKeepsPending ==
    ASSUME NEW c \in Checks, HeadTypes(c), NEW success, Heads(c)!RecordResult(success)
    PROVE  conc' = conc /\ pending' \in Nat
  <1> USE HeadConstants
  <1>1. conc \in Nat /\ pending \in Nat
    BY DEF HeadTypes
  <1>2. ASSUME NEW rate, NEW rtt, Heads(c)!Rescale(rate, rtt)
        PROVE  conc' = conc /\ pending' \in Nat
    <2>1. conc' = conc
      BY <1>2 DEF Heads!Rescale
    <2>2. \/ pending' = pending
          \/ pending' = conc + 2 \/ pending' = HeadSetting[c].MaxAt
          \/ pending' = conc \div 2 \/ pending' = HeadSetting[c].StartAt
          \/ pending' = conc - 1 /\ conc > HeadSetting[c].StartAt
      BY <1>2 DEF Heads!Rescale
    <2>3. conc \div 2 \in Nat
      BY <1>1
    <2> QED
      BY <1>1, <2>1, <2>2, <2>3
  <1> QED
    BY <1>1, <1>2 DEF Heads!RecordResult, Heads!scaleVars

LEMMA ProgressAdvances ==
    ASSUME NEW c \in Checks, HeadInv(c), NEW f \in Heads(c)!File, Heads(c)!Progress(f),
           ~Heads(c)!LateAnswer(f), ~Heads(c)!SyncCheck(f)
    PROVE  \E to : Advances(c, f, to)
  <1> USE DEF Heads!AtStage, Heads!scaleVars, Heads!checkVars, Heads!Holding, Stages
  <1>t. HeadTypes(c) /\ pending \in Nat
    BY DEF HeadInv, HeadTypes
  <1>1. CASE Heads(c)!CheckLocal(f)
    <2>1. PICK to \in {"fetch", "current", "asking"} :
              /\ stage[f] = "local" /\ stage' = [stage EXCEPT ![f] = to]
              /\ to = "current" => f \in vouched'
      BY <1>1 DEF Heads!CheckLocal, Heads!LocalOutcome
    <2>2. vouched \subseteq vouched'
      BY <1>1 DEF Heads!CheckLocal
    <2>3. headPc = "batch" /\ UNCHANGED <<headPc, first, queued, conc, headLimit, pending>>
      BY <1>1 DEF Heads!CheckLocal
    <2> QED
      BY <1>t, <2>1, <2>2, <2>3 DEF Advances
  <1>2. CASE Heads(c)!Ask(f)
    <2>1. PICK to \in {"pacing", "submitted"} : Heads(c)!AtStage(f, "asking", to)
      BY <1>2 DEF Heads!Ask
    <2> QED
      BY <1>2, <1>t, <2>1 DEF Heads!Ask, Advances
  <1>3. CASE Heads(c)!Pace(f)
    BY <1>3, <1>t DEF Heads!Pace, Advances
  <1>4. CASE Heads(c)!Retry(f)
    <2>1. PICK to \in {"flying", "pacing"} :
              /\ stage[f] \in {"resting", "backoff"} /\ stage' = [stage EXCEPT ![f] = to]
              /\ to = "flying" => stage[f] = "resting"
      BY <1>4 DEF Heads!Retry
    <2> QED
      BY <1>4, <1>t, <2>1 DEF Heads!Retry, Advances
  <1>5. CASE Heads(c)!Answered(f)
    <2>1. PICK outcome \in Heads(c)!Outcomes :
              /\ Heads(c)!AtStage(f, "flying", IF outcome = "current" THEN "current" ELSE "fetch")
              /\ Heads(c)!Vouch(f, outcome)
      BY <1>5 DEF Heads!Answered
    <2>2. conc' = conc /\ pending' \in Nat
      BY <1>5, <1>t, RescaleKeepsPending DEF Heads!Answered
    <2>3. UNCHANGED <<headPc, first, queued, headLimit>>
      BY <1>5 DEF Heads!Answered
    <2> QED
      BY <2>1, <2>2, <2>3 DEF Heads!Vouch, Advances
  <1>6. CASE Heads(c)!AnsweredInPart(f)
    <2>1. PICK to \in {"probing", "submitted"} : Heads(c)!AtStage(f, "flying", to)
      BY <1>6 DEF Heads!AnsweredInPart
    <2>2. conc' = conc /\ pending' \in Nat
      BY <1>6, <1>t, RescaleKeepsPending DEF Heads!AnsweredInPart
    <2> QED
      BY <1>6, <2>1, <2>2 DEF Heads!AnsweredInPart, Advances
  <1>7. CASE Heads(c)!StartCheck(f)
    BY <1>7, <1>t DEF Heads!StartCheck, Advances
  <1>8. CASE Heads(c)!CheckAnswered(f)
    <2>1. PICK outcome \in Heads(c)!Outcomes, from \in Heads(c)!InExecutor :
              /\ Heads(c)!AtStage(f, from, IF outcome = "current" THEN "current" ELSE "fetch")
              /\ Heads(c)!Vouch(f, outcome)
      BY <1>8 DEF Heads!CheckAnswered
    <2> QED
      BY <1>8, <1>t, <2>1 DEF Heads!CheckAnswered, Heads!InExecutor, Heads!Vouch, Advances
  <1> QED
    BY <1>1, <1>2, <1>3, <1>4, <1>5, <1>6, <1>7, <1>8 DEF Heads!Progress

LEMMA TroubleAdvances ==
    ASSUME NEW c \in Checks, HeadInv(c), NEW f \in Heads(c)!File, Heads(c)!Trouble(f)
    PROVE  \E to : Advances(c, f, to)
  <1> USE DEF Heads!AtStage, Heads!scaleVars, Heads!checkVars, Heads!Holding, Stages
  <1>t. HeadTypes(c) /\ pending \in Nat
    BY DEF HeadInv, HeadTypes
  <1>1. CASE Heads(c)!Refused(f)
    <2>1. PICK to \in {"resting", "submitted"} : Heads(c)!AtStage(f, "flying", to)
      BY <1>1 DEF Heads!Refused
    <2>2. conc' = conc /\ pending' \in Nat
      BY <1>1, <1>t, RescaleKeepsPending DEF Heads!Refused
    <2> QED
      BY <1>1, <2>1, <2>2 DEF Heads!Refused, Advances
  <1>2. CASE Heads(c)!Broke(f)
    <2>1. PICK to \in {"resting", "backoff"} : Heads(c)!AtStage(f, "flying", to)
      BY <1>2 DEF Heads!Broke
    <2> QED
      BY <1>2, <1>t, <2>1 DEF Heads!Broke, Advances
  <1>3. CASE Heads(c)!HeadFails(f)
    <2>1. conc' = conc /\ pending' \in Nat
      BY <1>3, <1>t, RescaleKeepsPending DEF Heads!HeadFails
    <2> QED
      BY <1>3, <2>1 DEF Heads!HeadFails, Advances
  <1>4. CASE Heads(c)!HeadDeadline(f)
    BY <1>4, <1>t DEF Heads!HeadDeadline, Heads!InHead, Advances
  <1>5. CASE Heads(c)!Deadline(f)
    BY <1>5, <1>t DEF Heads!Deadline, Heads!Ended, Advances
  <1> QED
    BY <1>1, <1>2, <1>3, <1>4, <1>5 DEF Heads!Trouble

LEMMA AdmitAdvances ==
    ASSUME NEW c \in Checks, HeadInv(c), NEW f \in Heads(c)!File, Heads(c)!Admit(f)
    PROVE  Advances(c, f, "flying")
  <1>1. /\ stage[f] = "waiting" /\ stage' = [stage EXCEPT ![f] = "flying"]
        /\ Cardinality(Heads(c)!Holders) < headLimit
    BY HeadCounts DEF Heads!Admit, Heads!AtStage
  <1>2. UNCHANGED <<headPc, first, queued, vouched, conc, pending, headLimit>>
    BY DEF Heads!Admit, Heads!scaleVars
  <1>3. pending \in Nat
    BY DEF HeadInv, HeadTypes
  <1> QED
    BY <1>1, <1>2, <1>3 DEF Stages, Advances

\* A late answer, the clock and the cooldown decide nothing.
LEMMA HeadStutters ==
    ASSUME NEW c \in Checks, HeadInv(c),
           UNCHANGED <<headPc, first, stage, queued, vouched, conc, pending, headLimit>>
    PROVE  HeadInv(c)'
  BY DEF HeadInv, HeadTypes, DecisionInv, Decided, Untouched, VouchedInv, LimitInv, Heads!Holders

LEMMA SyncCheckKeeps ==
    ASSUME NEW c \in Checks, HeadInv(c), NEW f \in Heads(c)!File, Heads(c)!SyncCheck(f)
    PROVE  HeadInv(c)'
  <1> USE HeadConstants
  <1>t. HeadTypes(c) /\ DecisionInv(c) /\ VouchedInv(c) /\ LimitInv(c)
    BY DEF HeadInv
  <1>1. headPc = "sync" /\ first <= f /\ stage[f] = "none"
    BY DEF Heads!SyncCheck, Heads!Left
  <1>2. queued[f] = 0
    BY <1>1, <1>t DEF DecisionInv, Decided, Untouched
  <1>3. UNCHANGED <<headPc, first, conc, pending, headLimit>>
    BY DEF Heads!SyncCheck, Heads!scaleVars
  <1>4. \/ /\ stage' = [stage EXCEPT ![f] = "current"]
           /\ vouched' = vouched \union {f} /\ queued' = queued
        \/ /\ stage' = [stage EXCEPT ![f] = "fetch"]
           /\ vouched' = vouched
           /\ queued' = [g \in Heads(c)!File |-> IF g \in {f} THEN queued[g] + 1 ELSE queued[g]]
    BY DEF Heads!SyncCheck, Heads!Queue
  <1>5. \A g \in Heads(c)!File : g # f => stage'[g] = stage[g] /\ queued'[g] = queued[g]
    BY <1>4, <1>t DEF HeadTypes
  <1>6. \/ stage'[f] = "current" /\ queued'[f] = 0 /\ f \in vouched'
        \/ stage'[f] = "fetch" /\ queued'[f] = 1
    BY <1>2, <1>4, <1>t DEF HeadTypes
  <1>7. HeadTypes(c)'
    <2>1. queued' \in [Heads(c)!File -> Nat]
      BY <1>t, <1>4 DEF HeadTypes
    <2>2. stage' \in [Heads(c)!File -> Stages]
      BY <1>t, <1>4 DEF HeadTypes, Stages
    <2> QED
      BY <1>t, <1>3, <2>1, <2>2 DEF HeadTypes
  <1>8. DecisionInv(c)'
    BY <1>t, <1>1, <1>3, <1>5, <1>6 DEF DecisionInv, Decided, Untouched
  <1>9. VouchedInv(c)'
    BY <1>t, <1>4, <1>5, <1>6 DEF VouchedInv
  <1>10. Heads(c)!Holders' = Heads(c)!Holders
    BY <1>1, <1>5, <1>6 DEF Heads!Holders, Heads!Holding
  <1>11. LimitInv(c)'
    BY <1>t, <1>1, <1>3, <1>10 DEF LimitInv
  <1> QED
    BY <1>7, <1>8, <1>9, <1>11 DEF HeadInv

\* No check is in the semaphore.
Idle(c) == \A f \in Heads(c)!File : stage[f] \notin Heads(c)!Holding

\* Steps after which no check is in the semaphore keep its limit.
LEMMA IdleKeepsLimit ==
    ASSUME NEW c \in Checks, HeadTypes(c)', Idle(c)', (headPc = "profile" => HeadSetting[c].Adaptive)',
           (headLimit = IF HeadSetting[c].Adaptive THEN conc ELSE HeadSetting[c].MaxAt)'
    PROVE  LimitInv(c)'
  <1>1. Heads(c)!Holders' = {}
    BY DEF Heads!Holders, Idle
  <1>2. Cardinality(Heads(c)!Holders') = 0
    BY <1>1, FS_EmptySet
  <1> QED
    BY <1>2 DEF LimitInv, HeadTypes

LEMMA FallBackKeeps ==
    ASSUME NEW c \in Checks, HeadInv(c), Heads(c)!EnterFails \/ Heads(c)!ProfileFails
    PROVE  HeadInv(c)'
  <1> USE HeadConstants
  <1>t. HeadTypes(c) /\ LimitInv(c)
    BY DEF HeadInv
  <1>1. /\ headPc' = "sync" /\ first' = 1
        /\ queued' = [f \in Heads(c)!File |-> 0] /\ stage' = [f \in Heads(c)!File |-> "none"]
    BY DEF Heads!EnterFails, Heads!ProfileFails, Heads!FallBackWhole, Heads!Fresh
  <1>2. UNCHANGED <<conc, pending, headLimit>>
    BY DEF Heads!EnterFails, Heads!ProfileFails, Heads!scaleVars
  <1>3. HeadTypes(c)'
    BY <1>t, <1>1, <1>2 DEF HeadTypes, Stages
  <1>4. DecisionInv(c)'
    BY <1>1 DEF DecisionInv, Untouched
  <1>5. VouchedInv(c)' /\ Idle(c)'
    BY <1>1 DEF VouchedInv, Idle, Heads!Holding
  <1>6. LimitInv(c)'
    BY <1>t, <1>1, <1>2, <1>3, <1>5, IdleKeepsLimit DEF LimitInv
  <1> QED
    BY <1>3, <1>4, <1>5, <1>6 DEF HeadInv

LEMMA EnterKeeps ==
    ASSUME NEW c \in Checks, HeadInv(c), Heads(c)!Enter
    PROVE  HeadInv(c)'
  <1> USE HeadConstants
  <1>t. HeadTypes(c) /\ DecisionInv(c) /\ VouchedInv(c) /\ LimitInv(c)
    BY DEF HeadInv
  <1>1. /\ headPc = "enter" /\ first' = first /\ first = 1
        /\ headPc' \in {"profile", "batch"} /\ (headPc' = "profile" => HeadSetting[c].Adaptive)
    BY <1>t DEF Heads!Enter, DecisionInv
  <1>2. stage' = [f \in Heads(c)!File |-> IF f \in Heads(c)!Batch THEN "local" ELSE "none"]
    BY DEF Heads!Enter
  <1>3. UNCHANGED <<queued, vouched, conc, pending, headLimit>>
    BY DEF Heads!Enter, Heads!scaleVars
  <1>4. HeadTypes(c)'
    BY <1>t, <1>1, <1>2, <1>3 DEF HeadTypes, Stages
  <1>5. DecisionInv(c)'
    BY <1>t, <1>1, <1>2, <1>3 DEF DecisionInv, Untouched, Heads!Batch
  <1>6. VouchedInv(c)' /\ Idle(c)'
    BY <1>2 DEF VouchedInv, Idle, Heads!Holding
  <1>7. LimitInv(c)'
    BY <1>t, <1>1, <1>3, <1>4, <1>6, IdleKeepsLimit DEF LimitInv
  <1> QED
    BY <1>4, <1>5, <1>6, <1>7 DEF HeadInv

LEMMA ProfileKeeps ==
    ASSUME NEW c \in Checks, HeadInv(c), Heads(c)!ProfileServer
    PROVE  HeadInv(c)'
  <1> USE HeadConstants
  <1>t. HeadTypes(c) /\ DecisionInv(c) /\ VouchedInv(c) /\ LimitInv(c)
    BY DEF HeadInv
  <1>1. headPc = "profile" /\ headPc' = "batch" /\ UNCHANGED <<first, stage, queued, vouched, pending>>
    BY DEF Heads!ProfileServer, Heads!checkVars
  <1>2. headLimit' = conc'
    BY DEF Heads!ProfileServer
  <1>3. conc' \in Nat
    BY <1>t DEF Heads!ProfileServer, HeadTypes
  <1>4. HeadTypes(c)'
    BY <1>t, <1>1, <1>2, <1>3 DEF HeadTypes
  <1>5. DecisionInv(c)'
    BY <1>t, <1>1 DEF DecisionInv
  <1>6. VouchedInv(c)' /\ Idle(c)'
    BY <1>t, <1>1 DEF VouchedInv, Idle, DecisionInv, Heads!Holding
  <1>7. LimitInv(c)'
    BY <1>t, <1>1, <1>2, <1>4, <1>6, IdleKeepsLimit DEF LimitInv
  <1> QED
    BY <1>4, <1>5, <1>6, <1>7 DEF HeadInv

LEMMA BatchEndKeeps ==
    ASSUME NEW c \in Checks, HeadInv(c), Heads(c)!BatchEnds
    PROVE  HeadInv(c)'
  <1> USE HeadConstants
  <1> DEFINE N == HeadSetting[c].Files
             B == HeadSetting[c].BatchSize
  <1>t. HeadTypes(c) /\ DecisionInv(c) /\ VouchedInv(c) /\ LimitInv(c)
    BY DEF HeadInv
  <1>1. headPc = "batch" /\ \A f \in Heads(c)!Batch : stage[f] \in {"current", "fetch"}
    BY DEF Heads!BatchEnds, Heads!Ended
  <1>2. first' = IF first + B > N THEN N + 1 ELSE first + B
    BY DEF Heads!BatchEnds, Heads!AfterBatch
  <1>3. headPc' = IF first' > N THEN "done" ELSE "batch"
    BY DEF Heads!BatchEnds
  <1>4. stage' = [f \in Heads(c)!File |-> IF first' <= f /\ f < first' + B THEN "local" ELSE stage[f]]
    BY DEF Heads!BatchEnds
  <1>5. queued' = [f \in Heads(c)!File |->
                      IF f \in {g \in Heads(c)!Batch : stage[g] = "fetch"}
                      THEN queued[f] + 1 ELSE queued[f]]
    BY DEF Heads!BatchEnds, Heads!Queue
  <1>6. /\ conc' \in {conc, pending} /\ pending' \in {0, pending} /\ headLimit' \in {headLimit, pending}
        /\ (headLimit = IF HeadSetting[c].Adaptive THEN conc ELSE HeadSetting[c].MaxAt)'
    BY <1>t DEF Heads!BatchEnds, Heads!ApplyPending, LimitInv
  <1>7. vouched' = vouched
    BY DEF Heads!BatchEnds
  <1>8. first' \in Nat \ {0}
    BY <1>t, <1>2 DEF HeadTypes
  <1>9. HeadTypes(c)'
    BY <1>t, <1>3, <1>4, <1>5, <1>6, <1>8 DEF HeadTypes, Stages
  <1>10. \A f \in Heads(c)!File : first <= f /\ f < first + B <=> f \in Heads(c)!Batch
    BY DEF Heads!Batch
  <1>11. ASSUME NEW f \in Heads(c)!File
         PROVE  /\ f < first' => (Decided(f))'
                /\ first' <= f => queued'[f] = 0
                /\ first' + B <= f => stage'[f] = "none"
                /\ f < first' \/ f < first' + B \/ stage[f] = "none"
    <2>1. f \in Nat /\ f <= N /\ first \in Nat /\ B \in Nat /\ first' \in Nat
      BY <1>t, <1>8 DEF HeadTypes
    <2>2. CASE f < first
      <3>1. f < first' /\ f \notin Heads(c)!Batch
        BY <1>2, <1>10, <2>1, <2>2
      <3>2. stage'[f] = stage[f] /\ queued'[f] = queued[f] /\ Decided(f)
        BY <1>1, <1>4, <1>5, <1>t, <2>1, <2>2, <3>1 DEF DecisionInv
      <3> QED
        BY <2>1, <3>1, <3>2 DEF Decided
    <2>3. CASE first <= f /\ f < first + B
      <3>1. f < first' /\ f \in Heads(c)!Batch
        BY <1>2, <1>10, <2>1, <2>3
      <3>2. stage'[f] = stage[f] /\ stage[f] \in {"current", "fetch"} /\ queued[f] = 0
        BY <1>1, <1>4, <1>t, <2>1, <2>3, <3>1 DEF DecisionInv
      <3>3. queued'[f] = IF stage[f] = "fetch" THEN 1 ELSE 0
        BY <1>5, <3>1, <3>2
      <3> QED
        BY <2>1, <3>1, <3>2, <3>3 DEF Decided
    <2>4. CASE first + B <= f
      <3>1. first' = first + B /\ f \notin Heads(c)!Batch
        BY <1>2, <1>10, <2>1, <2>4
      <3>2. stage[f] = "none" /\ queued[f] = 0
        BY <1>1, <1>t, <2>1, <2>4 DEF DecisionInv
      <3>3. queued'[f] = 0 /\ (first' + B <= f => stage'[f] = "none")
        BY <1>4, <1>5, <2>1, <3>1, <3>2
      <3> QED
        BY <2>1, <2>4, <3>1, <3>2, <3>3
    <2> QED
      BY <2>1, <2>2, <2>3, <2>4
  <1>12. DecisionInv(c)'
    <2>1. headPc' = "done" => \A f \in Heads(c)!File : f < first'
      BY <1>3, <1>8
    <2> QED
      BY <1>3, <1>11, <2>1 DEF DecisionInv
  <1>13. VouchedInv(c)'
    BY <1>t, <1>4, <1>7 DEF VouchedInv
  <1>14. Idle(c)'
    <2> SUFFICES ASSUME NEW f \in Heads(c)!File
                 PROVE  stage'[f] \notin Heads(c)!Holding
      BY DEF Idle
    <2>1. stage'[f] \in {"local", "none", "current", "fetch"}
      BY <1>4, <1>8, <1>11 DEF Decided
    <2> QED
      BY <2>1 DEF Heads!Holding
  <1>15. LimitInv(c)'
    BY <1>3, <1>6, <1>9, <1>14, IdleKeepsLimit
  <1> QED
    BY <1>9, <1>12, <1>13, <1>15 DEF HeadInv

LEMMA TimeoutKeeps ==
    ASSUME NEW c \in Checks, HeadInv(c), Heads(c)!BatchTimeout
    PROVE  HeadInv(c)'
  <1> USE HeadConstants
  <1>t. HeadTypes(c) /\ DecisionInv(c) /\ VouchedInv(c) /\ LimitInv(c)
    BY DEF HeadInv
  <1>1. headPc = "batch" /\ headPc' = "sync" /\ first' = first
    BY DEF Heads!BatchTimeout
  <1>2. stage' = [f \in Heads(c)!File |-> IF f \in Heads(c)!Left THEN "none" ELSE stage[f]]
    BY DEF Heads!BatchTimeout
  <1>3. UNCHANGED <<queued, vouched, conc, pending, headLimit>>
    BY DEF Heads!BatchTimeout, Heads!scaleVars
  <1>4. HeadTypes(c)'
    BY <1>t, <1>1, <1>2, <1>3 DEF HeadTypes, Stages
  <1>5. \A f \in Heads(c)!File : stage'[f] = IF first <= f THEN "none" ELSE stage[f]
    BY <1>2 DEF Heads!Left
  <1>6. DecisionInv(c)'
    BY <1>t, <1>1, <1>3, <1>5 DEF DecisionInv, Decided, Untouched, HeadTypes
  <1>7. VouchedInv(c)'
    BY <1>t, <1>3, <1>5 DEF VouchedInv
  <1>8. Idle(c)'
    BY <1>t, <1>1, <1>5 DEF Idle, DecisionInv, Decided, HeadTypes, Heads!Holding
  <1>9. LimitInv(c)'
    BY <1>t, <1>1, <1>3, <1>4, <1>8, IdleKeepsLimit DEF LimitInv
  <1> QED
    BY <1>4, <1>6, <1>7, <1>9 DEF HeadInv

LEMMA SyncEndKeeps ==
    ASSUME NEW c \in Checks, HeadInv(c), Heads(c)!SyncEnds
    PROVE  HeadInv(c)'
  <1> USE HeadConstants
  <1>t. HeadTypes(c) /\ DecisionInv(c) /\ VouchedInv(c) /\ LimitInv(c)
    BY DEF HeadInv
  <1>1. headPc = "sync" /\ headPc' = "done" /\ \A f \in Heads(c)!File : first <= f => stage[f] # "none"
    BY DEF Heads!SyncEnds, Heads!Left, Heads!Ended
  <1>2. UNCHANGED <<first, stage, queued, vouched, conc, pending, headLimit>>
    BY DEF Heads!SyncEnds, Heads!checkVars, Heads!scaleVars
  <1>3. HeadTypes(c)' /\ VouchedInv(c)'
    BY <1>t, <1>1, <1>2 DEF HeadTypes, VouchedInv
  <1>4. DecisionInv(c)'
    BY <1>t, <1>1, <1>2 DEF DecisionInv, Decided, Untouched, HeadTypes
  <1>5. LimitInv(c)'
    BY <1>t, <1>1, <1>2 DEF LimitInv, Heads!Holders
  <1> QED
    BY <1>3, <1>4, <1>5 DEF HeadInv

LEMMA HeadNextKeeps ==
    ASSUME NEW c \in Checks, HeadInv(c), Heads(c)!Next
    PROVE  HeadInv(c)'
  <1>1. ASSUME NEW f \in Heads(c)!File, Heads(c)!Progress(f)
        PROVE  HeadInv(c)'
    <2>1. CASE Heads(c)!LateAnswer(f)
      BY <2>1, HeadStutters DEF Heads!LateAnswer, Heads!scaleVars
    <2>2. CASE Heads(c)!SyncCheck(f)
      BY <2>2, SyncCheckKeeps
    <2>3. CASE ~Heads(c)!LateAnswer(f) /\ ~Heads(c)!SyncCheck(f)
      BY <1>1, <2>3, ProgressAdvances, AdvanceKeeps
    <2> QED
      BY <2>1, <2>2, <2>3
  <1>2. ASSUME NEW f \in Heads(c)!File, Heads(c)!Admit(f)
        PROVE  HeadInv(c)'
    BY <1>2, AdmitAdvances, AdvanceKeeps
  <1>3. ASSUME NEW f \in Heads(c)!File, Heads(c)!Trouble(f)
        PROVE  HeadInv(c)'
    BY <1>3, TroubleAdvances, AdvanceKeeps
  <1>4. CASE Heads(c)!Manager
    BY <1>4, FallBackKeeps, EnterKeeps, ProfileKeeps, BatchEndKeeps, TimeoutKeeps, SyncEndKeeps
       DEF Heads!Manager
  <1>5. CASE Heads(c)!Cool \/ Heads(c)!RecoveryDue
    BY <1>5, HeadStutters DEF Heads!Cool, Heads!RecoveryDue, Heads!checkVars, Heads!scaleVars
  <1>6. \/ Heads(c)!Manager \/ Heads(c)!Cool \/ Heads(c)!RecoveryDue
        \/ \E f \in Heads(c)!File :
               Heads(c)!Progress(f) \/ Heads(c)!Admit(f) \/ Heads(c)!Trouble(f)
    BY DEF Heads!Next
  <1> QED
    BY <1>1, <1>2, <1>3, <1>4, <1>5, <1>6

\* What the invariant says of a check that is done, and of the semaphore.
LEMMA HeadsDecide ==
    ASSUME NEW c \in Checks, HeadInv(c)
    PROVE  Heads(c)!EveryFileDecidedOnce /\ Heads(c)!HeadsWithinConcurrency
  <1>1. Heads(c)!EveryFileDecidedOnce
    BY DEF HeadInv, DecisionInv, VouchedInv, Decided, Heads!EveryFileDecidedOnce
  <1>2. Heads(c)!HeadsWithinConcurrency
    BY HeadCounts DEF HeadInv, LimitInv, Heads!HeadsWithinConcurrency
  <1> QED
    BY <1>1, <1>2

-----------------------------------------------------------------------------
(* Paths *)

\* Discovery counts with the operators of its own instance of FiniteSets.
LEMMA MirrorCounts ==
    \A w, S : /\ Mirror(w)!Cardinality(S) = Cardinality(S)
              /\ Mirror(w)!IsFiniteSet(S) <=> IsFiniteSet(S)
  BY DEF Mirror!Cardinality, Cardinality, Mirror!IsFiniteSet, IsFiniteSet

LEMMA PathConstants ==
    ASSUME NEW w \in Mirrors
    PROVE  /\ Setting[w].Root \in Setting[w].Dir
           /\ Setting[w].Above \in [Setting[w].Dir -> SUBSET Setting[w].Dir]
           /\ \A d \in Setting[w].Dir :
                 IsFiniteSet(Setting[w].Above[d]) /\ {Setting[w].Root, d} \subseteq Setting[w].Above[d]
           /\ \A d \in Setting[w].Dir : \A e \in Setting[w].Above[d] :
                 Setting[w].Above[e] \subseteq Setting[w].Above[d]
           /\ \A d \in Setting[w].Dir : \A e, g \in Setting[w].Above[d] :
                 e \in Setting[w].Above[g] \/ g \in Setting[w].Above[e]
           /\ \A d, e \in Setting[w].Dir :
                 d \in Setting[w].Above[e] /\ e \in Setting[w].Above[d] => d = e
  <1>1. Mirror(w)!PathAssumption
    BY PartsAssumption DEF Mirror!DiscoveryAssumption
  <1> QED
    BY <1>1, MirrorCounts DEF Mirror!PathAssumption

LEMMA MirrorConstants ==
    ASSUME NEW w \in Mirrors
    PROVE  /\ Setting[w].Home \in [Setting[w].File -> Setting[w].Dir]
           /\ Setting[w].Pages \in
                 [Setting[w].Dir -> SUBSET SUBSET (Setting[w].Dir \union Setting[w].File)]
           /\ \A d \in Setting[w].Dir : Setting[w].Pages[d] \intersect {NoPage, Queued, Unread} = {}
           /\ NoPage # Queued /\ NoPage # Unread /\ Queued # Unread
           /\ Setting[w].MaxDepth \in Nat /\ Setting[w].Workers \in Nat \ {0}
  <1>1. Mirror(w)!DiscoveryAssumption
    BY PartsAssumption
  <1> QED
    BY <1>1 DEF Mirror!DiscoveryAssumption

\* A page lists its directories once each, or more often.
LEMMA ListedOnPage ==
    ASSUME NEW w \in Mirrors, NEW S \in SUBSET Setting[w].Dir
    PROVE  /\ Mirror(w)!Ordered(S) \in Seq(S)
           /\ \A d \in S : \E i \in 1..Len(Mirror(w)!Ordered(S)) : Mirror(w)!Ordered(S)[i] = d
  <1>1. Mirror(w)!DiscoveryAssumption
    BY PartsAssumption
  <1> QED
    BY <1>1 DEF Mirror!DiscoveryAssumption, Mirror!Ordered

\* The deeper of two directories on a path has the longer path.
LEMMA DepthIsCounted ==
    ASSUME NEW w \in Mirrors, NEW d \in Setting[w].Dir
    PROVE  /\ Mirror(w)!PathDepth(d) = Cardinality(Setting[w].Above[d]) - 1
           /\ Mirror(w)!PathDepth(d) \in Nat
  <1>1. Mirror(w)!PathDepth(d) = Cardinality(Setting[w].Above[d]) - 1
    BY MirrorCounts DEF Mirror!PathDepth
  <1>2. IsFiniteSet(Setting[w].Above[d]) /\ d \in Setting[w].Above[d]
    BY PathConstants
  <1>3. Cardinality(Setting[w].Above[d]) \in Nat /\ Cardinality(Setting[w].Above[d]) # 0
    BY <1>2, FS_CardinalityType, FS_EmptySet
  <1> QED
    BY <1>1, <1>3

LEMMA AncestorsAreShallower ==
    ASSUME NEW w \in Mirrors, NEW d \in Setting[w].Dir, NEW e \in Setting[w].Above[d], e # d
    PROVE  e \in Setting[w].Dir /\ Mirror(w)!PathDepth(e) < Mirror(w)!PathDepth(d)
  <1> DEFINE A(x) == Setting[w].Above[x]
  <1>1. e \in Setting[w].Dir /\ A(e) \subseteq A(d) /\ d \in A(d) /\ IsFiniteSet(A(d))
    BY PathConstants
  <1>2. d \notin A(e)
    BY <1>1, PathConstants
  <1>3. Cardinality(A(e)) <= Cardinality(A(d)) /\ Cardinality(A(e)) # Cardinality(A(d))
    BY <1>1, <1>2, FS_Subset
  <1>4. Cardinality(A(e)) \in Nat /\ Cardinality(A(d)) \in Nat
    BY <1>1, PathConstants, FS_CardinalityType
  <1> QED
    BY <1>1, <1>3, <1>4, DepthIsCounted

\* A number that is least among those with which something holds.
LEMMA Least ==
    ASSUME NEW S, NEW T \in SUBSET S, NEW F \in [S -> Nat], T # {}
    PROVE  \E x \in T : \A y \in T : F[x] <= F[y]
  <1> DEFINE N == {F[x] : x \in T}
  <1>1. N \subseteq Nat /\ N # {}
    OBVIOUS
  <1>2. \E n \in N : \A m \in N : ~(<<m, n>> \in OpToRel(<, Nat))
    <2>1. IsWellFoundedOn(OpToRel(<, Nat), Nat)
      BY NatLessThanWellFounded
    <2> HIDE DEF N
    <2> QED
      BY <1>1, <2>1, WFMin
  <1>3. PICK n \in N : \A m \in N : ~(<<m, n>> \in OpToRel(<, Nat))
    BY <1>2
  <1>4. ASSUME NEW m \in N
        PROVE  n <= m
    <2>1. m \in Nat /\ n \in Nat
      BY <1>1
    <2>2. m < n => <<m, n>> \in OpToRel(<, Nat)
      BY <2>1 DEF OpToRel
    <2>3. ~(m < n)
      BY <1>3, <2>2, Zenon
    <2> QED
      BY <2>1, <2>3
  <1> QED
    BY <1>4

\* The next directory on the path from d to one below it.
LEMMA StepExists ==
    ASSUME NEW w \in Mirrors, NEW e \in Setting[w].Dir, NEW d \in Setting[w].Above[e], d # e
    PROVE  \E s \in Setting[w].Above[e] : Mirror(w)!PathDepth(s) = Mirror(w)!PathDepth(d) + 1
  <1> DEFINE A(x) == Setting[w].Above[x]
             T == {x \in A(e) : d \in A(x) /\ x # d}
             F == [x \in Setting[w].Dir |-> Mirror(w)!PathDepth(x)]
  <1>1. T \subseteq Setting[w].Dir /\ T # {} /\ F \in [Setting[w].Dir -> Nat] /\ d \in Setting[w].Dir
    BY PathConstants, DepthIsCounted
  <1>2. PICK s \in T : \A y \in T : F[s] <= F[y]
    <2> HIDE DEF T, F
    <2> QED
      BY <1>1, Least
  <1>3. s \in A(e) /\ d \in A(s) /\ s # d /\ s \in Setting[w].Dir
    BY <1>1, <1>2
  <1>4. A(s) = A(d) \union {s}
    <2>1. A(d) \union {s} \subseteq A(s)
      BY <1>1, <1>3, PathConstants
    <2>2. ASSUME NEW x \in A(s), x # s, x \notin A(d)
          PROVE  FALSE
      <3>1. x \in A(e) /\ x \in Setting[w].Dir
        BY <1>3, <2>2, PathConstants
      <3>2. d \in A(x) /\ x # d
        BY <1>1, <1>3, <2>2, <3>1, PathConstants
      <3>3. Mirror(w)!PathDepth(s) <= Mirror(w)!PathDepth(x)
        BY <1>2, <1>3, <3>1, <3>2
      <3>4. Mirror(w)!PathDepth(x) < Mirror(w)!PathDepth(s)
        BY <1>3, <2>2, AncestorsAreShallower
      <3>5. Mirror(w)!PathDepth(s) \in Nat /\ Mirror(w)!PathDepth(x) \in Nat
        BY <1>3, <3>1, DepthIsCounted
      <3> QED
        BY <3>3, <3>4, <3>5
    <2> QED
      BY <2>1, <2>2
  <1>5. s \notin A(d)
    BY <1>1, <1>3, PathConstants
  <1>6. Cardinality(A(s)) = Cardinality(A(d)) + 1
    <2>1. IsFiniteSet(A(d))
      BY <1>1, PathConstants
    <2>2. Cardinality(A(d) \union {s}) = Cardinality(A(d)) + 1
      BY <1>5, <2>1, FS_AddElement
    <2> QED
      BY <1>4, <2>2
  <1>7. Cardinality(A(d)) \in Nat
    BY <1>1, PathConstants, FS_CardinalityType
  <1> QED
    BY <1>1, <1>3, <1>6, <1>7, DepthIsCounted

\* The deepest of some directories on a path.
LEMMA DeepestExists ==
    ASSUME NEW w \in Mirrors, NEW e \in Setting[w].Dir, NEW S \in SUBSET Setting[w].Above[e], S # {}
    PROVE  /\ Mirror(w)!Deepest(S) \in S
           /\ \A x \in S : Mirror(w)!PathDepth(x) <= Mirror(w)!PathDepth(Mirror(w)!Deepest(S))
  <1> DEFINE F == [x \in Setting[w].Dir |-> Mirror(w)!PathDepth(e) - Mirror(w)!PathDepth(x)]
             G == [x \in Setting[w].Above[e] |-> F[x]]
  <1>1. Setting[w].Above[e] \subseteq Setting[w].Dir
    BY PathConstants
  <1>2. \A x \in Setting[w].Above[e] :
            Mirror(w)!PathDepth(x) \in Nat /\ Mirror(w)!PathDepth(x) <= Mirror(w)!PathDepth(e)
    BY <1>1, AncestorsAreShallower, DepthIsCounted
  <1>3. G \in [Setting[w].Above[e] -> Nat]
    BY <1>1, <1>2, DepthIsCounted
  <1>4. PICK x \in S : \A y \in S : G[x] <= G[y]
    <2> HIDE DEF G
    <2> QED
      BY <1>3, Least
  <1>5. ASSUME NEW y \in S
        PROVE  Mirror(w)!PathDepth(y) <= Mirror(w)!PathDepth(x)
    <2>1. G[x] <= G[y]
      BY <1>4
    <2>2. Mirror(w)!PathDepth(e) - Mirror(w)!PathDepth(x)
              <= Mirror(w)!PathDepth(e) - Mirror(w)!PathDepth(y)
      BY <1>1, <2>1
    <2>3. /\ Mirror(w)!PathDepth(e) \in Nat /\ Mirror(w)!PathDepth(x) \in Nat
          /\ Mirror(w)!PathDepth(y) \in Nat
      BY <1>2, DepthIsCounted
    <2> QED
      BY <2>2, <2>3
  <1> QED
    BY <1>5 DEF Mirror!Deepest

-----------------------------------------------------------------------------
(* Sequences and their elements *)

LEMMA ElementsOfEmpty == Elements(<<>>) = {}
  BY DEF Elements

LEMMA HeadAndTail ==
    ASSUME NEW S, NEW s \in Seq(S), s # <<>>
    PROVE  /\ Head(s) \in S /\ Tail(s) \in Seq(S)
           /\ Elements(s) = {Head(s)} \union Elements(Tail(s))
  <1>1. /\ Len(s) \in Nat /\ Len(s) > 0 /\ Head(s) = s[1] /\ Head(s) \in S /\ Tail(s) \in Seq(S)
        /\ Len(Tail(s)) = Len(s) - 1 /\ \A i \in 1..Len(s) - 1 : Tail(s)[i] = s[i + 1]
    BY HeadTailProperties, LenProperties
  <1>2. \A i \in 1..Len(s) : s[i] \in {Head(s)} \union Elements(Tail(s))
    <2> SUFFICES ASSUME NEW i \in 1..Len(s), i # 1
                 PROVE  s[i] \in Elements(Tail(s))
      BY <1>1
    <2>1. i - 1 \in 1..Len(Tail(s)) /\ Tail(s)[i - 1] = s[i]
      BY <1>1
    <2> QED
      BY <2>1 DEF Elements
  <1>3. \A i \in 1..Len(Tail(s)) : Tail(s)[i] \in Elements(s)
    <2> SUFFICES ASSUME NEW i \in 1..Len(Tail(s))
                 PROVE  Tail(s)[i] \in Elements(s)
      OBVIOUS
    <2>1. i + 1 \in 1..Len(s) /\ Tail(s)[i] = s[i + 1]
      BY <1>1
    <2> QED
      BY <2>1 DEF Elements
  <1>4. Head(s) \in Elements(s)
    BY <1>1 DEF Elements
  <1> QED
    BY <1>1, <1>2, <1>3, <1>4 DEF Elements

LEMMA ElementsOfConcat ==
    ASSUME NEW S, NEW s \in Seq(S), NEW t \in Seq(S)
    PROVE  s \o t \in Seq(S) /\ Elements(s \o t) = Elements(s) \union Elements(t)
  <1>1. /\ s \o t \in Seq(S) /\ Len(s) \in Nat /\ Len(t) \in Nat /\ Len(s \o t) = Len(s) + Len(t)
        /\ \A i \in 1..Len(s) + Len(t) : (s \o t)[i] = IF i <= Len(s) THEN s[i] ELSE t[i - Len(s)]
    BY ConcatProperties, LenProperties
  <1>2. Elements(s \o t) \subseteq Elements(s) \union Elements(t)
    <2> SUFFICES ASSUME NEW i \in 1..Len(s) + Len(t)
                 PROVE  (s \o t)[i] \in Elements(s) \union Elements(t)
      BY <1>1 DEF Elements
    <2>1. i <= Len(s) => i \in 1..Len(s)
      OBVIOUS
    <2>2. ~(i <= Len(s)) => i - Len(s) \in 1..Len(t)
      BY <1>1
    <2> QED
      BY <1>1, <2>1, <2>2 DEF Elements
  <1>3. \A i \in 1..Len(s) : s[i] \in Elements(s \o t)
    <2> SUFFICES ASSUME NEW i \in 1..Len(s)
                 PROVE  s[i] \in Elements(s \o t)
      OBVIOUS
    <2>1. i \in 1..Len(s \o t) /\ (s \o t)[i] = s[i]
      BY <1>1
    <2> QED
      BY <2>1 DEF Elements
  <1>4. \A i \in 1..Len(t) : t[i] \in Elements(s \o t)
    <2> SUFFICES ASSUME NEW i \in 1..Len(t)
                 PROVE  t[i] \in Elements(s \o t)
      OBVIOUS
    <2>1. i + Len(s) \in 1..Len(s \o t) /\ (s \o t)[i + Len(s)] = t[i]
      BY <1>1
    <2> QED
      BY <2>1 DEF Elements
  <1> QED
    BY <1>1, <1>2, <1>3, <1>4 DEF Elements

LEMMA SplitSequence ==
    ASSUME NEW S, NEW s \in Seq(S), NEW n \in 0..Len(s)
    PROVE  /\ SubSeq(s, 1, n) \in Seq(S) /\ SubSeq(s, n + 1, Len(s)) \in Seq(S)
           /\ SubSeq(s, 1, n) \o SubSeq(s, n + 1, Len(s)) = s
           /\ Elements(SubSeq(s, 1, n)) \union Elements(SubSeq(s, n + 1, Len(s))) = Elements(s)
  <1>1. Len(s) \in Nat
    BY LenProperties
  <1>2. /\ SubSeq(s, 1, n) \in Seq(S) /\ Len(SubSeq(s, 1, n)) = n
        /\ \A i \in 1..n : SubSeq(s, 1, n)[i] = s[i]
    BY <1>1, SubSeqProperties
  <1>3. /\ SubSeq(s, n + 1, Len(s)) \in Seq(S) /\ Len(SubSeq(s, n + 1, Len(s))) = Len(s) - n
        /\ \A i \in 1..Len(s) - n : SubSeq(s, n + 1, Len(s))[i] = s[n + i]
    BY <1>1, SubSeqProperties
  <1> DEFINE t == SubSeq(s, 1, n)
             u == SubSeq(s, n + 1, Len(s))
  <1>4. /\ t \o u \in Seq(S) /\ Len(t \o u) = Len(s)
        /\ \A i \in 1..Len(s) : (t \o u)[i] = IF i <= n THEN t[i] ELSE u[i - n]
    <2>1. t \in Seq(S) /\ u \in Seq(S) /\ Len(t) = n /\ Len(u) = Len(s) - n
      BY <1>2, <1>3
    <2> HIDE DEF t, u
    <2>2. /\ t \o u \in Seq(S) /\ Len(t \o u) = Len(t) + Len(u)
          /\ \A i \in 1..Len(t) + Len(u) : (t \o u)[i] = IF i <= Len(t) THEN t[i] ELSE u[i - Len(t)]
      BY <2>1, ConcatProperties
    <2>3. Len(t) + Len(u) = Len(s)
      BY <1>1, <2>1
    <2> QED
      BY <2>1, <2>2, <2>3
  <1>5. ASSUME NEW i \in 1..Len(s)
        PROVE  (t \o u)[i] = s[i]
    <2>1. CASE i <= n
      <3>1. t[i] = s[i]
        BY <1>2, <2>1
      <3> HIDE DEF t, u
      <3> QED
        BY <1>4, <2>1, <3>1
    <2>2. CASE ~(i <= n)
      <3>1. i - n \in 1..Len(s) - n /\ n + (i - n) = i
        BY <1>1, <2>2
      <3>2. u[i - n] = s[n + (i - n)]
        BY <1>3, <3>1
      <3> QED
        BY <1>4, <2>2, <3>1, <3>2
    <2> QED
      BY <2>1, <2>2
  <1>6. t \o u = s
    BY <1>4, <1>5, SeqEqual
  <1>7. Elements(t) \union Elements(u) = Elements(t \o u)
    BY <1>2, <1>3, ElementsOfConcat
  <1> QED
    BY <1>2, <1>3, <1>6, <1>7

LEMMA HeadOfConcat ==
    ASSUME NEW S, NEW s \in Seq(S), NEW t \in Seq(S), s # <<>>
    PROVE  s \o t # <<>> /\ Head(s \o t) = Head(s) /\ Tail(s \o t) = Tail(s) \o t
  <1>1. s \o t # <<>>
    BY ConcatEmptySeq, ConcatProperties, LenProperties, EmptySeq
  <1> QED
    BY <1>1, ConcatSimplifications, ConcatProperties, HeadTailProperties, LenProperties

\* One more directory is found.
LEMMA FoundOneMore ==
    ASSUME NEW w \in Mirrors, NEW S, found \in Seq(S), NEW d \in S, found' = Append(found, d),
           d \notin Mirror(w)!FoundDirs,
           \A i, j \in 1..Len(found) : found[i] = found[j] => i = j
    PROVE  /\ found' \in Seq(S) /\ Mirror(w)!FoundDirs' = Mirror(w)!FoundDirs \union {d}
           /\ \A i, j \in 1..Len(found') : found'[i] = found'[j] => i = j
  <1>1. /\ found' \in Seq(S) /\ Len(found) \in Nat /\ Len(found') = Len(found) + 1
        /\ found'[Len(found) + 1] = d /\ \A i \in 1..Len(found) : found'[i] = found[i]
    BY AppendProperties, LenProperties
  <1>2. \A i \in 1..Len(found) : found[i] # d
    BY DEF Mirror!FoundDirs
  <1>3. \A i \in 1..Len(found) + 1 : i \in 1..Len(found) \/ i = Len(found) + 1
    BY <1>1
  <1>4. Mirror(w)!FoundDirs' = Mirror(w)!FoundDirs \union {d}
    <2>1. Mirror(w)!FoundDirs' \subseteq Mirror(w)!FoundDirs \union {d}
      BY <1>1, <1>3 DEF Mirror!FoundDirs
    <2>2. \A i \in 1..Len(found) : i \in 1..Len(found')
      BY <1>1
    <2>3. Mirror(w)!FoundDirs \subseteq Mirror(w)!FoundDirs'
      BY <1>1, <2>2 DEF Mirror!FoundDirs
    <2>4. Len(found) + 1 \in 1..Len(found')
      BY <1>1
    <2>5. d \in Mirror(w)!FoundDirs'
      BY <1>1, <2>4 DEF Mirror!FoundDirs
    <2> QED
      BY <2>1, <2>3, <2>5
  <1>5. \A i, j \in 1..Len(found') : found'[i] = found'[j] => i = j
    BY <1>1, <1>2, <1>3
  <1> QED
    BY <1>1, <1>4, <1>5

-----------------------------------------------------------------------------
(* The walk *)

LEMMA WalkInitially ==
    ASSUME NEW w \in Mirrors, Mirror(w)!DiscoveryInit
    PROVE  WalkInv(w)
  <1>1. WalkTypes(w)
    <2>1. Lists(w, page, {}) /\ Lists(w, cache, {NoPage}) /\ Lists(w, fetched, {NoPage, Queued, Unread})
      BY DEF Mirror!DiscoveryInit, Lists
    <2>2. Lists(w, used, {NoPage}) /\ Lists(w, walked, {NoPage})
      BY DEF Mirror!DiscoveryInit, Lists
    <2>3. /\ queue = <<>> /\ batch = <<>> /\ found = <<>>
      BY DEF Mirror!DiscoveryInit
    <2>4. /\ processed = {} /\ protected = {} /\ pc = "idle" /\ next = 1 /\ remote = {}
          /\ incomplete \in BOOLEAN
      BY DEF Mirror!DiscoveryInit
    <2>5. /\ queue \in Seq([dir: Setting[w].Dir, depth: Nat])
          /\ batch \in Seq([dir: Setting[w].Dir, depth: Nat])
          /\ found \in Seq(Setting[w].Dir)
      BY <2>3, EmptySeq
    <2> QED
      BY <2>1, <2>2, <2>4, <2>5 DEF WalkTypes
  <1>2. Waiting = {}
    BY ElementsOfEmpty DEF Mirror!DiscoveryInit, Waiting
  <1>3. QueueInv(w) /\ RootInv(w) /\ SeenInv(w)
    BY <1>2 DEF Mirror!DiscoveryInit, QueueInv, RootInv, SeenInv, Scanning
  <1>4. Mirror(w)!FoundDirs = {} /\ Len(found) = 0
    BY DEF Mirror!DiscoveryInit, Mirror!FoundDirs
  <1>5. FoundInv(w) /\ PagesInv(w)
    BY <1>4 DEF Mirror!DiscoveryInit, FoundInv, PagesInv, Scanning
  <1>6. CollectInv(w) /\ Mirror(w)!LinkHasItsTarget
    BY <1>4 DEF Mirror!DiscoveryInit, CollectInv, Mirror!LinkHasItsTarget
  <1> QED
    BY <1>1, <1>3, <1>5, <1>6 DEF WalkInv

\* What the invariant says does not depend on the server's pages, the cache
\* and the fetched pages, nor on the order in which directories wait.
LEMMA PagesMayChange ==
    ASSUME NEW w \in Mirrors, WalkInv(w),
           Lists(w, page, {})', Lists(w, cache, {NoPage})',
           Lists(w, fetched, {NoPage, Queued, Unread})',
           queue' \in Seq([dir: Setting[w].Dir, depth: Nat]),
           batch' \in Seq([dir: Setting[w].Dir, depth: Nat]),
           pc # "walk" => queue' = queue /\ batch' = batch,
           Waiting' = Waiting,
           UNCHANGED <<pc, processed, found, protected, seen, walked, next, used, remote,
                       incomplete>>
    PROVE  WalkInv(w)'
  <1>1. WalkTypes(w)'
    BY DEF WalkInv, WalkTypes, Lists
  <1>2. QueueInv(w)'
    BY DEF WalkInv, QueueInv
  <1>3. Mirror(w)!FoundDirs' = Mirror(w)!FoundDirs
    BY DEF Mirror!FoundDirs
  <1>4. FoundInv(w)' /\ PagesInv(w)' /\ RootInv(w)' /\ SeenInv(w)'
    BY <1>3 DEF WalkInv, FoundInv, PagesInv, RootInv, SeenInv
  <1>5. Mirror(w)!LinkHasItsTarget' /\ CollectInv(w)'
    BY <1>3 DEF WalkInv, Mirror!LinkHasItsTarget, CollectInv
  <1> QED
    BY <1>1, <1>2, <1>4, <1>5 DEF WalkInv

\* What a read may return is a listing of the directory.
LEMMA ReadableIsListing ==
    ASSUME NEW w \in Mirrors, WalkTypes(w), NEW d \in Setting[w].Dir,
           NEW listing \in Mirror(w)!Readable(d)
    PROVE  listing \in Setting[w].Pages[d]
  BY DEF WalkTypes, Lists, Mirror!Readable

LEMMA RememberKeeps ==
    ASSUME NEW w \in Mirrors, WalkTypes(w), NEW d \in Setting[w].Dir,
           NEW listing \in Mirror(w)!Readable(d) \union {Unread}, Mirror(w)!Remember(d, listing)
    PROVE  Lists(w, cache, {NoPage})'
  <1>1. listing # Unread => listing \in Setting[w].Pages[d]
    BY ReadableIsListing
  <1> QED
    BY <1>1 DEF WalkTypes, Lists, Mirror!Remember

LEMMA ReadingKeeps ==
    ASSUME NEW w \in Mirrors, WalkInv(w), NEW d \in Setting[w].Dir,
           \/ Mirror(w)!Fetch(d) \/ Mirror(w)!Expire(d)
           \/ \E listing \in Setting[w].Pages[d] : Mirror(w)!PageChange(d, listing)
    PROVE  WalkInv(w)'
  <1> USE DEF WalkInv
  <1>1. CASE Mirror(w)!Fetch(d)
    <2>1. PICK listing \in Mirror(w)!Readable(d) \union {Unread} :
              /\ fetched' = [fetched EXCEPT ![d] = listing] /\ Mirror(w)!Remember(d, listing)
              /\ UNCHANGED <<page, pc, Mirror(w)!walkVars, Mirror(w)!passVars, incomplete>>
      BY <1>1 DEF Mirror!Fetch
    <2>2. Lists(w, cache, {NoPage})'
      BY <2>1, RememberKeeps
    <2>3. listing \in Setting[w].Pages[d] \union {Unread}
      BY ReadableIsListing
    <2>4. Lists(w, fetched, {NoPage, Queued, Unread})'
      BY <2>1, <2>3 DEF WalkTypes, Lists
    <2>5. Lists(w, page, {})'
      BY <2>1 DEF WalkTypes, Lists
    <2>6. UNCHANGED <<pc, queue, batch, processed, found, protected, seen, walked, next, used,
                      remote, incomplete>>
      BY <2>1 DEF Mirror!walkVars, Mirror!passVars
    <2>7. Waiting' = Waiting
      BY <2>6 DEF Waiting, Elements
    <2> QED
      BY <2>2, <2>4, <2>5, <2>6, <2>7, PagesMayChange DEF WalkTypes
  <1>2. CASE Mirror(w)!Expire(d)
    <2>1. Lists(w, page, {})' /\ Lists(w, fetched, {NoPage, Queued, Unread})'
      BY <1>2 DEF Mirror!Expire, WalkTypes, Lists
    <2>2. Lists(w, cache, {NoPage})'
      BY <1>2 DEF Mirror!Expire, WalkTypes, Lists
    <2>3. UNCHANGED <<pc, queue, batch, processed, found, protected, seen, walked, next, used,
                      remote, incomplete>>
      BY <1>2 DEF Mirror!Expire, Mirror!walkVars, Mirror!passVars
    <2>4. Waiting' = Waiting
      BY <2>3 DEF Waiting, Elements
    <2> QED
      BY <2>1, <2>2, <2>3, <2>4, PagesMayChange DEF WalkTypes
  <1>3. ASSUME NEW listing \in Setting[w].Pages[d], Mirror(w)!PageChange(d, listing)
        PROVE  WalkInv(w)'
    <2>1. Lists(w, cache, {NoPage})' /\ Lists(w, fetched, {NoPage, Queued, Unread})'
      BY <1>3 DEF Mirror!PageChange, WalkTypes, Lists
    <2>2. Lists(w, page, {})'
      BY <1>3 DEF Mirror!PageChange, WalkTypes, Lists
    <2>3. UNCHANGED <<pc, queue, batch, processed, found, protected, seen, walked, next, used,
                      remote, incomplete>>
      BY <1>3 DEF Mirror!PageChange, Mirror!walkVars, Mirror!passVars
    <2>4. Waiting' = Waiting
      BY <2>3 DEF Waiting, Elements
    <2> QED
      BY <2>1, <2>2, <2>3, <2>4, PagesMayChange DEF WalkTypes
  <1> QED
    BY <1>1, <1>2, <1>3

\* The batch is taken from the front of the queue.
LEMMA BatchIsTaken ==
    ASSUME NEW w \in Mirrors, WalkInv(w), Mirror(w)!FillBatch
    PROVE  /\ queue' \in Seq([dir: Setting[w].Dir, depth: Nat])
           /\ batch' \in Seq([dir: Setting[w].Dir, depth: Nat])
           /\ batch' \o queue' = queue /\ batch \o queue = queue
           /\ Waiting' = Waiting
  <1> DEFINE Rec == [dir: Setting[w].Dir, depth: Nat]
             n == IF Len(queue) < Setting[w].Workers THEN Len(queue) ELSE Setting[w].Workers
  <1>1. queue \in Seq(Rec) /\ batch = <<>>
    BY DEF WalkInv, WalkTypes, Mirror!FillBatch
  <1>2. batch' = SubSeq(queue, 1, n) /\ queue' = SubSeq(queue, n + 1, Len(queue))
    BY DEF Mirror!FillBatch
  <1>3. n \in 0..Len(queue)
    BY <1>1, MirrorConstants, LenProperties
  <1>4. /\ batch' \in Seq(Rec) /\ queue' \in Seq(Rec) /\ batch' \o queue' = queue
        /\ Elements(batch') \union Elements(queue') = Elements(queue)
    <2> HIDE DEF Rec, n
    <2> QED
      BY <1>1, <1>2, <1>3, SplitSequence
  <1>5. batch \o queue = queue
    BY <1>1, ConcatEmptySeq
  <1>6. Waiting' = Waiting
    <2>1. Waiting' = Elements(batch') \union Elements(queue')
      BY DEF Waiting, Elements
    <2>2. Waiting = Elements(queue)
      BY <1>1, ElementsOfEmpty DEF Waiting
    <2> QED
      BY <1>4, <2>1, <2>2
  <1> QED
    BY <1>4, <1>5, <1>6

LEMMA FillBatchKeeps ==
    ASSUME NEW w \in Mirrors, WalkInv(w), Mirror(w)!FillBatch
    PROVE  WalkInv(w)'
  <1>1. /\ pc = "walk"
        /\ UNCHANGED <<page, cache, pc, processed, found, protected, seen, walked, next, used,
                       remote, incomplete>>
    BY DEF Mirror!FillBatch, Mirror!passVars
  <1>2. Lists(w, fetched, {NoPage, Queued, Unread})'
    BY DEF Mirror!FillBatch, Lists
  <1>3. Lists(w, page, {})' /\ Lists(w, cache, {NoPage})'
    BY <1>1 DEF WalkInv, WalkTypes, Lists
  <1> QED
    BY <1>1, <1>2, <1>3, BatchIsTaken, PagesMayChange

\* What is first in the batch is one of those that wait.
LEMMA FirstOfBatch ==
    ASSUME NEW w \in Mirrors, WalkInv(w), batch # <<>>
    PROVE  /\ Head(batch) \in [dir: Setting[w].Dir, depth: Nat]
           /\ Tail(batch) \in Seq([dir: Setting[w].Dir, depth: Nat])
           /\ Waiting = {Head(batch)} \union Elements(Tail(batch)) \union Elements(queue)
           /\ Head(batch).depth <= Setting[w].MaxDepth
           /\ ~Mirror(w)!IsExcluded(Head(batch).dir)
           /\ Mirror(w)!LinksLeadDown => Head(batch).depth <= Mirror(w)!PathDepth(Head(batch).dir)
  <1> DEFINE Rec == [dir: Setting[w].Dir, depth: Nat]
  <1>1. batch \in Seq(Rec)
    BY DEF WalkInv, WalkTypes
  <1>2. /\ Head(batch) \in Rec /\ Tail(batch) \in Seq(Rec)
        /\ Elements(batch) = {Head(batch)} \union Elements(Tail(batch))
    <2> HIDE DEF Rec
    <2> QED
      BY <1>1, HeadAndTail
  <1>3. Waiting = {Head(batch)} \union Elements(Tail(batch)) \union Elements(queue)
    BY <1>2 DEF Waiting
  <1> QED
    BY <1>2, <1>3 DEF WalkInv, QueueInv

LEMMA DropKeeps ==
    ASSUME NEW w \in Mirrors, WalkInv(w), Mirror(w)!Drop
    PROVE  WalkInv(w)'
  <1> DEFINE x == Head(batch)
  <1>1. /\ pc = "walk" /\ batch # <<>> /\ (x.dir \in processed \/ x.depth > Setting[w].MaxDepth)
        /\ batch' = Tail(batch)
        /\ UNCHANGED <<page, cache, pc, fetched, queue, processed, found, protected, seen, walked,
                       next, used, remote, incomplete>>
    BY DEF Mirror!Drop, Mirror!passVars
  <1>2. /\ x \in [dir: Setting[w].Dir, depth: Nat]
        /\ Tail(batch) \in Seq([dir: Setting[w].Dir, depth: Nat])
        /\ Waiting = {x} \union Elements(Tail(batch)) \union Elements(queue)
        /\ x.depth <= Setting[w].MaxDepth
    BY <1>1, FirstOfBatch
  <1>3. x.dir \in processed
    BY <1>1, <1>2, MirrorConstants
  <1>4. Waiting' = Elements(Tail(batch)) \union Elements(queue)
    BY <1>1 DEF Waiting, Elements
  <1> HIDE DEF x
  <1>5. Waiting = {x} \union Waiting'
    BY <1>2, <1>4
  <1>6. WalkTypes(w)'
    BY <1>1, <1>2 DEF WalkInv, WalkTypes, Lists
  <1>7. QueueInv(w)'
    BY <1>1, <1>5 DEF WalkInv, QueueInv
  <1>8. Mirror(w)!FoundDirs' = Mirror(w)!FoundDirs
    BY <1>1 DEF Mirror!FoundDirs
  <1>9. FoundInv(w)' /\ SeenInv(w)' /\ Mirror(w)!LinkHasItsTarget' /\ CollectInv(w)'
    BY <1>1, <1>8 DEF WalkInv, FoundInv, SeenInv, Mirror!LinkHasItsTarget, CollectInv
  <1>10. PagesInv(w)'
    BY <1>1, <1>3, <1>5, <1>8 DEF WalkInv, PagesInv
  <1>11. RootInv(w)'
    BY <1>1, <1>3, <1>8 DEF WalkInv, RootInv
  <1> QED
    BY <1>6, <1>7, <1>9, <1>10, <1>11 DEF WalkInv

\* A visit, as far as the invariant goes: x is visited, and either it is
\* found, and what its page names is put among those that wait, or it is set
\* aside because an earlier directory looked the same.
Visits(w, x) ==
    /\ pc = "walk" /\ x \in Waiting /\ x.dir \notin processed
    /\ processed' = processed \union {x.dir}
    /\ Waiting \subseteq Waiting' \union {x}
    /\ UNCHANGED <<page, cache, pc, fetched, next, used, remote>>
    /\ Lists(w, walked, {NoPage})'
    /\ \A d \in Setting[w].Dir : d # x.dir => walked'[d] = walked[d]
    /\ incomplete' \in BOOLEAN /\ (incomplete => incomplete')
    /\ walked'[x.dir] = NoPage => incomplete' \/ x.depth = Setting[w].MaxDepth

Names(w, x, y) ==
    /\ walked'[x.dir] # NoPage /\ x.depth < Setting[w].MaxDepth
    /\ y.dir \in walked'[x.dir] \intersect Setting[w].Dir /\ y.depth = x.depth + 1
    /\ ~Mirror(w)!IsExcluded(y.dir)

Finds(w, x) ==
    /\ found' = Append(found, x.dir) /\ protected' = protected
    /\ \A y \in Waiting' : y \in Waiting \/ Names(w, x, y)
    /\ walked'[x.dir] # NoPage =>
          \A e \in walked'[x.dir] \intersect Setting[w].Dir :
              \/ e \in processed' \/ Mirror(w)!IsExcluded(e) \/ \E y \in Waiting' : y.dir = e
    /\ \A pair \in seen' :
          \/ pair \in seen
          \/ walked'[x.dir] # NoPage /\ pair[1] = Mirror(w)!Signature(walked'[x.dir])

SetsAside(w, x) ==
    /\ found' = found /\ protected' = protected \union {x.dir} /\ seen' = seen
    /\ Waiting' \subseteq Waiting
    /\ walked'[x.dir] # NoPage
    /\ \E pair \in seen : pair[1] = Mirror(w)!Signature(walked'[x.dir])

LEMMA VisitsKeep ==
    ASSUME NEW w \in Mirrors, WalkInv(w), NEW x \in [dir: Setting[w].Dir, depth: Nat],
           queue' \in Seq([dir: Setting[w].Dir, depth: Nat]),
           batch' \in Seq([dir: Setting[w].Dir, depth: Nat]),
           Visits(w, x), Finds(w, x) \/ SetsAside(w, x)
    PROVE  WalkInv(w)'
  <1> DEFINE FD == Mirror(w)!FoundDirs
  <1>1. x.dir \in Setting[w].Dir /\ x.depth \in Nat /\ Setting[w].MaxDepth \in Nat
    BY MirrorConstants
  <1>2. x.dir \notin FD /\ walked[x.dir] = NoPage
    BY <1>1 DEF WalkInv, FoundInv, PagesInv, Visits
  <1>3. /\ found' \in Seq(Setting[w].Dir)
        /\ \A i, j \in 1..Len(found') : found'[i] = found'[j] => i = j
        /\ Finds(w, x) => FD' = FD \union {x.dir}
        /\ SetsAside(w, x) => FD' = FD
    <2>1. CASE Finds(w, x)
      <3>1. found' \in Seq(Setting[w].Dir)
        BY <1>1, <2>1, AppendProperties DEF WalkInv, WalkTypes, Finds
      <3>2. found' # found
        BY <2>1, AppendProperties, LenProperties DEF WalkInv, WalkTypes, Finds
      <3>3. ~SetsAside(w, x)
        BY <3>2 DEF SetsAside
      <3> QED
        BY <1>1, <1>2, <2>1, <3>3, FoundOneMore DEF WalkInv, WalkTypes, FoundInv, Finds
    <2>2. CASE SetsAside(w, x)
      <3>1. found' = found
        BY <2>2 DEF SetsAside
      <3>2. ~Finds(w, x)
        BY <3>1, <1>1, AppendProperties, LenProperties DEF WalkInv, WalkTypes, Finds
      <3>3. FD' = FD
        BY <3>1 DEF Mirror!FoundDirs
      <3> QED
        BY <3>1, <3>2, <3>3 DEF WalkInv, WalkTypes, FoundInv
    <2> QED
      BY <2>1, <2>2
  <1>4. \A d \in Setting[w].Dir : walked[d] # NoPage => walked'[d] = walked[d]
    BY <1>2 DEF Visits
  <1>5. FD \subseteq FD' /\ FD' \subseteq FD \union {x.dir} /\ FD' \subseteq Setting[w].Dir
    <2>1. FD' \subseteq Setting[w].Dir
      BY <1>3, LenProperties DEF Mirror!FoundDirs
    <2> QED
      BY <1>3, <2>1
  <1>6. Finds(w, x) \/ SetsAside(w, x)
    OBVIOUS
  <1> HIDE DEF FD
  <1>7. WalkTypes(w)'
    <2>1. Lists(w, page, {})' /\ Lists(w, cache, {NoPage})' /\ Lists(w, used, {NoPage})'
      BY DEF WalkInv, WalkTypes, Visits, Lists
    <2>2. Lists(w, fetched, {NoPage, Queued, Unread})' /\ Lists(w, walked, {NoPage})'
      BY DEF WalkInv, WalkTypes, Visits, Lists
    <2>3. processed' \subseteq Setting[w].Dir /\ protected' \subseteq Setting[w].Dir
      BY <1>1, <1>6 DEF WalkInv, WalkTypes, Visits, Finds, SetsAside
    <2>4. incomplete' \in BOOLEAN
      BY DEF Visits
    <2>5. UNCHANGED <<pc, next, remote>>
      BY DEF Visits
    <2> QED
      BY <1>3, <2>1, <2>2, <2>3, <2>4, <2>5 DEF WalkInv, WalkTypes
  <1>8. QueueInv(w)'
    <2> SUFFICES ASSUME NEW y \in Waiting'
                 PROVE  /\ ~Mirror(w)!IsExcluded(y.dir) /\ y.depth <= Setting[w].MaxDepth
                        /\ Mirror(w)!LinksLeadDown => y.depth <= Mirror(w)!PathDepth(y.dir)
      BY DEF QueueInv, Visits
    <2>1. CASE y \in Waiting
      BY <2>1 DEF WalkInv, QueueInv
    <2>2. CASE Names(w, x, y)
      <3>1. /\ y.dir \in Setting[w].Dir /\ y.depth = x.depth + 1 /\ x.depth < Setting[w].MaxDepth
            /\ ~Mirror(w)!IsExcluded(y.dir)
        BY <2>2 DEF Names
      <3>2. walked'[x.dir] \in Setting[w].Pages[x.dir]
        BY <1>1, <2>2 DEF Names, Visits, Lists
      <3>3. Mirror(w)!LinksLeadDown => Mirror(w)!PathDepth(x.dir) < Mirror(w)!PathDepth(y.dir)
        BY <1>1, <2>2, <3>2 DEF Names, Mirror!LinksLeadDown
      <3>4. Mirror(w)!LinksLeadDown => x.depth <= Mirror(w)!PathDepth(x.dir)
        BY DEF WalkInv, QueueInv, Visits
      <3>5. Mirror(w)!PathDepth(x.dir) \in Nat /\ Mirror(w)!PathDepth(y.dir) \in Nat
        BY <1>1, <3>1, DepthIsCounted
      <3> QED
        BY <1>1, <3>1, <3>3, <3>4, <3>5
    <2> QED
      BY <1>6, <2>1, <2>2 DEF Finds, SetsAside
  <1>9. FoundInv(w)'
    <2>1. FD' \subseteq processed'
      BY <1>5 DEF WalkInv, FoundInv, Visits, FD
    <2>2. processed' \subseteq FD' \union protected'
      BY <1>3, <1>6 DEF WalkInv, FoundInv, Visits, Finds, SetsAside, FD, Scanning
    <2> QED
      BY <1>3, <2>1, <2>2 DEF FoundInv, FD
  <1>10. PagesInv(w)'
    <2>1. \A d \in Setting[w].Dir : walked'[d] # NoPage => d \in processed'
      BY DEF WalkInv, PagesInv, Visits
    <2>2. ASSUME NEW d \in FD', walked'[d] # NoPage, NEW e \in walked'[d] \intersect Setting[w].Dir
          PROVE  \/ e \in processed' \/ Mirror(w)!IsExcluded(e)
                 \/ \E y \in Waiting' : y.dir = e
      <3>1. CASE d = x.dir
        <4>1. d \in FD
                => FALSE
          BY <1>2, <3>1 DEF FD
        <4>2. Finds(w, x)
          BY <1>3, <1>6, <2>2, <4>1
        <4> QED
          BY <2>2, <3>1, <4>2 DEF Finds
      <3>2. CASE d # x.dir
        <4>1. d \in FD /\ walked'[d] = walked[d]
          BY <1>5, <2>2, <3>2 DEF Visits
        <4>2. \/ e \in processed \/ Mirror(w)!IsExcluded(e)
              \/ \E y \in Waiting : y.dir = e
          BY <2>2, <4>1 DEF WalkInv, PagesInv, FD, Visits, Scanning
        <4> QED
          BY <4>2 DEF Visits
      <3> QED
        BY <3>1, <3>2
    <2>3. ASSUME ~incomplete', Mirror(w)!LinksLeadDown, NEW d \in FD', walked'[d] = NoPage
          PROVE  Setting[w].MaxDepth <= Mirror(w)!PathDepth(d)
      <3>1. CASE d = x.dir
        <4>1. x.depth = Setting[w].MaxDepth
          BY <2>3, <3>1 DEF Visits
        <4> QED
          BY <2>3, <3>1, <4>1 DEF WalkInv, QueueInv, Visits
      <3>2. CASE d # x.dir
        <4>1. d \in FD /\ walked'[d] = walked[d] /\ ~incomplete
          BY <1>5, <2>3, <3>2 DEF Visits
        <4> QED
          BY <2>3, <4>1 DEF WalkInv, PagesInv, FD, Visits, Scanning
      <3> QED
        BY <3>1, <3>2
    <2> QED
      BY <2>1, <2>2, <2>3 DEF PagesInv, FD
  <1>11. RootInv(w)'
    <2>1. CASE Setting[w].Root \in FD
      BY <1>5, <2>1 DEF RootInv, FD
    <2>2. CASE Setting[w].Root \notin FD /\ ~Mirror(w)!IsExcluded(Setting[w].Root)
      <3>1. processed = {} /\ x.dir = Setting[w].Root
        BY <2>2 DEF WalkInv, RootInv, Visits, Scanning, FD
      <3>2. CASE Finds(w, x)
        BY <1>3, <3>1, <3>2 DEF RootInv, FD
      <3>3. CASE SetsAside(w, x)
        <4>1. FD = {}
          BY <3>1 DEF WalkInv, FoundInv, FD
        <4>2. seen = {}
          BY <4>1 DEF WalkInv, SeenInv, FD
        <4> QED
          BY <3>3, <4>2 DEF SetsAside
      <3> QED
        BY <1>6, <3>2, <3>3
    <2> QED
      BY <2>1, <2>2 DEF RootInv
  <1>12. SeenInv(w)'
    <2> SUFFICES ASSUME NEW pair \in seen'
                 PROVE  \E e \in FD' : walked'[e] # NoPage /\ pair[1] = Mirror(w)!Signature(walked'[e])
      BY DEF SeenInv, FD
    <2>1. CASE pair \in seen
      <3>1. PICK e \in FD : walked[e] # NoPage /\ pair[1] = Mirror(w)!Signature(walked[e])
        BY <2>1 DEF WalkInv, SeenInv, FD
      <3> QED
        BY <1>4, <1>5, <3>1
    <2>2. CASE pair \notin seen
      <3>1. Finds(w, x)
        BY <1>6, <2>2 DEF SetsAside
      <3> QED
        BY <1>3, <2>2, <3>1 DEF Finds
    <2> QED
      BY <2>1, <2>2
  <1>13. Mirror(w)!LinkHasItsTarget'
    <2> SUFFICES ASSUME NEW d \in protected', walked'[d] # NoPage
                 PROVE  \E e \in FD' : /\ walked'[e] # NoPage
                                       /\ Mirror(w)!Signature(walked'[e]) = Mirror(w)!Signature(walked'[d])
      BY DEF Mirror!LinkHasItsTarget, FD
    <2>1. CASE d # x.dir
      <3>1. d \in protected /\ d \in Setting[w].Dir
        BY <1>6, <2>1 DEF WalkInv, WalkTypes, Finds, SetsAside
      <3>2. walked'[d] = walked[d]
        BY <2>1, <3>1 DEF Visits
      <3>3. PICK e \in FD : /\ walked[e] # NoPage
                            /\ Mirror(w)!Signature(walked[e]) = Mirror(w)!Signature(walked[d])
        BY <2>1, <3>1, <3>2 DEF WalkInv, Mirror!LinkHasItsTarget, FD
      <3> QED
        BY <1>4, <1>5, <3>2, <3>3
    <2>2. CASE d = x.dir /\ SetsAside(w, x)
      <3>1. PICK pair \in seen : pair[1] = Mirror(w)!Signature(walked'[d])
        BY <2>2 DEF SetsAside
      <3>2. PICK e \in FD : walked[e] # NoPage /\ pair[1] = Mirror(w)!Signature(walked[e])
        BY DEF WalkInv, SeenInv, FD
      <3> QED
        BY <1>4, <1>5, <3>1, <3>2
    <2>3. CASE d = x.dir /\ Finds(w, x)
      BY <1>3, <2>3
    <2> QED
      BY <1>6, <2>1, <2>2, <2>3
  <1>14. CollectInv(w)'
    <2>1. pc = "walk" /\ pc' = "walk" /\ UNCHANGED <<next, remote, used>>
      BY DEF Visits
    <2> QED
      BY <2>1 DEF WalkInv, CollectInv
  <1> QED
    BY <1>7, <1>8, <1>9, <1>10, <1>11, <1>12, <1>13, <1>14 DEF WalkInv

\* The directories a page names, in the order of the page, as they are put
\* into the queue.
Children(w, S, depth) ==
    [i \in 1..Len(Mirror(w)!Ordered(S)) |->
        [dir |-> Mirror(w)!Ordered(S)[i], depth |-> depth + 1]]

LEMMA ChildrenListed ==
    ASSUME NEW w \in Mirrors, NEW S \in SUBSET Setting[w].Dir, NEW depth \in Nat
    PROVE  /\ Children(w, S, depth) \in Seq([dir: Setting[w].Dir, depth: Nat])
           /\ \A y \in Elements(Children(w, S, depth)) : y.dir \in S /\ y.depth = depth + 1
           /\ \A e \in S : \E y \in Elements(Children(w, S, depth)) : y.dir = e
  <1> DEFINE s == Mirror(w)!Ordered(S)
             kids == [i \in 1..Len(s) |-> [dir |-> s[i], depth |-> depth + 1]]
             Rec == [dir: Setting[w].Dir, depth: Nat]
  <1>1. s \in Seq(S) /\ \A e \in S : \E i \in 1..Len(s) : s[i] = e
    BY ListedOnPage
  <1>2. Len(s) \in Nat /\ \A i \in 1..Len(s) : s[i] \in S
    BY <1>1, LenProperties
  <1> HIDE DEF s
  <1>3. \A i \in 1..Len(s) : kids[i] \in Rec
    BY <1>2
  <1>4. kids \in Seq(Rec)
    <2>1. kids \in [1..Len(s) -> Rec]
      BY <1>3
    <2> HIDE DEF kids, Rec
    <2> QED
      BY <1>2, <2>1, SeqDef
  <1>5. Len(kids) = Len(s)
    BY <1>2, <1>4
  <1>6. \A y \in Elements(kids) : y.dir \in S /\ y.depth = depth + 1
    BY <1>2, <1>5 DEF Elements
  <1>7. ASSUME NEW e \in S
        PROVE  \E y \in Elements(kids) : y.dir = e
    <2>1. PICK i \in 1..Len(s) : s[i] = e
      BY <1>1
    <2>2. kids[i].dir = e /\ kids[i] \in Elements(kids)
      BY <1>5, <2>1 DEF Elements
    <2> QED
      BY <2>2
  <1>8. kids = Children(w, S, depth)
    BY DEF Children, s
  <1> HIDE DEF kids
  <1> QED
    BY <1>4, <1>6, <1>7, <1>8

LEMMA VisitLeafKeeps ==
    ASSUME NEW w \in Mirrors, WalkInv(w), Mirror(w)!VisitLeaf
    PROVE  WalkInv(w)'
  <1> DEFINE x == Head(batch)
  <1>1. /\ pc = "walk" /\ batch # <<>> /\ x.dir \notin processed /\ x.depth = Setting[w].MaxDepth
        /\ processed' = processed \union {x.dir} /\ found' = Append(found, x.dir)
        /\ batch' = Tail(batch)
        /\ UNCHANGED <<page, cache, pc, fetched, queue, protected, seen, walked, next, used,
                       remote, incomplete>>
    BY DEF Mirror!VisitLeaf, Mirror!passVars
  <1>2. /\ x \in [dir: Setting[w].Dir, depth: Nat]
        /\ Tail(batch) \in Seq([dir: Setting[w].Dir, depth: Nat])
        /\ Waiting = {x} \union Elements(Tail(batch)) \union Elements(queue)
    BY <1>1, FirstOfBatch
  <1>3. Waiting' = Elements(Tail(batch)) \union Elements(queue)
    BY <1>1 DEF Waiting, Elements
  <1> HIDE DEF x
  <1>4. walked[x.dir] = NoPage
    BY <1>1, <1>2 DEF WalkInv, PagesInv
  <1>5. incomplete \in BOOLEAN /\ Lists(w, walked, {NoPage})
    BY DEF WalkInv, WalkTypes
  <1>6. Visits(w, x)
    BY <1>1, <1>2, <1>3, <1>5 DEF Visits, Lists
  <1>7. Finds(w, x)
    BY <1>1, <1>2, <1>3, <1>4 DEF Finds
  <1>8. queue' \in Seq([dir: Setting[w].Dir, depth: Nat])
    BY <1>1 DEF WalkInv, WalkTypes
  <1> QED
    BY <1>1, <1>2, <1>6, <1>7, <1>8, VisitsKeep

\* What waits once a directory has been entered or left.
LEMMA VisitKeeps ==
    ASSUME NEW w \in Mirrors, WalkInv(w), Mirror(w)!Visit
    PROVE  WalkInv(w)'
  <1> DEFINE x == Head(batch)
             d == x.dir
             listing == IF fetched[d] = Unread THEN {} ELSE fetched[d]
             link == Mirror(w)!LooksLinked(d, listing)
             Rec == [dir: Setting[w].Dir, depth: Nat]
  <1>1. /\ pc = "walk" /\ batch # <<>> /\ d \notin processed /\ x.depth < Setting[w].MaxDepth
        /\ fetched[d] \notin {NoPage, Queued}
        /\ processed' = processed \union {d}
        /\ walked' = [walked EXCEPT ![d] = IF fetched[d] = Unread THEN NoPage ELSE listing]
        /\ batch' = Tail(batch)
        /\ UNCHANGED <<page, cache, pc, fetched, next, used, remote>>
    BY DEF Mirror!Visit, Mirror!passVars
  <1>2. incomplete' = (incomplete \/ fetched[d] = Unread)
    BY DEF Mirror!Visit
  <1>3. seen' = IF Setting[w].LinkMode = "off" \/ link \/ listing = {}
                   \/ Setting[w].Above[d] \intersect flagged # {}
                THEN seen ELSE seen \union {<<Mirror(w)!Signature(listing), d>>}
    BY DEF Mirror!Visit
  <1>4. IF Mirror(w)!Entered(d, link) THEN Mirror(w)!Enter(d, x.depth, listing, link)
        ELSE Mirror(w)!Leave(d)
    BY DEF Mirror!Visit
  <1>5. /\ x \in Rec /\ Tail(batch) \in Seq(Rec)
        /\ Waiting = {x} \union Elements(Tail(batch)) \union Elements(queue)
    BY <1>1, FirstOfBatch
  <1>6. incomplete \in BOOLEAN /\ Lists(w, walked, {NoPage}) /\ queue \in Seq(Rec)
    BY DEF WalkInv, WalkTypes
  <1>7. d \in Setting[w].Dir /\ x.depth \in Nat /\ Setting[w].MaxDepth \in Nat
    BY <1>5, MirrorConstants
  <1> HIDE DEF x
  <1>8. /\ fetched[d] # Unread => listing \in Setting[w].Pages[d] /\ walked'[d] = listing
        /\ fetched[d] = Unread => listing = {} /\ walked'[d] = NoPage
    BY <1>1, <1>6, <1>7 DEF WalkInv, WalkTypes, Lists
  <1>9. \A e \in Setting[w].Dir : e # d => walked'[e] = walked[e]
    BY <1>1, <1>6, <1>7 DEF Lists
  <1>10. Lists(w, walked, {NoPage})'
    BY <1>1, <1>6, <1>7, <1>8, <1>9 DEF Lists
  <1>11. walked'[d] # NoPage => walked'[d] = listing
    BY <1>8
  <1>12. walked'[d] = NoPage => incomplete'
    <2>1. fetched[d] # Unread => walked'[d] # NoPage
      BY <1>7, <1>8, MirrorConstants
    <2> QED
      BY <1>2, <2>1
  <1>13. incomplete' \in BOOLEAN /\ (incomplete => incomplete')
    BY <1>2, <1>6
  <1> HIDE DEF listing, link, d
  <1>14. CASE Mirror(w)!Entered(d, link)
    <2> DEFINE S == {e \in listing \intersect Setting[w].Dir :
                        e \notin processed' /\ ~Mirror(w)!IsExcluded(e)}
               kids == Children(w, S, x.depth)
    <2>1. queue' = queue \o kids /\ found' = Append(found, d) /\ protected' = protected
      BY <1>4, <1>14 DEF Mirror!Enter, Children
    <2>2. /\ kids \in Seq(Rec) /\ \A y \in Elements(kids) : y.dir \in S /\ y.depth = x.depth + 1
          /\ \A e \in S : \E y \in Elements(kids) : y.dir = e
      <3>1. S \in SUBSET Setting[w].Dir
        OBVIOUS
      <3> QED
        BY <1>7, <3>1, ChildrenListed
    <2> HIDE DEF kids
    <2>3. queue' \in Seq(Rec) /\ Elements(queue') = Elements(queue) \union Elements(kids)
      BY <1>6, <2>1, <2>2, ElementsOfConcat
    <2>4. Elements(batch') = Elements(Tail(batch))
      BY <1>1
    <2>5. Waiting' = Elements(Tail(batch)) \union Elements(queue) \union Elements(kids)
      BY <2>3, <2>4 DEF Waiting, Elements
    <2>6. Visits(w, x)
      BY <1>1, <1>5, <1>9, <1>10, <1>12, <1>13, <2>5 DEF Visits, d
    <2>7. fetched[d] = Unread => S = {}
      BY <1>8
    <2>8. \A y \in Elements(kids) : Names(w, x, y)
      BY <1>1, <1>7, <1>8, <2>2, <2>7, MirrorConstants DEF Names, d
    <2>9. \A pair \in seen' :
             \/ pair \in seen
             \/ walked'[d] # NoPage /\ pair[1] = Mirror(w)!Signature(walked'[d])
      <3>1. \A pair \in seen' :
               pair \in seen \/ (listing # {} /\ pair = <<Mirror(w)!Signature(listing), d>>)
        BY <1>3
      <3>2. listing # {} => walked'[d] # NoPage /\ walked'[d] = listing
        BY <1>7, <1>8, MirrorConstants
      <3> QED
        BY <3>1, <3>2
    <2>10. \A y \in Waiting' : y \in Waiting \/ Names(w, x, y)
      BY <1>5, <2>5, <2>8
    <2>11. ASSUME walked'[d] # NoPage, NEW e \in walked'[d] \intersect Setting[w].Dir
           PROVE  \/ e \in processed' \/ Mirror(w)!IsExcluded(e) \/ \E y \in Waiting' : y.dir = e
      BY <1>11, <2>2, <2>5, <2>11
    <2>12. Finds(w, x)
      BY <2>1, <2>9, <2>10, <2>11 DEF Finds, d
    <2> QED
      BY <1>1, <1>5, <2>3, <2>6, <2>12, VisitsKeep
  <1>15. CASE ~Mirror(w)!Entered(d, link)
    <2>1. protected' = protected \union {d} /\ queue' = queue /\ found' = found
      BY <1>4, <1>15 DEF Mirror!Leave
    <2>2. link
      BY <1>15 DEF Mirror!Entered
    <2>3. listing # {} /\ \E pair \in seen : pair[1] = Mirror(w)!Signature(listing)
      BY <2>2 DEF link, Mirror!LooksLinked
    <2>4. seen' = seen
      BY <1>3, <2>2
    <2>5. Waiting' = Elements(Tail(batch)) \union Elements(queue)
      BY <1>1, <2>1 DEF Waiting, Elements
    <2>6. Visits(w, x)
      BY <1>1, <1>5, <1>9, <1>10, <1>12, <1>13, <2>5 DEF Visits, d
    <2>7. walked'[d] # NoPage /\ walked'[d] = listing
      BY <1>7, <1>8, <2>3, MirrorConstants
    <2>8. SetsAside(w, x)
      BY <1>5, <2>1, <2>3, <2>4, <2>5, <2>7 DEF SetsAside, d
    <2> QED
      BY <1>1, <1>5, <1>6, <2>1, <2>6, <2>8, VisitsKeep
  <1> QED
    BY <1>14, <1>15

LEMMA WalkEndsKeeps ==
    ASSUME NEW w \in Mirrors, WalkInv(w), Mirror(w)!WalkEnds
    PROVE  WalkInv(w)'
  <1>1. /\ pc = "walk" /\ batch = <<>> /\ queue = <<>>
        /\ pc' = IF found = <<>> \/ Setting[w].LinkMode = "detect" THEN "done" ELSE "collect"
        /\ UNCHANGED <<page, cache, fetched, queue, batch, processed, found, protected, seen,
                       walked, next, used, remote, incomplete>>
    BY DEF Mirror!WalkEnds, Mirror!walkVars, Mirror!passVars
  <1>2. Waiting = {} /\ Waiting' = {}
    BY <1>1, ElementsOfEmpty DEF Waiting, Elements
  <1>3. Mirror(w)!FoundDirs' = Mirror(w)!FoundDirs
    BY <1>1 DEF Mirror!FoundDirs
  <1>4. pc' \in {"collect", "done"}
    BY <1>1
  <1>5. WalkTypes(w)'
    BY <1>1, <1>4 DEF WalkInv, WalkTypes, Lists
  <1>6. QueueInv(w)'
    BY <1>1, <1>2 DEF QueueInv
  <1>7. FoundInv(w)' /\ SeenInv(w)' /\ Mirror(w)!LinkHasItsTarget'
    BY <1>1, <1>3 DEF WalkInv, FoundInv, SeenInv, Mirror!LinkHasItsTarget, Scanning
  <1>8. PagesInv(w)' /\ RootInv(w)'
    BY <1>1, <1>2, <1>3 DEF WalkInv, PagesInv, RootInv, Scanning
  <1>9. CollectInv(w)'
    <2>1. next = 1 /\ remote = {} /\ \A d \in Setting[w].Dir : used[d] = NoPage
      BY <1>1 DEF WalkInv, CollectInv
    <2>2. \A i \in 1..Len(found) : used[found[i]] = NoPage
      BY <2>1, LenProperties DEF WalkInv, WalkTypes
    <2>3. \A i \in 1..Len(found) : ~(i < next)
      BY <2>1
    <2>4. pc' = "done" /\ Setting[w].LinkMode # "detect" => Len(found) < next
      BY <1>1, <2>1, EmptySeq
    <2> QED
      BY <1>1, <1>4, <2>1, <2>2, <2>3, <2>4 DEF CollectInv
  <1> QED
    BY <1>5, <1>6, <1>7, <1>8, <1>9 DEF WalkInv

\* The last read of the second pass ends a scan.
LEMMA CollectEndsKeeps ==
    ASSUME NEW w \in Mirrors, WalkInv(w), Mirror(w)!CollectEnds
    PROVE  WalkInv(w)'
  <1>1. /\ pc = "collect" /\ next > Len(found) /\ pc' = "done"
        /\ UNCHANGED <<page, cache, fetched, queue, batch, processed, found, protected, seen,
                       walked, next, used, remote, incomplete>>
    BY DEF Mirror!CollectEnds, Mirror!walkVars, Mirror!passVars
  <1>2. Waiting' = Waiting
    BY <1>1 DEF Waiting, Elements
  <1>3. Mirror(w)!FoundDirs' = Mirror(w)!FoundDirs
    BY <1>1 DEF Mirror!FoundDirs
  <1>4. WalkTypes(w)'
    BY <1>1 DEF WalkInv, WalkTypes, Lists
  <1>5. QueueInv(w)'
    BY <1>1, <1>2 DEF WalkInv, QueueInv
  <1>6. FoundInv(w)' /\ SeenInv(w)' /\ Mirror(w)!LinkHasItsTarget'
    BY <1>1, <1>3 DEF WalkInv, FoundInv, SeenInv, Mirror!LinkHasItsTarget, Scanning
  <1>7. PagesInv(w)' /\ RootInv(w)'
    BY <1>1, <1>2, <1>3 DEF WalkInv, PagesInv, RootInv, Scanning
  <1>8. CollectInv(w)'
    <2>1. Len(found) \in Nat /\ next \in Nat
      BY LenProperties DEF WalkInv, WalkTypes
    <2> QED
      BY <1>1, <1>3, <2>1 DEF WalkInv, CollectInv
  <1> QED
    BY <1>4, <1>5, <1>6, <1>7, <1>8 DEF WalkInv

LEMMA CollectKeeps ==
    ASSUME NEW w \in Mirrors, WalkInv(w), Mirror(w)!Collect
    PROVE  WalkInv(w)'
  <1> DEFINE d == found[next]
  <1>1. pc = "collect" /\ next <= Len(found) /\ next' = next + 1
    BY DEF Mirror!Collect
  <1>2. PICK listing \in Mirror(w)!Readable(d) \union {Unread} :
            /\ used' = [used EXCEPT ![d] = IF listing = Unread THEN NoPage ELSE listing]
            /\ remote' = remote \union (IF listing = Unread THEN {}
                                        ELSE listing \intersect Setting[w].File)
            /\ incomplete' = (incomplete \/ listing = Unread)
            /\ Mirror(w)!Remember(d, listing)
    BY DEF Mirror!Collect
  <1>3. UNCHANGED <<page, pc, fetched, queue, batch, processed, found, protected, seen, walked>>
    BY DEF Mirror!Collect, Mirror!walkVars
  <1>4. /\ next \in Nat \ {0} /\ Len(found) \in Nat /\ next \in 1..Len(found)
        /\ d \in Setting[w].Dir
    BY <1>1, LenProperties DEF WalkInv, WalkTypes
  <1>5. d \in Mirror(w)!FoundDirs
    BY <1>4 DEF Mirror!FoundDirs
  <1>6. listing # Unread => listing \in Setting[w].Pages[d] /\ listing # NoPage
    BY <1>4, ReadableIsListing, MirrorConstants DEF WalkInv
  <1>7. /\ \A e \in Setting[w].Dir : e # d => used'[e] = used[e]
        /\ used'[d] = IF listing = Unread THEN NoPage ELSE listing
        /\ Lists(w, used, {NoPage})'
    BY <1>2, <1>4, <1>6 DEF WalkInv, WalkTypes, Lists
  <1>8. used[d] = NoPage
    BY <1>1, <1>4 DEF WalkInv, CollectInv
  <1>9. Lists(w, cache, {NoPage})'
    BY <1>2, <1>4, RememberKeeps DEF WalkInv
  <1>10. incomplete' \in BOOLEAN /\ (incomplete => incomplete') /\ (listing = Unread => incomplete')
    BY <1>2 DEF WalkInv, WalkTypes
  <1>11. Mirror(w)!FoundDirs' = Mirror(w)!FoundDirs /\ Waiting' = Waiting
    BY <1>3 DEF Mirror!FoundDirs, Waiting, Elements
  <1>12. \A i \in 1..Len(found) : found[i] = d => i = next
    BY <1>4 DEF WalkInv, FoundInv
  <1>13. \A i \in 1..Len(found) : found[i] \in Setting[w].Dir
    BY LenProperties DEF WalkInv, WalkTypes
  <1> HIDE DEF d
  <1>14. WalkTypes(w)'
    <2>1. Lists(w, page, {})' /\ Lists(w, fetched, {NoPage, Queued, Unread})'
          /\ Lists(w, walked, {NoPage})'
      BY <1>3 DEF WalkInv, WalkTypes, Lists
    <2>2. next' \in Nat \ {0}
      BY <1>1, <1>4
    <2>3. remote' \subseteq Setting[w].File
      BY <1>2 DEF WalkInv, WalkTypes
    <2> QED
      BY <1>3, <1>7, <1>9, <1>10, <2>1, <2>2, <2>3 DEF WalkInv, WalkTypes
  <1>15. QueueInv(w)' /\ RootInv(w)'
    BY <1>3, <1>11 DEF WalkInv, QueueInv, RootInv
  <1>16. FoundInv(w)' /\ SeenInv(w)' /\ Mirror(w)!LinkHasItsTarget'
    BY <1>3, <1>11 DEF WalkInv, FoundInv, SeenInv, Mirror!LinkHasItsTarget
  <1>17. PagesInv(w)'
    BY <1>3, <1>10, <1>11 DEF WalkInv, PagesInv
  <1>18. CollectInv(w)'
    <2>1. pc' = "collect"
      BY <1>1, <1>3
    <2>2. ASSUME NEW f \in remote'
          PROVE  \E e \in Mirror(w)!FoundDirs : used'[e] # NoPage /\ f \in used'[e]
      <3>1. CASE f \in remote
        <4>1. PICK e \in Mirror(w)!FoundDirs : used[e] # NoPage /\ f \in used[e]
          BY <3>1 DEF WalkInv, CollectInv
        <4>2. e \in Setting[w].Dir /\ e # d
          BY <1>8, <1>13, <4>1 DEF Mirror!FoundDirs
        <4> QED
          BY <1>7, <4>1, <4>2
      <3>2. CASE f \notin remote
        <4>1. listing # Unread /\ f \in listing
          BY <1>2, <3>2
        <4> QED
          BY <1>5, <1>6, <1>7, <4>1
      <3> QED
        BY <3>1, <3>2
    <2>3. ASSUME NEW e \in Setting[w].Dir, used'[e] # NoPage
          PROVE  used'[e] \intersect Setting[w].File \subseteq remote'
      <3>1. CASE e = d
        BY <1>2, <1>7, <2>3, <3>1
      <3>2. CASE e # d
        BY <1>2, <1>7, <2>3, <3>2 DEF WalkInv, CollectInv
      <3> QED
        BY <3>1, <3>2
    <2>4. ASSUME NEW i \in 1..Len(found), next' <= i
          PROVE  used'[found[i]] = NoPage
      <3>1. next <= i /\ i # next
        BY <1>1, <1>4, <2>4
      <3>2. found[i] # d /\ used[found[i]] = NoPage
        BY <1>1, <1>12, <3>1 DEF WalkInv, CollectInv
      <3> QED
        BY <1>7, <1>13, <3>2
    <2>5. ASSUME ~incomplete', NEW i \in 1..Len(found), i < next'
          PROVE  used'[found[i]] # NoPage
      <3>1. CASE i = next
        BY <1>6, <1>7, <1>10, <2>5, <3>1 DEF d
      <3>2. CASE i # next
        <4>1. i < next
          BY <1>1, <1>4, <2>5, <3>2
        <4>2. found[i] # d /\ used[found[i]] # NoPage
          BY <1>1, <1>10, <1>12, <2>5, <3>2, <4>1 DEF WalkInv, CollectInv
        <4> QED
          BY <1>7, <1>13, <4>2
      <3> QED
        BY <3>1, <3>2
    <2> QED
      BY <1>3, <1>11, <2>1, <2>2, <2>3, <2>4, <2>5 DEF CollectInv
  <1> QED
    BY <1>14, <1>15, <1>16, <1>17, <1>18 DEF WalkInv

\* Outside a scan, what it found is not gone by.
LEMMA StoppedScan ==
    ASSUME NEW w \in Mirrors, WalkInv(w),
           pc' \in {"idle", "aborted"}, queue' = <<>>, batch' = <<>>,
           Lists(w, page, {})', Lists(w, cache, {NoPage})',
           Lists(w, fetched, {NoPage, Queued, Unread})', incomplete' \in BOOLEAN,
           UNCHANGED <<processed, found, protected, seen, walked, next, used, remote>>
    PROVE  WalkInv(w)'
  <1>1. Waiting' = {}
    BY ElementsOfEmpty DEF Waiting, Elements
  <1>2. Mirror(w)!FoundDirs' = Mirror(w)!FoundDirs
    BY DEF Mirror!FoundDirs
  <1>3. /\ queue' \in Seq([dir: Setting[w].Dir, depth: Nat])
        /\ batch' \in Seq([dir: Setting[w].Dir, depth: Nat])
    BY EmptySeq
  <1>4. WalkTypes(w)'
    BY <1>3 DEF WalkInv, WalkTypes, Lists
  <1>5. QueueInv(w)' /\ RootInv(w)'
    BY <1>1 DEF QueueInv, RootInv, Scanning
  <1>6. FoundInv(w)' /\ PagesInv(w)' /\ SeenInv(w)'
    BY <1>2 DEF WalkInv, FoundInv, PagesInv, SeenInv, Scanning
  <1>7. Mirror(w)!LinkHasItsTarget' /\ CollectInv(w)'
    BY <1>2 DEF WalkInv, Mirror!LinkHasItsTarget, CollectInv
  <1> QED
    BY <1>4, <1>5, <1>6, <1>7 DEF WalkInv

LEMMA AbortKeeps ==
    ASSUME NEW w \in Mirrors, WalkInv(w), Mirror(w)!Abort
    PROVE  WalkInv(w)'
  <1>1. /\ pc' = "aborted" /\ queue' = <<>> /\ batch' = <<>>
        /\ UNCHANGED <<page, cache, processed, found, protected, seen, walked, next, used, remote>>
    BY DEF Mirror!Abort, Mirror!passVars
  <1>2. incomplete' \in BOOLEAN
    BY DEF Mirror!Abort
  <1>3. Lists(w, fetched, {NoPage, Queued, Unread})'
    BY DEF Mirror!Abort, Lists
  <1>4. Lists(w, page, {})' /\ Lists(w, cache, {NoPage})'
    BY <1>1 DEF WalkInv, WalkTypes, Lists
  <1> QED
    BY <1>1, <1>2, <1>3, <1>4, StoppedScan

LEMMA CrashKeeps ==
    ASSUME NEW w \in Mirrors, WalkInv(w), Mirror(w)!Crash
    PROVE  WalkInv(w)'
  <1>1. /\ pc' = "idle" /\ queue' = <<>> /\ batch' = <<>>
        /\ UNCHANGED <<page, processed, found, protected, seen, walked, next, used, remote>>
    BY DEF Mirror!Crash, Mirror!passVars
  <1>2. incomplete' \in BOOLEAN
    BY DEF Mirror!Crash
  <1>3. Lists(w, cache, {NoPage})' /\ Lists(w, fetched, {NoPage, Queued, Unread})'
    BY DEF Mirror!Crash, Lists
  <1>4. Lists(w, page, {})'
    BY <1>1 DEF WalkInv, WalkTypes, Lists
  <1> QED
    BY <1>1, <1>2, <1>3, <1>4, StoppedScan

\* The root waits, or is protected as a whole.
LEMMA BeginKeeps ==
    ASSUME NEW w \in Mirrors, WalkInv(w), Mirror(w)!Begin
    PROVE  WalkInv(w)'
  <1> DEFINE x == [dir |-> Setting[w].Root, depth |-> 0]
             Rec == [dir: Setting[w].Dir, depth: Nat]
             excluded == Mirror(w)!IsExcluded(Setting[w].Root)
  <1>1. /\ pc' = "walk" /\ queue' = (IF excluded THEN <<>> ELSE <<x>>) /\ batch' = <<>>
        /\ protected' = IF excluded THEN {Setting[w].Root} ELSE {}
        /\ processed' = {} /\ found' = <<>> /\ seen' = {} /\ remote' = {} /\ next' = 1
        /\ walked' = [d \in Setting[w].Dir |-> NoPage]
        /\ used' = [d \in Setting[w].Dir |-> NoPage]
        /\ fetched' = [d \in Setting[w].Dir |-> NoPage]
        /\ UNCHANGED <<page, cache>>
    BY DEF Mirror!Begin
  <1>2. incomplete' \in BOOLEAN
    BY DEF Mirror!Begin
  <1>3. x \in Rec /\ Setting[w].Root \in Setting[w].Dir
    BY PathConstants
  <1>4. Waiting' = IF excluded THEN {} ELSE {x}
    BY <1>1 DEF Waiting, Elements
  <1>5. Mirror(w)!FoundDirs' = {} /\ Len(found') = 0
    BY <1>1 DEF Mirror!FoundDirs
  <1>6. queue' \in Seq(Rec) /\ batch' \in Seq(Rec) /\ found' \in Seq(Setting[w].Dir)
    <2>1. <<x>> \in Seq(Rec)
      BY <1>3
    <2> HIDE DEF x, Rec
    <2> QED
      BY <1>1, <2>1, EmptySeq
  <1>7. WalkTypes(w)'
    <2>1. Lists(w, page, {})' /\ Lists(w, cache, {NoPage})'
      BY <1>1 DEF WalkInv, WalkTypes, Lists
    <2>2. /\ Lists(w, fetched, {NoPage, Queued, Unread})'
          /\ Lists(w, used, {NoPage})' /\ Lists(w, walked, {NoPage})'
      BY <1>1 DEF Lists
    <2>3. pc' = "walk" /\ processed' = {} /\ remote' = {} /\ next' = 1 /\ protected' \subseteq Setting[w].Dir
      BY <1>1, <1>3
    <2> QED
      BY <1>2, <1>6, <2>1, <2>2, <2>3 DEF WalkTypes
  <1>8. QueueInv(w)'
    <2>1. Setting[w].MaxDepth \in Nat /\ Mirror(w)!PathDepth(Setting[w].Root) \in Nat
      BY <1>3, MirrorConstants, DepthIsCounted
    <2> QED
      BY <1>1, <1>4, <2>1 DEF QueueInv
  <1>9. FoundInv(w)' /\ PagesInv(w)'
    BY <1>1, <1>5 DEF FoundInv, PagesInv
  <1>10. RootInv(w)'
    BY <1>1, <1>4 DEF RootInv
  <1>11. SeenInv(w)' /\ Mirror(w)!LinkHasItsTarget'
    BY <1>1, <1>3 DEF SeenInv, Mirror!LinkHasItsTarget
  <1>12. CollectInv(w)'
    BY <1>1 DEF CollectInv
  <1> QED
    BY <1>7, <1>8, <1>9, <1>10, <1>11, <1>12 DEF WalkInv

LEMMA WalkerKeeps ==
    ASSUME NEW w \in Mirrors, WalkInv(w), Mirror(w)!Walker
    PROVE  WalkInv(w)'
  <1>1. ASSUME NEW d \in Setting[w].Dir, Mirror(w)!Fetch(d)
        PROVE  WalkInv(w)'
    BY <1>1, ReadingKeeps
  <1> QED
    BY <1>1, FillBatchKeeps, DropKeeps, VisitLeafKeeps, VisitKeeps, WalkEndsKeeps, CollectKeeps,
       CollectEndsKeeps DEF Mirror!Walker

LEMMA ServerKeeps ==
    ASSUME NEW w \in Mirrors, WalkInv(w), Mirror(w)!DiscoveryEnvironment
    PROVE  WalkInv(w)'
  BY ReadingKeeps DEF Mirror!DiscoveryEnvironment

LEMMA WalkNextKeeps ==
    ASSUME NEW w \in Mirrors, WalkInv(w), Mirror(w)!Next
    PROVE  WalkInv(w)'
  BY BeginKeeps, WalkerKeeps, AbortKeeps, ServerKeeps DEF Mirror!Next

\* A step that leaves the walk alone.
LEMMA WalkRests ==
    ASSUME NEW w \in Mirrors, WalkInv(w), UNCHANGED Mirror(w)!discoveryVars
    PROVE  WalkInv(w)'
  <1>1. UNCHANGED <<page, cache, pc, fetched, queue, batch, processed, found, protected, seen,
                    walked, next, used, remote, incomplete>>
    BY DEF Mirror!discoveryVars, Mirror!walkVars, Mirror!passVars
  <1>2. Waiting' = Waiting
    BY <1>1 DEF Waiting, Elements
  <1>3. /\ Lists(w, page, {})' /\ Lists(w, cache, {NoPage})'
        /\ Lists(w, fetched, {NoPage, Queued, Unread})'
    BY <1>1 DEF WalkInv, WalkTypes, Lists
  <1>4. /\ queue' \in Seq([dir: Setting[w].Dir, depth: Nat])
        /\ batch' \in Seq([dir: Setting[w].Dir, depth: Nat])
    BY <1>1 DEF WalkInv, WalkTypes
  <1> QED
    BY <1>1, <1>2, <1>3, <1>4, PagesMayChange

-----------------------------------------------------------------------------
(* What the invariant of the walk says of its results *)

\* Nothing waits when the walk is over.
LEMMA WalkIsOver ==
    ASSUME NEW w \in Mirrors, WalkInv(w), pc # "walk"
    PROVE  Waiting = {}
  BY ElementsOfEmpty DEF WalkInv, QueueInv, Waiting

LEMMA FoundAreDirs ==
    ASSUME NEW w \in Mirrors, WalkInv(w)
    PROVE  Mirror(w)!FoundDirs \subseteq Setting[w].Dir
  BY LenProperties DEF WalkInv, WalkTypes, Mirror!FoundDirs

LEMMA EachFoundOnce ==
    ASSUME NEW w \in Mirrors, WalkInv(w)
    PROVE  Mirror(w)!Cardinality(Mirror(w)!FoundDirs) = Len(found)
  <1> DEFINE FD == Mirror(w)!FoundDirs
             F == [i \in 1..Len(found) |-> found[i]]
  <1>1. Len(found) \in Nat
    BY LenProperties DEF WalkInv, WalkTypes
  <1>2. F \in [1..Len(found) -> FD] /\ \A d \in FD : \E i \in 1..Len(found) : F[i] = d
    BY DEF Mirror!FoundDirs
  <1>3. \A i, j \in 1..Len(found) : F[i] = F[j] => i = j
    BY DEF WalkInv, FoundInv
  <1> HIDE DEF F, FD
  <1>4. F \in Surjection(1..Len(found), FD)
    BY <1>2 DEF Surjection
  <1>5. F \in Injection(1..Len(found), FD)
    BY <1>2, <1>3 DEF Injection, IsInjective
  <1>6. IsFiniteSet(1..Len(found)) /\ Cardinality(1..Len(found)) = Len(found)
    BY <1>1, FS_Interval, SMTT(30)
  <1>7. Cardinality(FD) = Len(found)
    BY <1>4, <1>5, <1>6, FS_Surjection
  <1> QED
    BY <1>7, MirrorCounts DEF FD

LEMMA CompleteHasRead ==
    ASSUME NEW w \in Mirrors, WalkInv(w)
    PROVE  Mirror(w)!CompleteMeansRead
  <1> DEFINE FD == Mirror(w)!FoundDirs
  <1> SUFFICES ASSUME pc = "done", ~incomplete, Setting[w].LinkMode # "detect"
               PROVE  /\ Mirror(w)!Cardinality(FD) = Len(found)
                      /\ \A d \in FD : used[d] # NoPage
                      /\ \A f \in remote : \E d \in FD : f \in used[d]
                      /\ \A d \in FD : walked[d] # NoPage =>
                            /\ walked[d] \in Setting[w].Pages[d]
                            /\ \A e \in walked[d] \intersect Setting[w].Dir :
                                  e \in FD \union protected \/ Mirror(w)!IsExcluded(e)
    BY DEF Mirror!CompleteMeansRead
  <1>1. Mirror(w)!Cardinality(FD) = Len(found)
    BY EachFoundOnce
  <1>2. ASSUME NEW d \in FD
        PROVE  used[d] # NoPage
    <2>1. PICK i \in 1..Len(found) : d = found[i]
      BY DEF Mirror!FoundDirs
    <2>2. i < next
      BY LenProperties DEF WalkInv, WalkTypes, CollectInv
    <2> QED
      BY <2>1, <2>2 DEF WalkInv, CollectInv
  <1>3. \A f \in remote : \E d \in FD : f \in used[d]
    BY DEF WalkInv, CollectInv
  <1>4. ASSUME NEW d \in FD, walked[d] # NoPage
        PROVE  /\ walked[d] \in Setting[w].Pages[d]
               /\ \A e \in walked[d] \intersect Setting[w].Dir :
                     e \in FD \union protected \/ Mirror(w)!IsExcluded(e)
    <2>1. walked[d] \in Setting[w].Pages[d]
      BY <1>4, FoundAreDirs DEF WalkInv, WalkTypes, Lists
    <2>2. \A e \in walked[d] \intersect Setting[w].Dir : e \in processed \/ Mirror(w)!IsExcluded(e)
      BY <1>4, WalkIsOver DEF WalkInv, PagesInv, Scanning
    <2> QED
      BY <2>1, <2>2 DEF WalkInv, FoundInv, Scanning
  <1> QED
    BY <1>1, <1>2, <1>3, <1>4

LEMMA RootsAreDisjointCover ==
    ASSUME NEW w \in Mirrors, WalkInv(w)
    PROVE  Mirror(w)!SelectionIsDisjointCover
  <1> SUFFICES ASSUME NEW matching \in SUBSET Setting[w].Dir, NEW d \in Mirror(w)!Matched(matching)
               PROVE  Mirror(w)!Cardinality(
                          Mirror(w)!SelectedRoots(matching) \intersect Setting[w].Above[d]) = 1
    BY DEF Mirror!SelectionIsDisjointCover
  <1> DEFINE M == Mirror(w)!Matched(matching)
             R == Mirror(w)!SelectedRoots(matching)
             A(x) == Setting[w].Above[x]
             F == [x \in Setting[w].Dir |-> Mirror(w)!PathDepth(x)]
             T == M \intersect A(d)
  <1>1. M \subseteq Setting[w].Dir
    BY FoundAreDirs DEF Mirror!Matched
  <1>2. \A r : r \in R <=> r \in M /\ \A e \in A(r) \ {r} : e \notin M
    BY DEF Mirror!SelectedRoots
  <1> HIDE DEF M, R
  <1>3. d \in M /\ d \in Setting[w].Dir /\ d \in A(d)
    BY <1>1, PathConstants DEF M
  <1>4. F \in [Setting[w].Dir -> Nat] /\ T \subseteq Setting[w].Dir /\ T # {}
    BY <1>1, <1>3, DepthIsCounted
  <1>5. PICK r \in T : \A y \in T : F[r] <= F[y]
    <2> HIDE DEF F, T
    <2> QED
      BY <1>4, Least
  <1>6. r \in M /\ r \in A(d) /\ r \in Setting[w].Dir
    BY <1>1
  <1>7. ASSUME NEW e \in A(r), e # r, e \in M
        PROVE  FALSE
    <2>1. e \in A(d)
      BY <1>3, <1>6, <1>7, PathConstants
    <2>2. Mirror(w)!PathDepth(r) <= Mirror(w)!PathDepth(e)
      BY <1>1, <1>5, <1>6, <1>7, <2>1
    <2>3. Mirror(w)!PathDepth(e) < Mirror(w)!PathDepth(r) /\ e \in Setting[w].Dir
      BY <1>6, <1>7, AncestorsAreShallower
    <2> QED
      BY <1>6, <2>2, <2>3, DepthIsCounted
  <1>8. r \in R
    BY <1>2, <1>6, <1>7
  <1>9. ASSUME NEW q \in R \intersect A(d)
        PROVE  q = r
    <2>1. q \in M /\ q \in Setting[w].Dir
      BY <1>1, <1>2
    <2>2. q \in A(r) \/ r \in A(q)
      BY <1>3, <1>6, <1>9, PathConstants
    <2> QED
      BY <1>2, <1>6, <1>7, <1>9, <2>1, <2>2
  <1>10. R \intersect A(d) = {r}
    BY <1>6, <1>8, <1>9
  <1> QED
    BY <1>10, FS_Singleton, MirrorCounts DEF R

\* The run saw that a file was not listed.
SeenAbsent(w, f) ==
    LET home == Setting[w].Home[f]
        d == Mirror(w)!Deepest(Setting[w].Above[home] \intersect Mirror(w)!FoundDirs)
    IN  IF d = home THEN used[d] # NoPage /\ f \notin used[d]
        ELSE walked[d] # NoPage /\ Mirror(w)!Step(d, home) \notin walked[d]

\* The clean-up's business is what the run saw to be absent.
LEMMA ObsoleteIsAbsent ==
    ASSUME NEW w \in Mirrors, WalkInv(w), pc = "done", ~incomplete,
           Setting[w].LinkMode # "detect", Mirror(w)!LinksLeadDown,
           NEW f \in Setting[w].File, f \notin remote, Mirror(w)!FileSelected(f)
    PROVE  SeenAbsent(w, f)
  <1> DEFINE h == Setting[w].Home[f]
             FD == Mirror(w)!FoundDirs
             S == Setting[w].Above[h] \intersect FD
             d == Mirror(w)!Deepest(S)
  <1>1. h \in Setting[w].Dir /\ Setting[w].MaxDepth \in Nat
    BY MirrorConstants
  <1>2. /\ Mirror(w)!PathDepth(h) <= Setting[w].MaxDepth /\ ~Mirror(w)!IsExcluded(h)
        /\ ~Mirror(w)!IsExcluded(Setting[w].Root) /\ Setting[w].Above[h] \intersect protected = {}
    BY DEF Mirror!FileSelected, Mirror!DirSelected
  <1>3. Setting[w].Root \in S
    <2>1. Setting[w].Root \in FD
      BY <1>2, WalkIsOver DEF WalkInv, RootInv, Scanning
    <2> QED
      BY <1>1, <2>1, PathConstants
  <1> HIDE DEF h
  <1>4. /\ d \in S
        /\ \A x \in S : Mirror(w)!PathDepth(x) <= Mirror(w)!PathDepth(d)
    <2>1. S # {} /\ S \in SUBSET Setting[w].Above[h]
      BY <1>3
    <2> HIDE DEF S
    <2> QED
      BY <1>1, <2>1, DeepestExists
  <1> HIDE DEF d
  <1>5. d \in Setting[w].Above[h] /\ d \in FD /\ d \in Setting[w].Dir
    BY <1>4, FoundAreDirs
  <1>6. CASE d = h
    <2>1. used[h] # NoPage
      BY <1>5, <1>6, CompleteHasRead DEF Mirror!CompleteMeansRead
    <2>2. f \notin used[h]
      BY <1>1, <2>1 DEF WalkInv, CollectInv
    <2> QED
      BY <1>6, <2>1, <2>2 DEF SeenAbsent, d, h
  <1>7. CASE d # h
    <2> DEFINE s == Mirror(w)!Step(d, h)
    <2>1. s \in Setting[w].Above[h] /\ Mirror(w)!PathDepth(s) = Mirror(w)!PathDepth(d) + 1
      BY <1>1, <1>5, <1>7, StepExists DEF Mirror!Step
    <2> HIDE DEF s
    <2>2. Mirror(w)!PathDepth(d) < Mirror(w)!PathDepth(h)
      BY <1>1, <1>5, <1>7, AncestorsAreShallower
    <2>3. Mirror(w)!PathDepth(d) \in Nat /\ Mirror(w)!PathDepth(h) \in Nat
      BY <1>1, <1>5, DepthIsCounted
    <2>4. walked[d] # NoPage
      <3>1. walked[d] = NoPage => Setting[w].MaxDepth <= Mirror(w)!PathDepth(d)
        BY <1>5 DEF WalkInv, PagesInv, Scanning
      <3> QED
        BY <1>1, <1>2, <2>2, <2>3, <3>1
    <2>5. ASSUME s \in walked[d]
          PROVE  FALSE
      <3>1. s \in Setting[w].Dir
        BY <1>1, <2>1, PathConstants
      <3>2. s \in processed \/ Mirror(w)!IsExcluded(s)
        BY <1>5, <2>4, <2>5, <3>1, WalkIsOver DEF WalkInv, PagesInv, Scanning
      <3>3. CASE Mirror(w)!IsExcluded(s)
        <4>1. Setting[w].Above[s] \subseteq Setting[w].Above[h]
          BY <1>1, <2>1, PathConstants
        <4> QED
          BY <1>2, <3>3, <4>1 DEF Mirror!IsExcluded
      <3>4. CASE s \in processed
        <4>1. s \in FD \union protected
          BY <3>4 DEF WalkInv, FoundInv, Scanning
        <4>2. s \in S
          BY <1>2, <2>1, <4>1
        <4> QED
          BY <1>4, <2>1, <2>3, <4>2
      <3> QED
        BY <3>2, <3>3, <3>4
    <2> QED
      BY <1>7, <2>4, <2>5 DEF SeenAbsent, d, h, s
  <1> QED
    BY <1>6, <1>7

-----------------------------------------------------------------------------
(* A run *)

\* What a step of a run may do to the tree.
Kept(w) ==
    /\ Mirror(w)!RemovesInCleanup
    /\ Setting[w].Policy = "move" => Mirror(w)!ArchivesRemoved
    /\ Setting[w].DryRun \/ Setting[w].LinkMode = "detect" => Mirror(w)!ChangesNothing

LEMMA TreeRests ==
    ASSUME NEW w \in Syncs, UNCHANGED <<local, dirs, archive>>
    PROVE  Kept(w)
  BY DEF Kept, Mirror!RemovesInCleanup, Mirror!ArchivesRemoved, Mirror!ChangesNothing

LEMMA RunInitially ==
    ASSUME NEW w \in Syncs, Mirror(w)!SyncInit
    PROVE  RunInv(w)
  <1>1. /\ phase = "idle" /\ result = "none" /\ removed = {} /\ todo = {} /\ active = {}
        /\ local \subseteq Setting[w].File
        /\ dirs = UNION {Setting[w].Above[Setting[w].Home[f]] : f \in local}
    BY DEF Mirror!SyncInit
  <1>2. failed \in BOOLEAN /\ cleanFailed \in BOOLEAN /\ declined \in BOOLEAN
    BY DEF Mirror!SyncInit
  <1>3. PhaseInv(w) /\ LoadInv(w) /\ CleanInv(w)
    BY <1>1, <1>2 DEF PhaseInv, LoadInv, CleanInv
  <1>4. Mirror(w)!NoTreeIsCutOff
    BY <1>1 DEF Mirror!NoTreeIsCutOff
  <1>5. Mirror(w)!SuccessMirrors /\ Mirror(w)!RemovedWasAbsent
    BY <1>1 DEF Mirror!SuccessMirrors, Mirror!RemovedWasAbsent
  <1> QED
    BY <1>3, <1>4, <1>5 DEF RunInv

LEMMA RemovedAreAbsent ==
    ASSUME NEW w \in Syncs
    PROVE  Mirror(w)!RemovedWasAbsent <=> \A f \in removed : SeenAbsent(w, f)
  BY DEF Mirror!RemovedWasAbsent, SeenAbsent

\* What the run saw is the scan's.
LEMMA SightRests ==
    ASSUME NEW w \in Syncs, UNCHANGED <<found, used, walked>>, NEW f
    PROVE  SeenAbsent(w, f)' <=> SeenAbsent(w, f)
  <1>1. Mirror(w)!FoundDirs' = Mirror(w)!FoundDirs
    BY DEF Mirror!FoundDirs
  <1> QED
    BY <1>1 DEF SeenAbsent

LEMMA SelectionRests ==
    ASSUME NEW w \in Syncs, UNCHANGED protected, NEW f
    PROVE  Mirror(w)!FileSelected(f)' <=> Mirror(w)!FileSelected(f)
  BY DEF Mirror!FileSelected, Mirror!DirSelected

\* The results of the scan do not change after it.
ScanRests == UNCHANGED <<pc, incomplete, remote, protected, found, used, walked>>

LEMMA DiscoveryRests ==
    ASSUME NEW w \in Syncs,
           UNCHANGED Mirror(w)!discoveryVars \/ Mirror(w)!DiscoveryEnvironment
    PROVE  ScanRests
  <1>1. CASE UNCHANGED Mirror(w)!discoveryVars
    BY <1>1 DEF ScanRests, Mirror!discoveryVars, Mirror!walkVars, Mirror!passVars
  <1>2. ASSUME NEW d, \/ Mirror(w)!Expire(d) \/ \E listing : Mirror(w)!PageChange(d, listing)
        PROVE  ScanRests
    BY <1>2 DEF ScanRests, Mirror!Expire, Mirror!PageChange, Mirror!walkVars, Mirror!passVars
  <1> QED
    BY <1>1, <1>2 DEF Mirror!DiscoveryEnvironment

LEMMA AbsenceRests ==
    ASSUME NEW w \in Syncs, RunInv(w), UNCHANGED <<found, used, walked, removed>>
    PROVE  Mirror(w)!LinksLeadDown => Mirror(w)!RemovedWasAbsent'
  <1>1. Mirror(w)!LinksLeadDown => \A f \in removed : SeenAbsent(w, f)
    BY RemovedAreAbsent DEF RunInv
  <1>2. \A f \in removed' : f \in removed /\ (SeenAbsent(w, f)' <=> SeenAbsent(w, f))
    BY SightRests
  <1>3. Mirror(w)!RemovedWasAbsent' <=> \A f \in removed' : SeenAbsent(w, f)'
    BY DEF Mirror!RemovedWasAbsent, SeenAbsent
  <1> QED
    BY <1>1, <1>2, <1>3

\* A step that leaves the tree alone and does not end the run.
LEMMA RunGoesOn ==
    ASSUME NEW w \in Syncs, RunInv(w), UNCHANGED <<found, used, walked, local, dirs, removed>>,
           PhaseInv(w)', LoadInv(w)', CleanInv(w)', result' # "success"
    PROVE  RunInv(w)'
  <1>1. Mirror(w)!NoTreeIsCutOff'
    BY DEF RunInv, Mirror!NoTreeIsCutOff
  <1>2. Mirror(w)!SuccessMirrors'
    BY DEF Mirror!SuccessMirrors
  <1> QED
    BY <1>1, <1>2, AbsenceRests DEF RunInv, Mirror!LinksLeadDown

\* A step that ends it.
LEMMA RunEnds ==
    ASSUME NEW w \in Syncs, RunInv(w), ScanRests, UNCHANGED <<local, dirs, removed>>,
           phase' = "end", active' = {}, todo' \subseteq Setting[w].File,
           failed' \in BOOLEAN, cleanFailed' \in BOOLEAN, declined' \in BOOLEAN,
           result' = "success" /\ ~Setting[w].DryRun /\ Setting[w].LinkMode # "detect" =>
               /\ remote \subseteq local
               /\ Setting[w].Policy \in {"delete", "move"} /\ ~declined' => Obsolete(w) = {}
    PROVE  RunInv(w)'
  <1>1. PhaseInv(w)' /\ LoadInv(w)' /\ CleanInv(w)'
    BY DEF RunInv, PhaseInv, LoadInv, CleanInv
  <1>2. Mirror(w)!NoTreeIsCutOff'
    BY DEF RunInv, Mirror!NoTreeIsCutOff
  <1>3. Mirror(w)!SuccessMirrors'
    <2>1. UNCHANGED <<local, remote, protected>>
      BY DEF ScanRests
    <2>2. Obsolete(w) = {} => \A f \in local : Mirror(w)!FileSelected(f) => f \in remote
      BY DEF Obsolete
    <2>3. \A f : Mirror(w)!FileSelected(f)' <=> Mirror(w)!FileSelected(f)
      BY <2>1, SelectionRests
    <2> QED
      BY <2>1, <2>2, <2>3 DEF Mirror!SuccessMirrors
  <1> QED
    BY <1>1, <1>2, <1>3, AbsenceRests DEF RunInv, ScanRests, Mirror!LinksLeadDown

-----------------------------------------------------------------------------
(* Its steps *)

LEMMA SyncKeeps ==
    ASSUME NEW w \in Syncs, WalkInv(w), RunInv(w), Mirror(w)!Sync
    PROVE  WalkInv(w)' /\ RunInv(w)' /\ Kept(w)
  <1>1. /\ Mirror(w)!Begin /\ phase' = "scan" /\ result' = "none" /\ removed' = {}
        /\ todo' = {} /\ active' = {} /\ UNCHANGED <<local, dirs, archive>>
    BY DEF Mirror!Sync
  <1>2. failed' \in BOOLEAN /\ cleanFailed' \in BOOLEAN /\ declined' \in BOOLEAN
    BY DEF Mirror!Sync
  <1>3. PhaseInv(w)' /\ LoadInv(w)' /\ CleanInv(w)'
    BY <1>1, <1>2 DEF RunInv, PhaseInv, LoadInv, CleanInv
  <1>4. Mirror(w)!NoTreeIsCutOff'
    BY <1>1 DEF RunInv, Mirror!NoTreeIsCutOff
  <1>5. Mirror(w)!SuccessMirrors' /\ Mirror(w)!RemovedWasAbsent'
    BY <1>1 DEF Mirror!SuccessMirrors, Mirror!RemovedWasAbsent
  <1>6. WalkInv(w)'
    BY <1>1, BeginKeeps DEF Mirrors
  <1> QED
    BY <1>1, <1>3, <1>4, <1>5, <1>6, TreeRests DEF RunInv

LEMMA ScanKeeps ==
    ASSUME NEW w \in Syncs, WalkInv(w), RunInv(w), Mirror(w)!Scan
    PROVE  WalkInv(w)' /\ RunInv(w)' /\ Kept(w)
  <1>1. phase = "scan" /\ (Mirror(w)!Walker \/ Mirror(w)!Abort)
    BY DEF Mirror!Scan
  <1>2. UNCHANGED <<phase, local, dirs, archive, removed, unchecked, todo, active, failed, limit,
                    obsolete, keptDirs, cleanFailed, declined, result>>
    BY DEF Mirror!Scan, Mirror!syncVars, Mirror!treeVars, Mirror!loadVars, Mirror!cleanVars
  <1>3. WalkInv(w)'
    BY <1>1, WalkerKeeps, AbortKeeps DEF Mirrors
  <1>4. removed = {} /\ result # "success"
    BY <1>1 DEF RunInv, PhaseInv
  <1>5. PhaseInv(w)' /\ LoadInv(w)' /\ CleanInv(w)'
    BY <1>1, <1>2 DEF RunInv, PhaseInv, LoadInv, CleanInv
  <1>6. Mirror(w)!NoTreeIsCutOff'
    BY <1>2 DEF RunInv, Mirror!NoTreeIsCutOff
  <1>7. Mirror(w)!SuccessMirrors' /\ Mirror(w)!RemovedWasAbsent'
    BY <1>2, <1>4 DEF Mirror!SuccessMirrors, Mirror!RemovedWasAbsent
  <1> QED
    BY <1>2, <1>3, <1>5, <1>6, <1>7, TreeRests DEF RunInv

\* The end of a run that has not come to its clean-up.
LEMMA StopsEarlyKeeps ==
    ASSUME NEW w \in Syncs, WalkInv(w), RunInv(w),
           \/ Mirror(w)!RefuseToStart \/ Mirror(w)!ScanFailed \/ Mirror(w)!Surveyed
           \/ Mirror(w)!RefuseClash
    PROVE  WalkInv(w)' /\ RunInv(w)' /\ Kept(w)
  <1>1. /\ phase' = "end" /\ phase # "load"
        /\ UNCHANGED Mirror(w)!discoveryVars
        /\ UNCHANGED <<local, dirs, archive, removed, todo, active>>
        /\ result' = "success" => Setting[w].LinkMode = "detect"
    BY DEF Mirror!RefuseToStart, Mirror!ScanFailed, Mirror!Surveyed, Mirror!RefuseClash,
           Mirror!Finish, Mirror!treeVars, Mirror!loadVars
  <1>2. UNCHANGED <<failed, cleanFailed, declined>>
    BY DEF Mirror!RefuseToStart, Mirror!ScanFailed, Mirror!Surveyed, Mirror!RefuseClash,
           Mirror!loadVars, Mirror!cleanVars
  <1>3. active = {} /\ todo \subseteq Setting[w].File
    BY <1>1 DEF RunInv, PhaseInv
  <1>4. failed \in BOOLEAN /\ cleanFailed \in BOOLEAN /\ declined \in BOOLEAN
    BY DEF RunInv, PhaseInv
  <1>5. ScanRests
    BY <1>1, DiscoveryRests
  <1>6. RunInv(w)'
    BY <1>1, <1>2, <1>3, <1>4, <1>5, RunEnds
  <1> QED
    BY <1>1, <1>6, WalkRests, TreeRests DEF Mirrors

LEMMA ScannedKeeps ==
    ASSUME NEW w \in Syncs, WalkInv(w), RunInv(w), Mirror(w)!Scanned
    PROVE  WalkInv(w)' /\ RunInv(w)' /\ Kept(w)
  <1>1. /\ phase = "scan" /\ pc = "done" /\ Setting[w].LinkMode # "detect"
        /\ phase' = "check" /\ unchecked' = remote /\ todo' = {}
        /\ UNCHANGED Mirror(w)!discoveryVars
        /\ UNCHANGED <<local, dirs, archive, removed, active, failed, result, cleanFailed, declined>>
    BY DEF Mirror!Scanned, Mirror!treeVars, Mirror!cleanVars
  <1>2. ScanRests
    BY <1>1, DiscoveryRests
  <1>3. PhaseInv(w)'
    BY <1>1, <1>2 DEF RunInv, PhaseInv, ScanRests
  <1>4. LoadInv(w)' /\ CleanInv(w)'
    BY <1>1, <1>2 DEF RunInv, LoadInv, CleanInv, ScanRests
  <1>5. result' # "success"
    BY <1>1 DEF RunInv, PhaseInv
  <1>6. RunInv(w)'
    BY <1>1, <1>2, <1>3, <1>4, <1>5, RunGoesOn DEF ScanRests
  <1> QED
    BY <1>1, <1>6, WalkRests, TreeRests DEF Mirrors

LEMMA CheckingKeeps ==
    ASSUME NEW w \in Syncs, WalkInv(w), RunInv(w), NEW f \in Setting[w].File,
           Mirror(w)!CheckFile(f) \/ Mirror(w)!CheckBroken(f)
    PROVE  WalkInv(w)' /\ RunInv(w)' /\ Kept(w)
  <1>1. /\ phase = "check" /\ f \in unchecked /\ unchecked' = unchecked \ {f}
        /\ UNCHANGED Mirror(w)!discoveryVars
        /\ UNCHANGED <<phase, local, dirs, archive, removed, active, result, cleanFailed, declined>>
    BY DEF Mirror!CheckFile, Mirror!CheckBroken, Mirror!treeVars, Mirror!cleanVars
  <1>2. \/ failed' = failed /\ f \in local /\ todo' = todo
        \/ failed' = failed /\ todo' = todo \union {f}
        \/ failed' = TRUE /\ todo' = todo
    BY DEF Mirror!CheckFile, Mirror!CheckBroken
  <1>3. ScanRests
    BY <1>1, DiscoveryRests
  <1>4. failed' \in BOOLEAN
    BY <1>2 DEF RunInv, PhaseInv
  <1>5. PhaseInv(w)'
    BY <1>1, <1>2, <1>3, <1>4 DEF RunInv, PhaseInv, ScanRests
  <1>6. LoadInv(w)' /\ CleanInv(w)'
    BY <1>1, <1>2, <1>3 DEF RunInv, LoadInv, CleanInv, ScanRests
  <1>7. result' # "success"
    BY <1>1 DEF RunInv, PhaseInv
  <1>8. RunInv(w)'
    BY <1>1, <1>3, <1>5, <1>6, <1>7, RunGoesOn DEF ScanRests
  <1> QED
    BY <1>1, <1>8, WalkRests, TreeRests DEF Mirrors

LEMMA CheckedKeeps ==
    ASSUME NEW w \in Syncs, WalkInv(w), RunInv(w), Mirror(w)!Checked
    PROVE  WalkInv(w)' /\ RunInv(w)' /\ Kept(w)
  <1>1. /\ phase = "check" /\ unchecked = {}
        /\ UNCHANGED Mirror(w)!discoveryVars
        /\ UNCHANGED <<local, dirs, archive, removed, unchecked, todo, active, failed, cleanFailed,
                       declined>>
    BY DEF Mirror!Checked, Mirror!treeVars, Mirror!cleanVars
  <1>2. \/ phase' = (IF Setting[w].DryRun THEN "clean" ELSE "load") /\ result' = result
        \/ phase' = "end" /\ result' = "failed"
    BY DEF Mirror!Checked, Mirror!Finish
  <1>3. ScanRests
    BY <1>1, DiscoveryRests
  <1>4. /\ active = {} /\ todo \subseteq Setting[w].File /\ result # "success" /\ removed = {}
        /\ pc = "done" /\ Setting[w].LinkMode # "detect" /\ local \subseteq Setting[w].File
    BY <1>1 DEF RunInv, PhaseInv
  <1>5. failed' \in BOOLEAN /\ cleanFailed' \in BOOLEAN /\ declined' \in BOOLEAN
    BY <1>1 DEF RunInv, PhaseInv
  <1>6. ASSUME phase' = (IF Setting[w].DryRun THEN "clean" ELSE "load") /\ result' = result
        PROVE  RunInv(w)'
    <2>1. PhaseInv(w)'
      BY <1>1, <1>3, <1>4, <1>5, <1>6 DEF PhaseInv, ScanRests
    <2>2. LoadInv(w)' /\ CleanInv(w)'
      BY <1>1, <1>3, <1>6 DEF RunInv, LoadInv, CleanInv, ScanRests
    <2> QED
      BY <1>1, <1>3, <1>4, <1>6, <2>1, <2>2, RunGoesOn DEF ScanRests
  <1>7. ASSUME phase' = "end" /\ result' = "failed"
        PROVE  RunInv(w)'
    BY <1>1, <1>3, <1>4, <1>5, <1>7, RunEnds
  <1> QED
    BY <1>1, <1>2, <1>6, <1>7, WalkRests, TreeRests DEF Mirrors

LEMMA SubmitKeeps ==
    ASSUME NEW w \in Syncs, WalkInv(w), RunInv(w), NEW f \in Setting[w].File, Mirror(w)!Submit(f)
    PROVE  WalkInv(w)' /\ RunInv(w)' /\ Kept(w)
  <1>1. /\ phase = "load" /\ f \in todo /\ todo' = todo \ {f} /\ active' = active \union {f}
        /\ UNCHANGED Mirror(w)!discoveryVars
        /\ UNCHANGED <<phase, local, dirs, archive, removed, unchecked, failed, result, cleanFailed,
                       declined>>
    BY DEF Mirror!Submit, Mirror!treeVars, Mirror!cleanVars
  <1>2. ScanRests
    BY <1>1, DiscoveryRests
  <1>3. PhaseInv(w)'
    BY <1>1, <1>2 DEF RunInv, PhaseInv, ScanRests
  <1>4. LoadInv(w)' /\ CleanInv(w)'
    BY <1>1, <1>2 DEF RunInv, LoadInv, CleanInv, ScanRests
  <1>5. result' # "success"
    BY <1>1 DEF RunInv, PhaseInv
  <1>6. RunInv(w)'
    BY <1>1, <1>2, <1>3, <1>4, <1>5, RunGoesOn DEF ScanRests
  <1> QED
    BY <1>1, <1>6, WalkRests, TreeRests DEF Mirrors

LEMMA DownloadedKeeps ==
    ASSUME NEW w \in Syncs, WalkInv(w), RunInv(w), NEW f \in Setting[w].File,
           Mirror(w)!Downloaded(f)
    PROVE  WalkInv(w)' /\ RunInv(w)' /\ Kept(w)
  <1>1. /\ f \in active /\ active' = active \ {f} /\ local' = local \union {f}
        /\ dirs' = dirs \union Setting[w].Above[Setting[w].Home[f]]
        /\ UNCHANGED Mirror(w)!discoveryVars
        /\ UNCHANGED <<phase, archive, removed, unchecked, todo, failed, result, cleanFailed,
                       declined>>
    BY DEF Mirror!Downloaded, Mirror!cleanVars
  <1>2. ScanRests
    BY <1>1, DiscoveryRests
  <1>3. phase = "load" /\ ~Setting[w].DryRun /\ Setting[w].LinkMode # "detect" /\ result # "success"
    BY <1>1 DEF RunInv, PhaseInv
  <1>4. PhaseInv(w)'
    BY <1>1, <1>2, <1>3 DEF RunInv, PhaseInv, ScanRests
  <1>5. LoadInv(w)' /\ CleanInv(w)'
    BY <1>1, <1>2, <1>3 DEF RunInv, LoadInv, CleanInv, ScanRests
  <1>6. Mirror(w)!NoTreeIsCutOff'
    BY <1>1 DEF RunInv, Mirror!NoTreeIsCutOff
  <1>7. Mirror(w)!SuccessMirrors'
    BY <1>1, <1>3 DEF Mirror!SuccessMirrors
  <1>8. RunInv(w)'
    BY <1>1, <1>2, <1>4, <1>5, <1>6, <1>7, AbsenceRests DEF RunInv, ScanRests, Mirror!LinksLeadDown
  <1>9. Kept(w)
    BY <1>1, <1>3
       DEF Kept, Mirror!RemovesInCleanup, Mirror!ArchivesRemoved, Mirror!ChangesNothing
  <1> QED
    BY <1>1, <1>8, <1>9, WalkRests DEF Mirrors

LEMMA DownloadFailedKeeps ==
    ASSUME NEW w \in Syncs, WalkInv(w), RunInv(w), NEW f \in Setting[w].File,
           Mirror(w)!DownloadFailed(f)
    PROVE  WalkInv(w)' /\ RunInv(w)' /\ Kept(w)
  <1>1. /\ f \in active /\ active' = active \ {f} /\ failed' = TRUE
        /\ UNCHANGED Mirror(w)!discoveryVars
        /\ UNCHANGED <<phase, local, dirs, archive, removed, unchecked, todo, result, cleanFailed,
                       declined>>
    BY DEF Mirror!DownloadFailed, Mirror!treeVars, Mirror!cleanVars
  <1>2. ScanRests
    BY <1>1, DiscoveryRests
  <1>3. phase = "load" /\ result # "success"
    BY <1>1 DEF RunInv, PhaseInv
  <1>4. PhaseInv(w)'
    BY <1>1, <1>2, <1>3 DEF RunInv, PhaseInv, ScanRests
  <1>5. LoadInv(w)' /\ CleanInv(w)'
    BY <1>1, <1>2, <1>3 DEF RunInv, LoadInv, CleanInv, ScanRests
  <1>6. RunInv(w)'
    BY <1>1, <1>2, <1>3, <1>4, <1>5, RunGoesOn DEF ScanRests
  <1> QED
    BY <1>1, <1>6, WalkRests, TreeRests DEF Mirrors

LEMMA DownloadFatalKeeps ==
    ASSUME NEW w \in Syncs, WalkInv(w), RunInv(w), NEW f \in Setting[w].File,
           Mirror(w)!DownloadFatal(f)
    PROVE  WalkInv(w)' /\ RunInv(w)' /\ Kept(w)
  <1>1. /\ active' = {} /\ todo' = {} /\ phase' = "end" /\ result' = "failed"
        /\ UNCHANGED Mirror(w)!discoveryVars
        /\ UNCHANGED <<local, dirs, archive, removed, failed, cleanFailed, declined>>
    BY DEF Mirror!DownloadFatal, Mirror!Finish, Mirror!treeVars, Mirror!cleanVars
  <1>2. ScanRests
    BY <1>1, DiscoveryRests
  <1>3. failed' \in BOOLEAN /\ cleanFailed' \in BOOLEAN /\ declined' \in BOOLEAN
    BY <1>1 DEF RunInv, PhaseInv
  <1>4. RunInv(w)'
    BY <1>1, <1>2, <1>3, RunEnds
  <1> QED
    BY <1>1, <1>4, WalkRests, TreeRests DEF Mirrors

LEMMA LoadedKeeps ==
    ASSUME NEW w \in Syncs, WalkInv(w), RunInv(w), Mirror(w)!Loaded
    PROVE  WalkInv(w)' /\ RunInv(w)' /\ Kept(w)
  <1>1. /\ phase = "load" /\ todo = {} /\ active = {} /\ phase' = "clean"
        /\ UNCHANGED Mirror(w)!discoveryVars
        /\ UNCHANGED <<local, dirs, archive, removed, unchecked, todo, active, failed, result,
                       cleanFailed, declined>>
    BY DEF Mirror!Loaded, Mirror!treeVars, Mirror!loadVars, Mirror!cleanVars
  <1>2. ScanRests
    BY <1>1, DiscoveryRests
  <1>3. PhaseInv(w)'
    BY <1>1, <1>2 DEF RunInv, PhaseInv, ScanRests
  <1>4. LoadInv(w)' /\ CleanInv(w)'
    BY <1>1, <1>2 DEF RunInv, LoadInv, CleanInv, ScanRests
  <1>5. result' # "success"
    BY <1>1 DEF RunInv, PhaseInv
  <1>6. RunInv(w)'
    BY <1>1, <1>2, <1>3, <1>4, <1>5, RunGoesOn DEF ScanRests
  <1> QED
    BY <1>1, <1>6, WalkRests, TreeRests DEF Mirrors

\* Where nothing failed, the listed files are in the tree at the clean-up.
LEMMA LoadedAll ==
    ASSUME NEW w \in Syncs, RunInv(w), phase \in {"clean", "prune"}, ~Setting[w].DryRun, ~failed
    PROVE  remote \subseteq local
  <1>1. unchecked = {} /\ todo = {} /\ remote \subseteq local \union unchecked \union todo \union active
    BY DEF RunInv, LoadInv
  <1>2. active = {}
    BY DEF RunInv, PhaseInv
  <1> QED
    BY <1>1, <1>2

\* The end of a run at its clean-up.
LEMMA CleanStopsKeeps ==
    ASSUME NEW w \in Syncs, WalkInv(w), RunInv(w),
           \/ Mirror(w)!SkipClean \/ Mirror(w)!InspectionFailed \/ Mirror(w)!Decline
           \/ Mirror(w)!CleanEnds
    PROVE  WalkInv(w)' /\ RunInv(w)' /\ Kept(w)
  <1>1. /\ phase \in {"clean", "prune"} /\ phase' = "end"
        /\ UNCHANGED Mirror(w)!discoveryVars
        /\ UNCHANGED <<local, dirs, archive, removed, todo, active, failed>>
    BY DEF Mirror!SkipClean, Mirror!InspectionFailed, Mirror!Decline, Mirror!CleanEnds,
           Mirror!Finish, Mirror!treeVars, Mirror!loadVars
  <1>2. failed' \in BOOLEAN
    BY <1>1 DEF RunInv, PhaseInv
  <1>3. cleanFailed' \in BOOLEAN /\ declined' \in BOOLEAN
    <2>1. cleanFailed' = cleanFailed \/ cleanFailed' = TRUE
      BY DEF Mirror!SkipClean, Mirror!InspectionFailed, Mirror!Decline, Mirror!CleanEnds,
             Mirror!cleanVars
    <2>2. declined' = declined \/ declined' = TRUE
      BY DEF Mirror!SkipClean, Mirror!InspectionFailed, Mirror!Decline, Mirror!CleanEnds,
             Mirror!cleanVars
    <2>3. cleanFailed \in BOOLEAN /\ declined \in BOOLEAN
      BY DEF RunInv, PhaseInv
    <2> QED
      BY <2>1, <2>2, <2>3
  <1>4. active = {} /\ todo \subseteq Setting[w].File
    BY <1>1 DEF RunInv, PhaseInv
  <1>5. ASSUME result' = "success", ~Setting[w].DryRun
        PROVE  /\ remote \subseteq local
               /\ Setting[w].Policy \in {"delete", "move"} /\ ~declined' => Obsolete(w) = {}
    <2>1. ~Mirror(w)!InspectionFailed
      BY <1>5 DEF Mirror!InspectionFailed, Mirror!Finish
    <2>2. result' = Mirror(w)!Outcome
      BY <1>5, <2>1 DEF Mirror!SkipClean, Mirror!Decline, Mirror!CleanEnds, Mirror!Finish
    <2>3. ~failed /\ ~incomplete /\ ~cleanFailed
      BY <1>5, <2>2 DEF Mirror!Outcome
    <2>4. remote \subseteq local
      BY <1>1, <1>5, <2>3, LoadedAll
    <2>5. CASE Mirror(w)!SkipClean
      BY <1>5, <2>3, <2>4, <2>5 DEF Mirror!SkipClean, Mirror!CleanAllowed
    <2>6. CASE Mirror(w)!Decline
      BY <2>4, <2>6 DEF Mirror!Decline
    <2>7. CASE Mirror(w)!CleanEnds
      <3>1. phase = "prune" /\ obsolete = {}
        BY <2>7 DEF Mirror!CleanEnds
      <3> QED
        BY <2>3, <2>4, <3>1 DEF RunInv, CleanInv
    <2> QED
      BY <2>1, <2>5, <2>6, <2>7
  <1>6. ScanRests
    BY <1>1, DiscoveryRests
  <1>7. RunInv(w)'
    BY <1>1, <1>2, <1>3, <1>4, <1>5, <1>6, RunEnds
  <1> QED
    BY <1>1, <1>7, WalkRests, TreeRests DEF Mirrors

LEMMA InspectKeeps ==
    ASSUME NEW w \in Syncs, WalkInv(w), RunInv(w), Mirror(w)!Inspect
    PROVE  WalkInv(w)' /\ RunInv(w)' /\ Kept(w)
  <1>1. /\ phase = "clean" /\ phase' = "prune"
        /\ Setting[w].Policy \in {"delete", "move"} /\ ~Setting[w].DryRun /\ ~incomplete
        /\ obsolete' = Obsolete(w)
        /\ UNCHANGED Mirror(w)!discoveryVars
        /\ UNCHANGED <<local, dirs, archive, removed, unchecked, todo, active, failed, result,
                       cleanFailed, declined>>
    BY DEF Mirror!Inspect, Mirror!CleanAllowed, Obsolete, Mirror!treeVars, Mirror!loadVars
  <1>2. ScanRests
    BY <1>1, DiscoveryRests
  <1>3. PhaseInv(w)'
    BY <1>1, <1>2 DEF RunInv, PhaseInv, ScanRests
  <1>4. LoadInv(w)'
    BY <1>1, <1>2 DEF RunInv, LoadInv, ScanRests
  <1>5. Obsolete(w)' = Obsolete(w)
    <2>1. \A f : Mirror(w)!FileSelected(f)' <=> Mirror(w)!FileSelected(f)
      BY <1>2, SelectionRests DEF ScanRests
    <2> QED
      BY <1>1, <1>2, <2>1 DEF Obsolete, ScanRests
  <1>6. CleanInv(w)'
    BY <1>1, <1>5 DEF CleanInv
  <1>7. result' # "success"
    BY <1>1 DEF RunInv, PhaseInv
  <1>8. RunInv(w)'
    BY <1>1, <1>2, <1>3, <1>4, <1>6, <1>7, RunGoesOn DEF ScanRests
  <1> QED
    BY <1>1, <1>8, WalkRests, TreeRests DEF Mirrors

\* What is left of the clean-up's business when one file is gone.
LEMMA ObsoleteShrinks ==
    ASSUME NEW w \in Syncs, ScanRests, NEW f, local' = local \ {f}
    PROVE  Obsolete(w)' = Obsolete(w) \ {f}
  <1>1. \A g : Mirror(w)!FileSelected(g)' <=> Mirror(w)!FileSelected(g)
    BY SelectionRests DEF ScanRests
  <1> QED
    BY <1>1 DEF Obsolete, ScanRests

LEMMA RemoveFileKeeps ==
    ASSUME NEW w \in Syncs, WalkInv(w), RunInv(w), NEW f \in Setting[w].File,
           Mirror(w)!RemoveFile(f)
    PROVE  WalkInv(w)' /\ RunInv(w)' /\ Kept(w)
  <1>1. /\ phase = "prune" /\ f \in obsolete /\ obsolete' = obsolete \ {f}
        /\ local' = local \ {f} /\ removed' = removed \union {f}
        /\ UNCHANGED Mirror(w)!discoveryVars
        /\ UNCHANGED <<phase, dirs, unchecked, todo, active, failed, result, cleanFailed, declined>>
    BY DEF Mirror!RemoveFile, Mirror!loadVars
  <1>2. IF Setting[w].Policy = "delete" THEN archive' = archive
        ELSE \E stamp : /\ [file |-> f, stamp |-> stamp] \notin archive
                        /\ archive' = archive \union {[file |-> f, stamp |-> stamp]}
    BY DEF Mirror!RemoveFile, Mirror!FreeStamp
  <1>3. ScanRests
    BY <1>1, DiscoveryRests
  <1>4. /\ pc = "done" /\ Setting[w].LinkMode # "detect" /\ ~Setting[w].DryRun /\ ~incomplete
        /\ Setting[w].Policy \in {"delete", "move"} /\ result # "success" /\ active = {}
    BY <1>1 DEF RunInv, PhaseInv
  <1>5. f \in Obsolete(w)
    BY <1>1 DEF RunInv, CleanInv
  <1>6. f \in local /\ f \notin remote /\ Mirror(w)!FileSelected(f)
    BY <1>5 DEF Obsolete
  <1>7. PhaseInv(w)'
    BY <1>1, <1>3, <1>4 DEF RunInv, PhaseInv, ScanRests
  <1>8. LoadInv(w)'
    BY <1>1, <1>3, <1>6 DEF RunInv, LoadInv, ScanRests
  <1>9. CleanInv(w)'
    BY <1>1, <1>3, ObsoleteShrinks DEF RunInv, CleanInv
  <1>10. Mirror(w)!NoTreeIsCutOff'
    BY <1>1 DEF RunInv, Mirror!NoTreeIsCutOff
  <1>11. Mirror(w)!SuccessMirrors'
    BY <1>1, <1>4 DEF Mirror!SuccessMirrors
  <1>12. ASSUME Mirror(w)!LinksLeadDown
         PROVE  Mirror(w)!RemovedWasAbsent'
    <2>1. SeenAbsent(w, f)
      BY <1>4, <1>6, <1>12, ObsoleteIsAbsent DEF Mirrors
    <2>2. \A g \in removed : SeenAbsent(w, g)
      BY <1>12, RemovedAreAbsent DEF RunInv
    <2>3. \A g \in removed' : SeenAbsent(w, g)'
      BY <1>1, <1>3, <2>1, <2>2, SightRests DEF ScanRests
    <2>4. Mirror(w)!RemovedWasAbsent' <=> \A g \in removed' : SeenAbsent(w, g)'
      BY DEF Mirror!RemovedWasAbsent, SeenAbsent
    <2> QED
      BY <2>3, <2>4
  <1>13. RunInv(w)'
    BY <1>7, <1>8, <1>9, <1>10, <1>11, <1>12 DEF RunInv, Mirror!LinksLeadDown
  <1>14. local \ local' = {f}
    BY <1>1, <1>6
  <1>15. Mirror(w)!RemovesInCleanup
    <2>1. /\ f \notin Setting[w].Filtered
          /\ Setting[w].Above[Setting[w].Home[f]]
                 \intersect (protected \union Setting[w].Excluded) = {}
          /\ Mirror(w)!PathDepth(Setting[w].Home[f]) <= Setting[w].MaxDepth
      BY <1>6 DEF Mirror!FileSelected, Mirror!DirSelected, Mirror!IsExcluded
    <2> QED
      BY <1>1, <1>4, <1>6, <1>14, <2>1 DEF Mirror!RemovesInCleanup
  <1>16. Setting[w].Policy = "move" => Mirror(w)!ArchivesRemoved
    <2> SUFFICES ASSUME Setting[w].Policy = "move"
                 PROVE  Mirror(w)!ArchivesRemoved
      OBVIOUS
    <2>1. PICK stamp : /\ [file |-> f, stamp |-> stamp] \notin archive
                       /\ archive' = archive \union {[file |-> f, stamp |-> stamp]}
      BY <1>2
    <2>2. [file |-> f, stamp |-> stamp] \in archive' \ archive
      BY <2>1
    <2> QED
      BY <1>14, <2>1, <2>2 DEF Mirror!ArchivesRemoved
  <1>17. Kept(w)
    BY <1>4, <1>15, <1>16 DEF Kept
  <1> QED
    BY <1>1, <1>13, <1>17, WalkRests DEF Mirrors

LEMMA RemoveFailsKeeps ==
    ASSUME NEW w \in Syncs, WalkInv(w), RunInv(w), NEW f \in Setting[w].File,
           Mirror(w)!RemoveFails(f)
    PROVE  WalkInv(w)' /\ RunInv(w)' /\ Kept(w)
  <1>1. /\ phase = "prune" /\ obsolete' = obsolete \ {f} /\ cleanFailed' = TRUE
        /\ UNCHANGED Mirror(w)!discoveryVars
        /\ UNCHANGED <<phase, local, dirs, archive, removed, unchecked, todo, active, failed, result,
                       declined>>
    BY DEF Mirror!RemoveFails, Mirror!treeVars, Mirror!loadVars
  <1>2. ScanRests
    BY <1>1, DiscoveryRests
  <1>3. PhaseInv(w)'
    BY <1>1, <1>2 DEF RunInv, PhaseInv, ScanRests
  <1>4. LoadInv(w)'
    BY <1>1, <1>2 DEF RunInv, LoadInv, ScanRests
  <1>5. Obsolete(w)' = Obsolete(w)
    <2>1. \A g : Mirror(w)!FileSelected(g)' <=> Mirror(w)!FileSelected(g)
      BY <1>2, SelectionRests DEF ScanRests
    <2> QED
      BY <1>1, <1>2, <2>1 DEF Obsolete, ScanRests
  <1>6. CleanInv(w)'
    BY <1>1, <1>5 DEF RunInv, CleanInv
  <1>7. result' # "success"
    BY <1>1 DEF RunInv, PhaseInv
  <1>8. RunInv(w)'
    BY <1>1, <1>2, <1>3, <1>4, <1>6, <1>7, RunGoesOn DEF ScanRests
  <1> QED
    BY <1>1, <1>8, WalkRests, TreeRests DEF Mirrors

LEMMA RemoveDirKeeps ==
    ASSUME NEW w \in Syncs, WalkInv(w), RunInv(w), NEW d \in Setting[w].Dir,
           Mirror(w)!RemoveDir(d)
    PROVE  WalkInv(w)' /\ RunInv(w)' /\ Kept(w)
  <1>1. /\ phase = "prune" /\ obsolete = {}
        /\ UNCHANGED Mirror(w)!discoveryVars
        /\ UNCHANGED <<phase, local, archive, removed, unchecked, todo, active, failed, obsolete,
                       result, declined>>
    BY DEF Mirror!RemoveDir, Mirror!loadVars
  <1>2. /\ cleanFailed' = cleanFailed \/ cleanFailed' = TRUE
        /\ dirs' = dirs \/ dirs' = dirs \ {d}
    BY DEF Mirror!RemoveDir
  <1>3. \A f \in local : d \notin Setting[w].Above[Setting[w].Home[f]]
    BY DEF Mirror!RemoveDir, Mirror!Removable, Mirror!Empty
  <1>4. ScanRests
    BY <1>1, DiscoveryRests
  <1>5. cleanFailed \in BOOLEAN /\ cleanFailed' \in BOOLEAN /\ (cleanFailed => cleanFailed')
    <2>1. cleanFailed \in BOOLEAN
      BY DEF RunInv, PhaseInv
    <2>2. CASE cleanFailed' = cleanFailed
      BY <2>1, <2>2
    <2>3. CASE cleanFailed' = TRUE
      BY <2>1, <2>3
    <2> QED
      BY <1>2, <2>2, <2>3
  <1>6. PhaseInv(w)'
    BY <1>1, <1>4, <1>5 DEF RunInv, PhaseInv, ScanRests
  <1>7. LoadInv(w)'
    BY <1>1, <1>4 DEF RunInv, LoadInv, ScanRests
  <1>8. Obsolete(w)' = Obsolete(w)
    <2>1. \A g : Mirror(w)!FileSelected(g)' <=> Mirror(w)!FileSelected(g)
      BY <1>4, SelectionRests DEF ScanRests
    <2> QED
      BY <1>1, <1>4, <2>1 DEF Obsolete, ScanRests
  <1>9. CleanInv(w)'
    BY <1>1, <1>5, <1>8 DEF RunInv, CleanInv
  <1>10. Mirror(w)!NoTreeIsCutOff'
    BY <1>1, <1>2, <1>3 DEF RunInv, Mirror!NoTreeIsCutOff
  <1>11. ~Setting[w].DryRun /\ Setting[w].LinkMode # "detect" /\ result # "success"
    BY <1>1 DEF RunInv, PhaseInv
  <1>12. Mirror(w)!SuccessMirrors'
    BY <1>1, <1>11 DEF Mirror!SuccessMirrors
  <1>13. RunInv(w)'
    BY <1>1, <1>4, <1>6, <1>7, <1>9, <1>10, <1>12, AbsenceRests
       DEF RunInv, ScanRests, Mirror!LinksLeadDown
  <1>14. Kept(w)
    BY <1>1, <1>11 DEF Kept, Mirror!RemovesInCleanup, Mirror!ArchivesRemoved
  <1> QED
    BY <1>1, <1>13, <1>14, WalkRests DEF Mirrors

LEMMA ProcessDies ==
    ASSUME NEW w \in Syncs, WalkInv(w), RunInv(w), Mirror(w)!Crash
    PROVE  WalkInv(w)' /\ RunInv(w)' /\ Kept(w)
  <1>1. /\ phase' = "idle" /\ result' = "none" /\ todo' = {} /\ active' = {}
        /\ UNCHANGED <<found, used, walked, local, dirs, archive, removed, failed, cleanFailed,
                       declined>>
    BY DEF Mirror!Crash, Mirror!passVars, Mirror!treeVars
  <1>2. PhaseInv(w)' /\ LoadInv(w)' /\ CleanInv(w)'
    BY <1>1 DEF RunInv, PhaseInv, LoadInv, CleanInv
  <1>3. RunInv(w)'
    BY <1>1, <1>2, RunGoesOn
  <1> QED
    BY <1>1, <1>3, CrashKeeps, TreeRests DEF Mirrors

LEMMA ServerMovesOn ==
    ASSUME NEW w \in Syncs, WalkInv(w), RunInv(w),
           Mirror(w)!DiscoveryEnvironment \/ UNCHANGED Mirror(w)!discoveryVars,
           UNCHANGED Mirror(w)!syncVars
    PROVE  WalkInv(w)' /\ RunInv(w)' /\ Kept(w)
  <1>1. UNCHANGED <<phase, local, dirs, archive, removed, unchecked, todo, active, failed, limit,
                    obsolete, keptDirs, cleanFailed, declined, result>>
    BY DEF Mirror!syncVars, Mirror!treeVars, Mirror!loadVars, Mirror!cleanVars
  <1>2. ScanRests
    BY DiscoveryRests
  <1>3. PhaseInv(w)'
    BY <1>1, <1>2 DEF RunInv, PhaseInv, ScanRests
  <1>4. LoadInv(w)'
    BY <1>1, <1>2 DEF RunInv, LoadInv, ScanRests
  <1>5. \A f : Mirror(w)!FileSelected(f)' <=> Mirror(w)!FileSelected(f)
    BY <1>2, SelectionRests DEF ScanRests
  <1>6. CleanInv(w)'
    BY <1>1, <1>2, <1>5 DEF RunInv, CleanInv, Obsolete, ScanRests
  <1>7. Mirror(w)!NoTreeIsCutOff'
    BY <1>1 DEF RunInv, Mirror!NoTreeIsCutOff
  <1>8. Mirror(w)!SuccessMirrors'
    BY <1>1, <1>2, <1>5 DEF RunInv, Mirror!SuccessMirrors, ScanRests
  <1>9. RunInv(w)'
    BY <1>1, <1>2, <1>3, <1>4, <1>6, <1>7, <1>8, AbsenceRests
       DEF RunInv, ScanRests, Mirror!LinksLeadDown
  <1> QED
    BY <1>1, <1>9, WalkRests, ServerKeeps, TreeRests DEF Mirrors

LEMMA RunNextKeeps ==
    ASSUME NEW w \in Syncs, WalkInv(w), RunInv(w), Mirror(w)!SyncNext
    PROVE  WalkInv(w)' /\ RunInv(w)' /\ Kept(w)
  <1>1. ASSUME NEW f \in Setting[w].File,
               \/ Mirror(w)!CheckFile(f) \/ Mirror(w)!CheckBroken(f) \/ Mirror(w)!Submit(f)
               \/ Mirror(w)!Downloaded(f) \/ Mirror(w)!DownloadFailed(f)
               \/ Mirror(w)!DownloadFatal(f) \/ Mirror(w)!RemoveFile(f) \/ Mirror(w)!RemoveFails(f)
        PROVE  WalkInv(w)' /\ RunInv(w)' /\ Kept(w)
    BY <1>1, CheckingKeeps, SubmitKeeps, DownloadedKeeps, DownloadFailedKeeps, DownloadFatalKeeps,
       RemoveFileKeeps, RemoveFailsKeeps
  <1>2. ASSUME Mirror(w)!Run
        PROVE  WalkInv(w)' /\ RunInv(w)' /\ Kept(w)
    BY <1>1, <1>2, ScanKeeps, StopsEarlyKeeps, ScannedKeeps, CheckedKeeps, LoadedKeeps,
       CleanStopsKeeps, InspectKeeps, RemoveDirKeeps DEF Mirror!Run
  <1>3. ASSUME Mirror(w)!ServerSide
        PROVE  WalkInv(w)' /\ RunInv(w)' /\ Kept(w)
    BY <1>3, ServerMovesOn DEF Mirror!ServerSide
  <1> QED
    BY <1>2, <1>3, SyncKeeps, StopsEarlyKeeps, ProcessDies DEF Mirror!SyncNext

-----------------------------------------------------------------------------
(* The walk is the breadth-first walk *)

\* What the abstract walk sees of a step.
LEMMA WalkSees ==
    ASSUME NEW w \in Walks
    PROVE  /\ Mirror(w)!Walk!vars = <<batch \o queue, processed, found, protected>>
           /\ Mirror(w)!Walk!vars' = <<batch' \o queue', processed', found', protected'>>
  BY DEF Mirror!Walk!vars

Simulates(w) == Mirror(w)!Walk!Next \/ UNCHANGED Mirror(w)!Walk!vars

LEMMA QueueTypes ==
    ASSUME NEW w \in Mirrors, WalkInv(w)
    PROVE  /\ queue \in Seq([dir: Setting[w].Dir, depth: Nat])
           /\ batch \in Seq([dir: Setting[w].Dir, depth: Nat])
  BY DEF WalkInv, WalkTypes

\* The first of the batch is the first of the whole queue.
LEMMA FirstOfWhole ==
    ASSUME NEW w \in Mirrors, WalkInv(w), batch # <<>>
    PROVE  /\ batch \o queue # <<>> /\ Head(batch \o queue) = Head(batch)
           /\ Tail(batch \o queue) = Tail(batch) \o queue
  BY QueueTypes, HeadOfConcat

LEMMA BeginSimulates ==
    ASSUME NEW w \in Walks, WalkInv(w), Mirror(w)!Begin
    PROVE  Simulates(w)
  <1> DEFINE x == [dir |-> Setting[w].Root, depth |-> 0]
  <1>1. batch = <<>> /\ queue = <<>>
    BY DEF WalkInv, QueueInv, Mirror!Begin
  <1>2. batch \o queue = <<>>
    BY <1>1, ConcatEmptySeq, EmptySeq
  <1>3. /\ batch' = <<>> /\ queue' \in {<<>>, <<x>>} /\ processed' = {} /\ found' = <<>>
        /\ protected' \subseteq {Setting[w].Root}
    BY DEF Mirror!Begin
  <1>4. batch' \o queue' = queue'
    <2>1. <<>> \in Seq({x}) /\ <<x>> \in Seq({x})
      BY EmptySeq
    <2>2. queue' \in Seq({x})
      BY <1>3, <2>1
    <2> HIDE DEF x
    <2> QED
      BY <1>3, <2>2, ConcatEmptySeq
  <1>5. Mirror(w)!Walk!Begin
    BY <1>2, <1>3, <1>4 DEF Mirror!Walk!Begin
  <1> QED
    BY <1>5 DEF Simulates, Mirror!Walk!Next

LEMMA DropSimulates ==
    ASSUME NEW w \in Walks, WalkInv(w), Mirror(w)!Drop
    PROVE  Simulates(w)
  <1>1. /\ batch # <<>> /\ batch' = Tail(batch)
        /\ (Head(batch).dir \in processed \/ Head(batch).depth > Setting[w].MaxDepth)
        /\ UNCHANGED <<queue, processed, found, protected>>
    BY DEF Mirror!Drop
  <1>2. /\ batch \o queue # <<>> /\ Head(batch \o queue) = Head(batch)
        /\ batch' \o queue' = Tail(batch \o queue)
    BY <1>1, FirstOfWhole DEF Mirrors
  <1>3. Mirror(w)!Walk!Drop
    BY <1>1, <1>2 DEF Mirror!Walk!Drop
  <1> QED
    BY <1>3 DEF Simulates, Mirror!Walk!Next

\* The list of no directories is empty.
LEMMA NoneListed ==
    ASSUME NEW w \in Mirrors
    PROVE  Mirror(w)!Ordered({}) = <<>>
  <1>1. Mirror(w)!Ordered({}) \in Seq({})
    BY ListedOnPage
  <1>2. Len(Mirror(w)!Ordered({})) = 0
    BY <1>1, LenProperties
  <1> QED
    BY <1>1, <1>2, EmptySeq

\* A visit, as the abstract walk has it.
LEMMA AbstractFind ==
    ASSUME NEW w \in Walks, batch \o queue # <<>>,
           Head(batch \o queue).dir \notin processed,
           Head(batch \o queue).depth <= Setting[w].MaxDepth,
           processed' = processed \union {Head(batch \o queue).dir},
           NEW S \in SUBSET (Setting[w].Dir \ processed'),
           Head(batch \o queue).depth = Setting[w].MaxDepth => S = {},
           batch' \o queue' =
               Tail(batch \o queue) \o Children(w, S, Head(batch \o queue).depth),
           found' = Append(found, Head(batch \o queue).dir), protected' = protected
    PROVE  Mirror(w)!Walk!Visit
  BY DEF Mirror!Walk!Visit, Children

LEMMA AbstractAside ==
    ASSUME NEW w \in Walks, batch \o queue # <<>>,
           Head(batch \o queue).dir \notin processed,
           Head(batch \o queue).depth <= Setting[w].MaxDepth,
           processed' = processed \union {Head(batch \o queue).dir},
           batch' \o queue' = Tail(batch \o queue),
           protected' = protected \union {Head(batch \o queue).dir}, found' = found
    PROVE  Mirror(w)!Walk!Visit
  BY DEF Mirror!Walk!Visit

LEMMA VisitLeafSimulates ==
    ASSUME NEW w \in Walks, WalkInv(w), Mirror(w)!VisitLeaf
    PROVE  Simulates(w)
  <1> DEFINE x == Head(batch)
  <1>1. /\ batch # <<>> /\ batch' = Tail(batch) /\ x.dir \notin processed
        /\ x.depth = Setting[w].MaxDepth
        /\ processed' = processed \union {x.dir} /\ found' = Append(found, x.dir)
        /\ UNCHANGED <<queue, protected>>
    BY DEF Mirror!VisitLeaf
  <1>2. /\ batch \o queue # <<>> /\ Head(batch \o queue) = x
        /\ batch' \o queue' = Tail(batch \o queue)
    BY <1>1, FirstOfWhole DEF Mirrors
  <1>3. Setting[w].MaxDepth \in Nat
    BY MirrorConstants DEF Mirrors
  <1>4. Children(w, {}, x.depth) = <<>>
    BY NoneListed DEF Children, Mirrors
  <1>5. Tail(batch \o queue) \o Children(w, {}, x.depth) = Tail(batch \o queue)
    <2>1. Tail(batch \o queue) \in Seq([dir: Setting[w].Dir, depth: Nat])
      BY <1>2, QueueTypes, ElementsOfConcat, HeadTailProperties DEF Mirrors
    <2> QED
      BY <1>4, <2>1, ConcatEmptySeq
  <1> HIDE DEF x
  <1>6. Mirror(w)!Walk!Visit
    <2>1. /\ {} \in SUBSET (Setting[w].Dir \ processed')
          /\ batch' \o queue' = Tail(batch \o queue) \o Children(w, {}, x.depth)
      BY <1>2, <1>5
    <2>2. /\ Head(batch \o queue).dir \notin processed
          /\ Head(batch \o queue).depth <= Setting[w].MaxDepth
          /\ processed' = processed \union {Head(batch \o queue).dir}
          /\ found' = Append(found, Head(batch \o queue).dir) /\ protected' = protected
      BY <1>1, <1>2, <1>3
    <2>3. batch' \o queue' =
              Tail(batch \o queue) \o Children(w, {}, Head(batch \o queue).depth)
      BY <1>2, <2>1
    <2> QED
      BY <1>2, <2>1, <2>2, <2>3, AbstractFind
  <1> QED
    BY <1>6 DEF Simulates, Mirror!Walk!Next

LEMMA VisitSimulates ==
    ASSUME NEW w \in Walks, WalkInv(w), Mirror(w)!Visit
    PROVE  Simulates(w)
  <1> DEFINE x == Head(batch)
             d == x.dir
             listing == IF fetched[d] = Unread THEN {} ELSE fetched[d]
             link == Mirror(w)!LooksLinked(d, listing)
             Rec == [dir: Setting[w].Dir, depth: Nat]
             S == {e \in listing \intersect Setting[w].Dir :
                      e \notin processed' /\ ~Mirror(w)!IsExcluded(e)}
  <1>1. /\ batch # <<>> /\ d \notin processed /\ x.depth < Setting[w].MaxDepth
        /\ processed' = processed \union {d} /\ batch' = Tail(batch)
    BY DEF Mirror!Visit
  <1>2. IF Mirror(w)!Entered(d, link) THEN Mirror(w)!Enter(d, x.depth, listing, link)
        ELSE Mirror(w)!Leave(d)
    BY DEF Mirror!Visit
  <1>3. /\ x \in Rec /\ Tail(batch) \in Seq(Rec) /\ queue \in Seq(Rec)
        /\ batch \o queue # <<>> /\ Head(batch \o queue) = x
        /\ Tail(batch \o queue) = Tail(batch) \o queue
    BY <1>1, FirstOfBatch, FirstOfWhole, QueueTypes DEF Mirrors
  <1>4. x.depth \in Nat /\ Setting[w].MaxDepth \in Nat
    BY <1>3, MirrorConstants DEF Mirrors
  <1>5. ASSUME Mirror(w)!Entered(d, link)
        PROVE  Mirror(w)!Walk!Visit
    <2>1. /\ queue' = queue \o Children(w, S, x.depth) /\ found' = Append(found, d)
          /\ protected' = protected
      BY <1>2, <1>5 DEF Mirror!Enter, Children
    <2>2. S \in SUBSET (Setting[w].Dir \ processed') /\ S \in SUBSET Setting[w].Dir
      OBVIOUS
    <2> HIDE DEF S
    <2>3. Children(w, S, x.depth) \in Seq(Rec)
      BY <1>4, <2>2, ChildrenListed DEF Mirrors
    <2>4. batch' \o queue' = Tail(batch \o queue) \o Children(w, S, x.depth)
      <3> HIDE DEF Rec
      <3>1. (Tail(batch) \o queue) \o Children(w, S, x.depth)
                = Tail(batch) \o (queue \o Children(w, S, x.depth))
        <4>1. Tail(batch) \in Seq(Rec) /\ queue \in Seq(Rec)
          BY <1>3
        <4> QED
          BY <2>3, <4>1, ConcatAssociative
      <3> QED
        BY <1>1, <1>3, <2>1, <3>1
    <2> HIDE DEF x
    <2>5. /\ Head(batch \o queue).dir \notin processed
          /\ Head(batch \o queue).depth <= Setting[w].MaxDepth
          /\ Head(batch \o queue).depth # Setting[w].MaxDepth
          /\ processed' = processed \union {Head(batch \o queue).dir}
          /\ found' = Append(found, Head(batch \o queue).dir) /\ protected' = protected
      BY <1>1, <1>3, <1>4, <2>1
    <2>6. batch' \o queue' =
              Tail(batch \o queue) \o Children(w, S, Head(batch \o queue).depth)
      BY <1>3, <2>4
    <2> QED
      BY <1>3, <2>2, <2>5, <2>6, AbstractFind
  <1>6. ASSUME ~Mirror(w)!Entered(d, link)
        PROVE  Mirror(w)!Walk!Visit
    <2>1. protected' = protected \union {d} /\ queue' = queue /\ found' = found
      BY <1>2, <1>6 DEF Mirror!Leave
    <2>2. batch' \o queue' = Tail(batch \o queue)
      BY <1>1, <1>3, <2>1
    <2> HIDE DEF x
    <2>3. /\ Head(batch \o queue).dir \notin processed
          /\ Head(batch \o queue).depth <= Setting[w].MaxDepth
          /\ processed' = processed \union {Head(batch \o queue).dir}
          /\ protected' = protected \union {Head(batch \o queue).dir} /\ found' = found
      BY <1>1, <1>3, <1>4, <2>1
    <2> QED
      BY <1>3, <2>2, <2>3, AbstractAside
  <1> QED
    BY <1>5, <1>6 DEF Simulates, Mirror!Walk!Next

\* Steps that only fetch pages, read them again, or change them.
LEMMA OthersSimulate ==
    ASSUME NEW w \in Walks,
           \/ Mirror(w)!WalkEnds \/ Mirror(w)!Collect \/ Mirror(w)!CollectEnds
           \/ \E d : \/ Mirror(w)!Fetch(d) \/ Mirror(w)!Expire(d)
                     \/ \E listing : Mirror(w)!PageChange(d, listing)
    PROVE  Simulates(w)
  <1>1. UNCHANGED <<batch, queue, processed, found, protected>>
    BY DEF Mirror!WalkEnds, Mirror!Collect, Mirror!CollectEnds, Mirror!Fetch, Mirror!Expire,
           Mirror!PageChange, Mirror!walkVars
  <1> QED
    BY <1>1 DEF Simulates, Mirror!Walk!vars

LEMMA WalkNextSimulates ==
    ASSUME NEW w \in Walks, WalkInv(w), Mirror(w)!Next
    PROVE  Simulates(w)
  <1>1. CASE Mirror(w)!FillBatch
    <2>1. batch' \o queue' = batch \o queue /\ UNCHANGED <<processed, found, protected>>
      BY <1>1, BatchIsTaken DEF Mirrors, Mirror!FillBatch
    <2> QED
      BY <2>1 DEF Simulates, Mirror!Walk!vars
  <1>2. CASE Mirror(w)!Abort
    <2>1. batch' \o queue' = <<>> /\ UNCHANGED <<processed, found, protected>>
      BY <1>2, ConcatEmptySeq, EmptySeq DEF Mirror!Abort
    <2> QED
      BY <2>1 DEF Simulates, Mirror!Walk!Next, Mirror!Walk!GiveUp
  <1>3. CASE Mirror(w)!Walker /\ ~Mirror(w)!FillBatch
    BY <1>3, DropSimulates, VisitLeafSimulates, VisitSimulates, OthersSimulate DEF Mirror!Walker
  <1>4. CASE Mirror(w)!DiscoveryEnvironment
    BY <1>4, OthersSimulate DEF Mirror!DiscoveryEnvironment
  <1> QED
    BY <1>1, <1>2, <1>3, <1>4, BeginSimulates DEF Mirror!Next

-----------------------------------------------------------------------------
(* The invariant *)

LEMMA Initial == Init => IInv
  <1> SUFFICES ASSUME Init PROVE IInv
    OBVIOUS
  <1>1. ASSUME NEW w \in Mirrors, part = w
        PROVE  Mirror(w)!SyncInit
    BY <1>1 DEF Init
  <1>2. ASSUME NEW w \in Mirrors, part = w
        PROVE  WalkInv(w)
    BY <1>1, <1>2, WalkInitially DEF Mirror!SyncInit
  <1>3. ASSUME NEW w \in Syncs, part = w
        PROVE  RunInv(w)
    BY <1>1, <1>3, RunInitially DEF Mirrors
  <1>4. ASSUME NEW c \in Checks, part = c
        PROVE  HeadInv(c)
    <2>1. Heads(c)!Init
      BY <1>4 DEF Init
    <2> QED
      BY <2>1, HeadInitially
  <1> QED
    BY <1>2, <1>3, <1>4 DEF IInv

\* A part that rests.
LEMMA MirrorStays ==
    ASSUME NEW w \in Mirrors, UNCHANGED walkVars
    PROVE  UNCHANGED Mirror(w)!discoveryVars
  BY DEF walkVars, Mirror!discoveryVars, Mirror!walkVars, Mirror!passVars

LEMMA RunStays ==
    ASSUME NEW w \in Syncs, UNCHANGED runVars
    PROVE  UNCHANGED Mirror(w)!syncVars
  BY DEF runVars, Mirror!syncVars, Mirror!treeVars, Mirror!loadVars, Mirror!cleanVars

LEMMA HeadsStay ==
    ASSUME NEW c \in Checks, HeadInv(c), UNCHANGED headVars
    PROVE  HeadInv(c)'
  BY HeadStutters DEF headVars

\* A step as a run sees it.
LEMMA SyncStep ==
    ASSUME NEW w \in Syncs, part = w, WalkInv(w), RunInv(w), [Next]_vars
    PROVE  WalkInv(w)' /\ RunInv(w)' /\ Kept(w)
  <1>1. CASE RunMoves
    BY <1>1, RunNextKeeps DEF RunMoves
  <1>2. CASE UNCHANGED <<walkVars, runVars>>
    <2>1. UNCHANGED Mirror(w)!discoveryVars /\ UNCHANGED Mirror(w)!syncVars
      BY <1>2, MirrorStays, RunStays DEF Mirrors
    <2> QED
      BY <2>1, ServerMovesOn
  <1>3. ~WalkMoves
    BY PartsAssumption DEF WalkMoves
  <1> QED
    BY <1>1, <1>2, <1>3 DEF Next, HeadsMove, vars

\* A step as a walk alone sees it.
LEMMA WalkAloneStep ==
    ASSUME NEW w \in Walks, part = w, WalkInv(w), [Next]_vars
    PROVE  WalkInv(w)' /\ Simulates(w)
  <1>1. CASE WalkMoves
    BY <1>1, WalkNextKeeps, WalkNextSimulates DEF WalkMoves, Mirrors
  <1>2. CASE UNCHANGED walkVars
    <2>1. WalkInv(w)'
      BY <1>2, MirrorStays, WalkRests DEF Mirrors
    <2>2. UNCHANGED <<batch, queue, processed, found, protected>>
      BY <1>2 DEF walkVars
    <2> QED
      BY <2>1, <2>2 DEF Simulates, Mirror!Walk!vars
  <1>3. ~RunMoves
    BY PartsAssumption DEF RunMoves
  <1> QED
    BY <1>1, <1>2, <1>3 DEF Next, HeadsMove, vars

LEMMA Inductive == IInv /\ [Next]_vars => IInv'
  <1> SUFFICES ASSUME IInv, [Next]_vars PROVE IInv'
    OBVIOUS
  <1>1. part' = part
    BY DEF Next, RunMoves, WalkMoves, HeadsMove, vars
  <1>2. ASSUME NEW w \in Syncs, part = w
        PROVE  WalkInv(w)' /\ RunInv(w)'
    BY <1>2, SyncStep DEF IInv, Mirrors
  <1>3. ASSUME NEW w \in Walks, part = w
        PROVE  WalkInv(w)'
    BY <1>3, WalkAloneStep DEF IInv, Mirrors
  <1>4. ASSUME NEW c \in Checks, part = c
        PROVE  HeadInv(c)'
    <2>1. HeadInv(c)
      BY <1>4 DEF IInv
    <2>2. CASE HeadsMove
      BY <1>4, <2>1, <2>2, HeadNextKeeps DEF HeadsMove
    <2>3. CASE UNCHANGED headVars
      BY <2>1, <2>3, HeadsStay
    <2> QED
      BY <2>2, <2>3 DEF Next, RunMoves, WalkMoves, vars
  <1> QED
    BY <1>1, <1>2, <1>3, <1>4 DEF IInv, Mirrors

THEOREM Invariance == Spec => []IInv
  BY Initial, Inductive, PTL DEF Spec

-----------------------------------------------------------------------------
(* What a run promises *)

\* A complete scan has read every page it goes by, each directory once; a
\* directory set aside as a link had its target entered; selected roots cover
\* what matches and do not overlap (scan.py:270-330, 665-690, 812-850,
\* directory_selection.py:86-101). For every tree of directories, every
\* mixture of pages, links and failures, and any number of threads.
THEOREM CompleteAlwaysRead == Spec => []CompleteMeansRead
  <1>1. ASSUME IInv PROVE CompleteMeansRead
    <2> SUFFICES ASSUME NEW w \in Mirrors, part = w
                 PROVE  /\ Mirror(w)!CompleteMeansRead /\ Mirror(w)!LinkHasItsTarget
                        /\ Mirror(w)!SelectionIsDisjointCover
      BY DEF CompleteMeansRead
    <2>1. WalkInv(w)
      BY <1>1 DEF IInv
    <2>2. Mirror(w)!LinkHasItsTarget
      BY <2>1 DEF WalkInv
    <2> QED
      BY <2>1, <2>2, CompleteHasRead, RootsAreDisjointCover
  <1> QED
    BY <1>1, Invariance, PTL

\* Where links lead down, a file is removed or archived only if this run saw
\* it absent: the page of the deepest directory found above it did not name
\* it, or the next directory on its path (cleanup.py:142-208, 240-253).
THEOREM RemovedAlwaysAbsent == Spec => []RemovedWasAbsent
  <1>1. IInv => RemovedWasAbsent
    BY DEF IInv, RunInv, RemovedWasAbsent
  <1> QED
    BY <1>1, Invariance, PTL

\* A run that reports success leaves every listed file in the tree and no
\* other it is responsible for, and no file without the directories above it
\* (report.py:745-870, cleanup.py:388-440).
THEOREM SuccessAlwaysMirrors == Spec => []SuccessMirrors
  <1>1. IInv => SuccessMirrors
    BY DEF IInv, RunInv, SuccessMirrors
  <1> QED
    BY <1>1, Invariance, PTL

\* The checks decide about every file once, and keep to the concurrency in
\* force (compare.py:546-683, async_primitives.py:40-64).
THEOREM FilesAlwaysDecidedOnce == Spec => []EveryFileDecidedOnce
  <1>1. ASSUME IInv PROVE EveryFileDecidedOnce
    BY <1>1, HeadsDecide DEF IInv, EveryFileDecidedOnce
  <1> QED
    BY <1>1, Invariance, PTL

\* A file leaves the tree only in the clean-up of a complete run and never
\* from where the scan did not look; moved files are in the archive and stay
\* there; a dry run and a survey change nothing (cleanup.py:31-58, 210-240,
\* 344-365, report.py:196-226).
THEOREM TreeAlwaysKept == Spec => TreeKept
  <1>1. IInv /\ [Next]_vars =>
            [\A w \in Syncs : part = w =>
                /\ Mirror(w)!RemovesInCleanup
                /\ Setting[w].Policy = "move" => Mirror(w)!ArchivesRemoved
                /\ Setting[w].DryRun \/ Setting[w].LinkMode = "detect"
                      => Mirror(w)!ChangesNothing]_vars
    <2> SUFFICES ASSUME IInv, [Next]_vars, NEW w \in Syncs, part = w
                 PROVE  Kept(w)
      BY DEF Kept
    <2>1. WalkInv(w) /\ RunInv(w)
      BY DEF IInv, Mirrors
    <2> QED
      BY <2>1, SyncStep
  <1> QED
    BY <1>1, Invariance, PTL DEF Spec, TreeKept

\* However the threads of a parallel scan finish, its walk is the breadth-
\* first walk of the sequential one (scan.py:40-63), for any number of
\* threads: each step is one of the abstract walk, or none.
THEOREM WalkAlwaysBreadthFirst == Spec => WalksBreadthFirst
  <1>1. IInv /\ [Next]_vars =>
            [\A w \in Walks : part = w => Mirror(w)!Walk!Next \/ UNCHANGED Mirror(w)!Walk!vars]_vars
    <2> SUFFICES ASSUME IInv, [Next]_vars, NEW w \in Walks, part = w
                 PROVE  Simulates(w)
      BY DEF Simulates
    <2>1. WalkInv(w)
      BY DEF IInv, Mirrors
    <2> QED
      BY <2>1, WalkAloneStep
  <1> QED
    BY <1>1, Invariance, PTL DEF Spec, WalksBreadthFirst
=============================================================================
