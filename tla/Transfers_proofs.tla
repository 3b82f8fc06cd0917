--------------------------- MODULE Transfers_proofs ---------------------------
(***************************************************************************)
(* Theorems about Transfers: type correctness, that a resumable partial is *)
(* a prefix of what its record names, that scratch serves its writers,     *)
(* that lists keep foreign files and the receipts of their own, and that   *)
(* both engines for one file implement AtomicPublication.                  *)
(***************************************************************************)
EXTENDS Transfers, FiniteSetTheorems, TLAPS

-----------------------------------------------------------------------------
(* The inductive invariant of the whole-file transfer *)

\* What a transfer of v has written so far: blocks of v and no more than v has.
WrittenOf(v) == {Whole!Blocks(v, n) : n \in 0 .. Size[v]}

\* The record r is of the version v.
Names(r, v) == r.url = VersionUrl[v] /\ r.tag = Tag[v] /\ r.size = Size[v]

\* A URL serves a version of its own, which has been offered.
ServerInv == \A u \in Url : server[u] \in offered /\ VersionUrl[server[u]] = u

\* What can be resumed is a beginning of the version the record names.
RecordInv ==
    \A u \in Url : Whole!Load(u) # NoMeta =>
        \E v \in Version : Names(meta, v) /\ VersionUrl[v] = u /\ partial \in WrittenOf(v)

\* The steps at which a response is being read.
Reading == {"open", "bind", "stream", "verify", "publish"}

\* How far the transfer is, and what it has written by then.
RunInv ==
    /\ pc # "idle" => url \in Url
    /\ pc \in {"request", "refetch"} /\ using # NoMeta => Whole!Load(url) = using
    /\ pc \in Reading => version \in offered /\ VersionUrl[version] = url
    /\ pc \in Reading /\ (pc = "open" => append) => partial \in WrittenOf(version)
    /\ pc = "stream" => meta = NoMeta \/ Names(meta, version)
    /\ pc = "publish" /\ version \in Announced =>
           partial = Whole!Blocks(version, Size[version])

WholeInv == Whole!TypeOK /\ ServerInv /\ RecordInv /\ RunInv

-----------------------------------------------------------------------------
(* The inductive invariant of the chunked download *)

\* The steps between the plan and the end of the clean-up.
Planned == {"submit", "wait", "decide", "retry", "retrying", "finish", "publish", "clean"}

\* The chunks that are not complete.
Missing == {c \in InChunks!Chunk : chunk[c] # "completed"}

\* Scratch is there from the plan on and for as long as a chunk is under way,
\* and it is paid for.
SpaceInv ==
    /\ chunkPc \in Planned \union {"create"} => ~deferred
    /\ chunkPc \in Planned => work
    /\ InChunks!Pending # {} => work
    /\ chunkPc = "create" => ~work /\ claim = budgeted
    /\ InChunks!ScratchIsCharged

\* The version that is planned has been offered.
PlanInv ==
    /\ chunkServer \in chunkOffered
    /\ planned # NoVersion => planned \in chunkOffered
    /\ chunkPc \in Planned => planned # NoVersion

\* A response that is read is of the planned version; a complete chunk holds
\* that version and has no thread; chunks are submitted in order.
BlockInv ==
    /\ \A c \in InChunks!Chunk :
           /\ task[c] = "body" => got[c] = planned /\ got[c] # NoVersion
           /\ chunk[c] = "completed" => task[c] = "done" /\ block[c] = planned
    /\ chunkPc = "submit" => \A c \in InChunks!Chunk : next <= c => task[c] = "none"
    /\ chunkPc = "publish" => Missing = {}

\* Every chunk that was waited for and is not complete has been counted.
CountInv ==
    /\ chunkPc \in {"create", "submit"} => failed = 0
    /\ chunkPc = "wait" =>
           failed < next /\ Cardinality(Missing \intersect 1 .. next - 1) <= failed
    /\ chunkPc \in {"decide", "retry"} => Cardinality(Missing) <= failed
    /\ chunkPc = "retrying" => Cardinality(Missing \union {next}) <= failed

ChunkInv == InChunks!TypeOK /\ SpaceInv /\ PlanInv /\ BlockInv /\ CountInv

-----------------------------------------------------------------------------
(* The inductive invariant of a list, kept or overwritten *)

\* Identities count up, and receipts name files this mode published.
OursInv(way) ==
    /\ lost = {}
    /\ ours \subseteq 1 .. last
    /\ \A u \in Listed[way] :
           /\ disk[u] <= last /\ listOriginal[u] <= last
           /\ noted[u] \in ours \union {0} /\ saved[u] \in ours \union {0}

\* Threads work on files only while the list is loaded.
PhaseInv(way) ==
    /\ phase # "load" => Lists(way)!Active = {}
    /\ closed => phase \notin {"examine", "load"}
    /\ phase = "examine" => published = {}

\* Without --overwrite, what an entry of the list is about to replace is ours.
MineInv(way) ==
    way = "kept" /\ phase # "idle" =>
        \A u \in Listed[way] :
            /\ stage[u] \in {"listed", "preparing", "probing"} => disk[u] \in ours \union {0}
            /\ stage[u] \in {"fetching", "ranges", "publishing"} =>
                   listOriginal[u] \in ours \union {0}

\* What is published is noted before its entry is done.
NotedInv(way) ==
    phase \in {"load", "save"} =>
        \A u \in Listed[way] :
            /\ u \in published => stage[u] \in {"noting", "releasing", "done"}
            /\ stage[u] = "noting" =>
                   u \in published /\ disk[u] \in ours /\ listOriginal[u] < disk[u]
            /\ u \in succeeded => noted[u] \in ours /\ listOriginal[u] < noted[u]
            /\ u \in published \ unnoted /\ stage[u] # "noting" => noted[u] = disk[u]

ListInv(way) ==
    /\ Lists(way)!TypeOK
    /\ OursInv(way) /\ PhaseInv(way) /\ MineInv(way) /\ NotedInv(way)
    /\ Lists(way)!SuccessesHaveReceipts /\ Lists(way)!InterruptionKeepsReceipts

-----------------------------------------------------------------------------
IInv ==
    /\ part \in Parts
    /\ WholeInv /\ ChunkInv
    /\ \A way \in Ways : part = way => ListInv(way)

-----------------------------------------------------------------------------
(* The whole-file transfer *)

LEMMA WholeConstants ==
    /\ VersionUrl \in [Version -> Url] /\ Size \in [Version -> Nat \ {0}]
    /\ Announced \subseteq Version /\ MaxRetries \in Nat
    /\ NoUrl \notin Url /\ NoVersion \notin Version
    /\ \A v, w \in Version :
          VersionUrl[v] = VersionUrl[w] /\ Tag[v] = Tag[w] /\ Tag[v] # NoTag => v = w
  BY PartsAssumption DEF Whole!TransferAssumption

\* A block more of a version is one more of its blocks.
LEMMA BlocksAre ==
    \A v \in Version, n \in Nat :
        /\ Whole!Blocks(v, n) \in Seq(Version) /\ Len(Whole!Blocks(v, n)) = n
        /\ Append(Whole!Blocks(v, n), v) = Whole!Blocks(v, n + 1)
  BY DEF Whole!Blocks

LEMMA WrittenIsBody ==
    \A v \in Version :
        /\ <<>> \in WrittenOf(v)
        /\ \A p \in WrittenOf(v) :
              /\ p \in Whole!Body /\ Len(p) \in 0 .. Size[v] /\ p = Whole!Blocks(v, Len(p))
              /\ Len(p) < Size[v] => Append(p, v) \in WrittenOf(v)
  <1> SUFFICES ASSUME NEW v \in Version
               PROVE  /\ <<>> \in WrittenOf(v)
                      /\ \A p \in WrittenOf(v) :
                            /\ p \in Whole!Body /\ Len(p) \in 0 .. Size[v]
                            /\ p = Whole!Blocks(v, Len(p))
                            /\ Len(p) < Size[v] => Append(p, v) \in WrittenOf(v)
    OBVIOUS
  <1>1. Size[v] \in Nat
    BY WholeConstants
  <1>2. <<>> \in WrittenOf(v)
    BY <1>1 DEF WrittenOf, Whole!Blocks
  <1>3. ASSUME NEW p \in WrittenOf(v)
        PROVE  /\ p \in Whole!Body /\ Len(p) \in 0 .. Size[v]
               /\ p = Whole!Blocks(v, Len(p))
               /\ Len(p) < Size[v] => Append(p, v) \in WrittenOf(v)
    <2>1. PICK n \in 0 .. Size[v] : p = Whole!Blocks(v, n)
      BY DEF WrittenOf
    <2>2. p \in Seq(Version) /\ Len(p) = n /\ Append(p, v) = Whole!Blocks(v, n + 1)
      <3>1. n \in Nat
        BY <1>1, <2>1
      <3> QED
        BY <2>1, <3>1, BlocksAre
    <2>3. n < Size[v] => n + 1 \in 0 .. Size[v]
      BY <1>1
    <2> QED
      BY <1>1, <2>1, <2>2, <2>3 DEF WrittenOf, Whole!Body
  <1> QED
    BY <1>2, <1>3

LEMMA WholeInitial == Whole!Init => WholeInv
  <1> SUFFICES ASSUME Whole!Init PROVE WholeInv
    OBVIOUS
  <1>1. Whole!TypeOK
    <2>1. server \in [Url -> Version] /\ offered \subseteq Version
      BY DEF Whole!Init
    <2>2. attempt \in 0 .. MaxRetries
      BY WholeConstants DEF Whole!Init
    <2> QED
      BY <2>1, <2>2 DEF Whole!Init, Whole!TypeOK
  <1>2. ServerInv
    BY DEF Whole!Init, ServerInv
  <1>3. RecordInv
    BY DEF Whole!Init, RecordInv, Whole!Load
  <1>4. RunInv
    BY DEF Whole!Init, RunInv, Reading
  <1> QED
    BY <1>1, <1>2, <1>3, <1>4 DEF WholeInv

\* What is on disk stays resumable when a file or a record of it goes.
LEMMA RecordStays ==
    ASSUME RecordInv, meta' \in {meta, NoMeta}, partial' \in {partial, NoFile}
    PROVE  RecordInv'
  <1> SUFFICES ASSUME NEW u \in Url, Whole!Load(u)' # NoMeta
               PROVE  \E v \in Version :
                         Names(meta, v)' /\ VersionUrl[v] = u /\ partial' \in WrittenOf(v)
    BY DEF RecordInv
  <1>1. meta' = meta /\ partial' = partial /\ Whole!Load(u) # NoMeta
    BY DEF Whole!Load
  <1>2. PICK v \in Version : Names(meta, v) /\ VersionUrl[v] = u /\ partial \in WrittenOf(v)
    BY <1>1 DEF RecordInv
  <1> QED
    BY <1>1, <1>2 DEF Names

\* A partial that a record names holds the first blocks of what the server
\* has, if the server's version has the record's tag.
LEMMA ServedIsNamed ==
    ASSUME WholeInv, url \in Url, using # NoMeta, Whole!Load(url) = using,
           Tag[server[url]] = using.tag
    PROVE  /\ server[url] \in Version /\ Names(meta, server[url])
           /\ partial \in WrittenOf(server[url])
  <1>1. PICK v \in Version : Names(meta, v) /\ VersionUrl[v] = url /\ partial \in WrittenOf(v)
    BY DEF WholeInv, RecordInv
  <1>2. meta = using /\ using \in Whole!Record
    BY DEF Whole!Load, WholeInv, Whole!TypeOK
  <1>3. meta.tag # NoTag
    BY <1>2 DEF Whole!Record
  <1>4. server[url] \in Version /\ VersionUrl[server[url]] = url
    BY DEF WholeInv, Whole!TypeOK, ServerInv
  <1>5. v = server[url]
    BY <1>1, <1>2, <1>3, <1>4, WholeConstants DEF Names
  <1> QED
    BY <1>1, <1>5

\* A step keeps the types.
LEMMA WholeTypes == ASSUME WholeInv, Whole!Next PROVE Whole!TypeOK'
  <1> USE WholeConstants DEF WholeInv, Whole!TypeOK, Whole!diskVars, Whole!netVars, Whole!runVars
  <1>1. ASSUME pc \in Reading, pc = "open" => append
        PROVE  version \in Version /\ partial \in WrittenOf(version) /\ partial \in Whole!Body
    BY <1>1, WrittenIsBody DEF RunInv
  <1>s. ASSUME Whole!Stop
        PROVE  /\ pc' = "idle" /\ attempt' \in 0 .. MaxRetries /\ using' = NoMeta
               /\ version' = NoVersion /\ append' \in BOOLEAN
               /\ UNCHANGED <<url, resume, original>>
    <2>1. attempt' = 0 /\ append' = FALSE
      BY <1>s DEF Whole!Stop
    <2>2. attempt' \in 0 .. MaxRetries
      BY <2>1
    <2>3. append' \in BOOLEAN
      BY <2>1
    <2> QED
      BY <1>s, <2>2, <2>3 DEF Whole!Stop
  <1>2. CASE Whole!BeginAttempt \/ Whole!RangeNotSatisfiable \/ Whole!Answer200
             \/ Whole!OtherStatus \/ Whole!EndOfBody \/ Whole!Verify \/ Whole!Finish
    <2>1. CASE Whole!BeginAttempt
      BY <2>1 DEF Whole!BeginAttempt, Whole!Load
    <2>2. CASE Whole!RangeNotSatisfiable
      BY <2>2 DEF Whole!RangeNotSatisfiable
    <2>3. CASE Whole!Answer200
      BY <2>3 DEF Whole!Answer200, RunInv
    <2>4. CASE Whole!OtherStatus
      BY <1>s, <2>4 DEF Whole!OtherStatus
    <2>5. CASE Whole!EndOfBody
      BY <2>5 DEF Whole!EndOfBody
    <2>6. CASE Whole!Verify
      BY <2>6 DEF Whole!Verify
    <2>7. CASE Whole!Finish
      BY <1>s, <2>7 DEF Whole!Finish
    <2> QED
      BY <1>2, <2>1, <2>2, <2>3, <2>4, <2>5, <2>6, <2>7
  <1>3. CASE \E start \in 0 .. Size[server[url]] - 1 : Whole!Answer206(start) \/ Whole!BadRange(start)
    <2>1. server[url] \in Version \/ pc \notin {"request", "refetch"}
      BY DEF RunInv
    <2> QED
      BY <1>3, <2>1 DEF Whole!Answer206, Whole!BadRange, Whole!Acceptable
  <1>4. CASE Whole!OpenPartial
    <2>1. version \in Version /\ partial' \in {partial, <<>>}
      BY <1>4 DEF Whole!OpenPartial, RunInv, Reading
    <2>2. <<>> \in Whole!Body
      BY <2>1, WrittenIsBody
    <2> QED
      BY <1>4, <2>1, <2>2 DEF Whole!OpenPartial
  <1>5. CASE Whole!BindRecord
    <2>1. version \in Version /\ url \in Url /\ VersionUrl[version] = url
      BY <1>5 DEF Whole!BindRecord, RunInv, Reading
    <2>2. meta' \in Whole!Record \union {NoMeta}
      BY <1>5, <2>1 DEF Whole!BindRecord, Whole!Record
    <2> QED
      BY <1>5, <2>2 DEF Whole!BindRecord
  <1>6. CASE Whole!WriteBlock
    <2>1. version \in Version /\ partial \in WrittenOf(version)
      BY <1>1, <1>6 DEF Whole!WriteBlock, Reading
    <2>2. partial' \in WrittenOf(version)
      BY <1>6, <2>1, WrittenIsBody DEF Whole!WriteBlock
    <2>3. partial' \in Whole!Body
      BY <2>1, <2>2, WrittenIsBody
    <2> QED
      BY <1>6, <2>3 DEF Whole!WriteBlock
  <1>7. CASE Whole!Publish
    <2>1. partial \in Whole!Body
      BY <1>1, <1>7 DEF Whole!Publish, Reading
    <2> QED
      BY <1>7, <2>1 DEF Whole!Publish
  <1>8. CASE Whole!NetworkError \/ Whole!ConnectionRefused \/ Whole!NoCapacity \/ Whole!OtherError
             \/ Whole!DiscardBytes \/ Whole!DiscardRecord \/ Whole!Crash \/ Whole!CleanupStalePartial
    <2>1. CASE Whole!NetworkError
      <3>1. /\ pc' \in {"attempt", "idle"} /\ using' = NoMeta /\ version' = NoVersion
            /\ UNCHANGED <<server, offered, dest, partial, meta, url, resume, original>>
        BY <1>s, <2>1 DEF Whole!NetworkError
      <3>2. attempt' \in 0 .. MaxRetries
        BY <1>s, <2>1 DEF Whole!NetworkError
      <3>3. append' \in BOOLEAN
        BY <1>s, <2>1 DEF Whole!NetworkError
      <3> QED
        BY <3>1, <3>2, <3>3
    <2>2. CASE Whole!ConnectionRefused
      BY <1>s, <2>2 DEF Whole!ConnectionRefused
    <2>3. CASE Whole!NoCapacity
      BY <1>s, <2>3 DEF Whole!NoCapacity
    <2>4. CASE Whole!OtherError
      BY <2>4 DEF Whole!OtherError
    <2>5. CASE Whole!DiscardBytes
      BY <1>s, <2>5 DEF Whole!DiscardBytes
    <2>6. CASE Whole!DiscardRecord
      BY <1>s, <2>6 DEF Whole!DiscardRecord
    <2>7. CASE Whole!Crash
      BY <1>s, <2>7 DEF Whole!Crash
    <2>8. CASE Whole!CleanupStalePartial
      BY <2>8 DEF Whole!CleanupStalePartial
    <2> QED
      BY <1>8, <2>1, <2>2, <2>3, <2>4, <2>5, <2>6, <2>7, <2>8
  <1>9. ASSUME NEW u \in Url, NEW r \in BOOLEAN, Whole!Start(u, r) PROVE Whole!TypeOK'
    BY <1>9 DEF Whole!Start
  <1>10. ASSUME NEW v \in Version, Whole!ServerChange(v) PROVE Whole!TypeOK'
    BY <1>10 DEF Whole!ServerChange
  <1>11. ASSUME NEW f \in UserFile \union {NoFile}, Whole!UserEdit(f) PROVE Whole!TypeOK'
    BY <1>11 DEF Whole!UserEdit
  <1> QED
    BY <1>2, <1>3, <1>4, <1>5, <1>6, <1>7, <1>8, <1>9, <1>10, <1>11
       DEF Whole!Next, Whole!Step, Whole!Environment

\* A step that leaves the server alone, adds nothing to the partial or its
\* record, and ends or begins an attempt, keeps the invariant.
LEMMA WholeRests ==
    ASSUME WholeInv, Whole!TypeOK', UNCHANGED <<server, offered>>,
           meta' \in {meta, NoMeta}, partial' \in {partial, NoFile},
           pc' \in {"idle", "attempt", "published", "discard", "discardRecord"},
           pc' # "idle" => url' \in Url
    PROVE  WholeInv'
  <1>1. ServerInv' /\ RecordInv'
    BY RecordStays DEF WholeInv, ServerInv
  <1>2. RunInv'
    BY DEF RunInv, Reading
  <1> QED
    BY <1>1, <1>2 DEF WholeInv

\* A step of the transfer between its request and its end keeps the invariant.
LEMMA WholeGoesOn ==
    ASSUME WholeInv, Whole!TypeOK', UNCHANGED <<server, offered, url>>, pc # "idle",
           RecordInv', RunInv'
    PROVE  WholeInv'
  BY DEF WholeInv, ServerInv

LEMMA WholeStep == ASSUME WholeInv, Whole!Next PROVE WholeInv'
  <1> USE DEF Whole!diskVars, Whole!netVars, Whole!runVars
  <1>1. Whole!TypeOK'
    BY WholeTypes
  <1>2. pc # "idle" => url \in Url
    BY DEF WholeInv, RunInv
  <1>s. Whole!Stop => pc' = "idle"
    BY DEF Whole!Stop
  <1>3. CASE Whole!BeginAttempt
    <2>1. RecordInv'
      BY <1>3, RecordStays DEF Whole!BeginAttempt, WholeInv
    <2>2. using' # NoMeta => Whole!Load(url)' = using'
      BY <1>3 DEF Whole!BeginAttempt, Whole!Load
    <2>3. RunInv'
      BY <1>2, <1>3, <2>2 DEF Whole!BeginAttempt, RunInv, Reading
    <2> QED
      BY <1>1, <1>3, <2>1, <2>3, WholeGoesOn DEF Whole!BeginAttempt
  <1>4. CASE Whole!RangeNotSatisfiable
    <2>1. RecordInv'
      BY <1>4, RecordStays DEF Whole!RangeNotSatisfiable, WholeInv
    <2>2. RunInv'
      BY <1>2, <1>4 DEF Whole!RangeNotSatisfiable, WholeInv, RunInv, Reading, Whole!Load
    <2> QED
      BY <1>1, <1>4, <2>1, <2>2, WholeGoesOn DEF Whole!RangeNotSatisfiable
  <1>5. CASE Whole!Answer200
    <2>1. RecordInv'
      BY <1>5, RecordStays DEF Whole!Answer200, WholeInv
    <2>2. server[url] \in offered /\ VersionUrl[server[url]] = url
      BY <1>2, <1>5 DEF Whole!Answer200, WholeInv, ServerInv
    <2>3. RunInv'
      BY <1>2, <1>5, <2>2 DEF Whole!Answer200, RunInv, Reading
    <2> QED
      BY <1>1, <1>5, <2>1, <2>3, WholeGoesOn DEF Whole!Answer200
  <1>6. ASSUME NEW start, Whole!Answer206(start) PROVE WholeInv'
    <2>1. RecordInv'
      BY <1>6, RecordStays DEF Whole!Answer206, WholeInv
    <2>2. server[url] \in offered /\ VersionUrl[server[url]] = url
      BY <1>2, <1>6 DEF Whole!Answer206, Whole!Acceptable, WholeInv, ServerInv
    <2>3. Whole!Load(url) = using
      BY <1>6 DEF Whole!Answer206, Whole!Acceptable, WholeInv, RunInv
    <2>4. partial \in WrittenOf(server[url])
      BY <1>2, <1>6, <2>3, ServedIsNamed DEF Whole!Answer206, Whole!Acceptable
    <2>5. RunInv'
      BY <1>2, <1>6, <2>2, <2>4 DEF Whole!Answer206, Whole!Acceptable, RunInv, Reading
    <2> QED
      BY <1>1, <1>6, <2>1, <2>5, WholeGoesOn DEF Whole!Answer206, Whole!Acceptable
  <1>7. ASSUME NEW start, Whole!BadRange(start) PROVE WholeInv'
    BY <1>1, <1>2, <1>7, WholeRests DEF Whole!BadRange
  <1>8. CASE Whole!OtherStatus
    BY <1>1, <1>s, <1>8, WholeRests DEF Whole!OtherStatus
  <1>9. CASE Whole!OpenPartial
    <2>1. version \in Version /\ partial' \in WrittenOf(version)
      <3>1. version \in Version
        BY <1>9 DEF Whole!OpenPartial, WholeInv, Whole!TypeOK, RunInv, Reading
      <3> QED
        BY <1>9, <3>1, WrittenIsBody DEF Whole!OpenPartial, WholeInv, RunInv, Reading
    <2>2. RecordInv'
      <3>1. CASE append
        BY <1>9, <3>1, RecordStays DEF Whole!OpenPartial, WholeInv
      <3>2. CASE ~ append
        BY <1>9, <3>2 DEF Whole!OpenPartial, RecordInv, Whole!Load
      <3> QED
        BY <3>1, <3>2
    <2>3. RunInv'
      BY <1>2, <1>9, <2>1 DEF Whole!OpenPartial, WholeInv, RunInv, Reading
    <2> QED
      BY <1>1, <1>9, <2>2, <2>3, WholeGoesOn DEF Whole!OpenPartial
  <1>10. CASE Whole!BindRecord
    <2>1. /\ version \in Version /\ version \in offered /\ VersionUrl[version] = url
          /\ partial \in WrittenOf(version)
      BY <1>10 DEF Whole!BindRecord, WholeInv, Whole!TypeOK, RunInv, Reading
    <2>2. meta' = NoMeta \/ Names(meta', version)
      BY <1>10, <2>1 DEF Whole!BindRecord, Names
    <2>3. RecordInv'
      BY <1>10, <2>1, <2>2 DEF Whole!BindRecord, RecordInv, Whole!Load, Names
    <2>4. RunInv'
      BY <1>2, <1>10, <2>1, <2>2 DEF Whole!BindRecord, RunInv, Reading, Names
    <2> QED
      BY <1>1, <1>10, <2>3, <2>4, WholeGoesOn DEF Whole!BindRecord
  <1>11. CASE Whole!WriteBlock
    <2>1. /\ version \in Version /\ version \in offered /\ VersionUrl[version] = url
          /\ partial \in WrittenOf(version) /\ (meta = NoMeta \/ Names(meta, version))
      BY <1>11 DEF Whole!WriteBlock, WholeInv, Whole!TypeOK, RunInv, Reading
    <2>2. partial' \in WrittenOf(version)
      BY <1>11, <2>1, WrittenIsBody DEF Whole!WriteBlock
    <2>3. RecordInv'
      BY <1>11, <2>1, <2>2 DEF Whole!WriteBlock, RecordInv, Whole!Load, Names
    <2>4. RunInv'
      BY <1>2, <1>11, <2>1, <2>2 DEF Whole!WriteBlock, RunInv, Reading, Names
    <2> QED
      BY <1>1, <1>11, <2>3, <2>4, WholeGoesOn DEF Whole!WriteBlock
  <1>12. CASE Whole!EndOfBody
    <2>1. RecordInv'
      BY <1>12, RecordStays DEF Whole!EndOfBody, WholeInv
    <2>2. RunInv'
      BY <1>2, <1>12 DEF Whole!EndOfBody, WholeInv, RunInv, Reading
    <2> QED
      BY <1>1, <1>12, <2>1, <2>2, WholeGoesOn DEF Whole!EndOfBody
  <1>13. CASE Whole!Verify
    <2>1. RecordInv'
      BY <1>13, RecordStays DEF Whole!Verify, WholeInv
    <2>2. /\ version \in Version /\ version \in offered /\ VersionUrl[version] = url
          /\ partial \in WrittenOf(version)
      BY <1>13 DEF Whole!Verify, WholeInv, Whole!TypeOK, RunInv, Reading
    <2>3. partial = Whole!Blocks(version, Len(partial))
      BY <2>2, WrittenIsBody
    <2>4. RunInv'
      BY <1>2, <1>13, <2>2, <2>3 DEF Whole!Verify, RunInv, Reading
    <2> QED
      BY <1>1, <1>13, <2>1, <2>4, WholeGoesOn DEF Whole!Verify
  <1>14. CASE Whole!Publish
    BY <1>1, <1>2, <1>14, WholeRests DEF Whole!Publish
  <1>15. CASE Whole!Finish
    BY <1>1, <1>s, <1>15, WholeRests DEF Whole!Finish
  <1>16. CASE Whole!NetworkError
    BY <1>1, <1>2, <1>s, <1>16, WholeRests DEF Whole!NetworkError
  <1>17. CASE Whole!ConnectionRefused
    BY <1>1, <1>s, <1>17, WholeRests DEF Whole!ConnectionRefused
  <1>18. CASE Whole!NoCapacity
    BY <1>1, <1>2, <1>s, <1>18, WholeRests DEF Whole!NoCapacity
  <1>19. CASE Whole!OtherError
    BY <1>1, <1>2, <1>19, WholeRests DEF Whole!OtherError
  <1>20. CASE Whole!DiscardBytes
    BY <1>1, <1>2, <1>s, <1>20, WholeRests DEF Whole!DiscardBytes
  <1>21. CASE Whole!DiscardRecord
    BY <1>1, <1>s, <1>21, WholeRests DEF Whole!DiscardRecord
  <1>22. CASE Whole!Crash
    BY <1>1, <1>s, <1>22, WholeRests DEF Whole!Crash
  <1>23. CASE Whole!CleanupStalePartial
    BY <1>1, <1>23, WholeRests DEF Whole!CleanupStalePartial
  <1>24. ASSUME NEW u \in Url, NEW r \in BOOLEAN, Whole!Start(u, r) PROVE WholeInv'
    BY <1>1, <1>24, WholeRests DEF Whole!Start
  <1>25. ASSUME NEW v \in Version, Whole!ServerChange(v) PROVE WholeInv'
    <2>1. ServerInv'
      BY <1>25 DEF Whole!ServerChange, WholeInv, ServerInv, Whole!TypeOK
    <2>2. RecordInv'
      BY <1>25, RecordStays DEF Whole!ServerChange, WholeInv
    <2>3. RunInv'
      BY <1>2, <1>25 DEF Whole!ServerChange, WholeInv, RunInv, Reading, Whole!Load, Names
    <2> QED
      BY <1>1, <2>1, <2>2, <2>3 DEF WholeInv
  <1>26. ASSUME NEW f \in UserFile \union {NoFile}, Whole!UserEdit(f) PROVE WholeInv'
    <2>1. ServerInv' /\ RecordInv'
      BY <1>26, RecordStays DEF Whole!UserEdit, WholeInv, ServerInv
    <2>2. RunInv'
      BY <1>2, <1>26 DEF Whole!UserEdit, WholeInv, RunInv, Reading, Whole!Load, Names
    <2> QED
      BY <1>1, <2>1, <2>2 DEF WholeInv
  <1> QED
    BY <1>3, <1>4, <1>5, <1>6, <1>7, <1>8, <1>9, <1>10, <1>11, <1>12, <1>13, <1>14, <1>15,
       <1>16, <1>17, <1>18, <1>19, <1>20, <1>21, <1>22, <1>23, <1>24, <1>25, <1>26
       DEF Whole!Next, Whole!Step, Whole!Environment

\* Seen from the destination every step publishes, looks, or is somebody's.
LEMMA WholeRefines ==
    ASSUME WholeInv, Whole!Next PROVE Whole!Atomic!Next \/ UNCHANGED Whole!Atomic!vars
  <1> USE DEF Whole!diskVars, Whole!netVars, Whole!runVars, Whole!Atomic!vars
  <1>s. Whole!Stop => UNCHANGED original
    BY DEF Whole!Stop
  <1>1. CASE Whole!Publish
    <2>1. CASE dest = original
      <3>1. /\ version \in Version /\ version \in offered /\ partial \in WrittenOf(version)
            /\ version \in Announced => partial = Whole!Blocks(version, Size[version])
        BY <1>1 DEF Whole!Publish, WholeInv, Whole!TypeOK, RunInv, Reading
      <3>2. Len(partial) \in 0 .. Size[version] /\ partial = Whole!Blocks(version, Len(partial))
        BY <3>1, WrittenIsBody
      <3>3. \A n : Whole!Atomic!Blocks(version, n) = Whole!Blocks(version, n)
        BY DEF Whole!Atomic!Blocks, Whole!Blocks
      <3>4. partial \in Whole!Atomic!Publishable(version)
        BY <3>1, <3>2, <3>3 DEF Whole!Atomic!Publishable, Whole!Atomic!Whole
      <3>5. Whole!Atomic!Publish(version)
        BY <1>1, <2>1, <3>1, <3>4 DEF Whole!Publish, Whole!Atomic!Publish
      <3> QED
        BY <3>1, <3>5 DEF Whole!Atomic!Next
    <2>2. CASE dest # original
      BY <1>1, <2>2 DEF Whole!Publish
    <2> QED
      BY <2>1, <2>2
  <1>2. ASSUME NEW u \in Url, NEW r \in BOOLEAN, Whole!Start(u, r) PROVE Whole!Atomic!Look
    BY <1>2 DEF Whole!Start, Whole!Atomic!Look
  <1>3. ASSUME NEW v \in Version, Whole!ServerChange(v) PROVE Whole!Atomic!Offer(v)
    BY <1>3 DEF Whole!ServerChange, Whole!Atomic!Offer
  <1>4. ASSUME NEW f \in UserFile \union {NoFile}, Whole!UserEdit(f)
        PROVE  Whole!Atomic!UserEdit(f)
    BY <1>4 DEF Whole!UserEdit, Whole!Atomic!UserEdit
  <1>5. ASSUME NEW start, Whole!Answer206(start) \/ Whole!BadRange(start)
        PROVE  UNCHANGED Whole!Atomic!vars
    BY <1>5 DEF Whole!Answer206, Whole!BadRange
  <1>6. CASE Whole!BeginAttempt \/ Whole!RangeNotSatisfiable \/ Whole!Answer200
             \/ Whole!OtherStatus \/ Whole!OpenPartial \/ Whole!BindRecord \/ Whole!WriteBlock
             \/ Whole!EndOfBody \/ Whole!Verify \/ Whole!Finish
    BY <1>s, <1>6 DEF Whole!BeginAttempt, Whole!RangeNotSatisfiable, Whole!Answer200,
       Whole!OtherStatus, Whole!OpenPartial, Whole!BindRecord, Whole!WriteBlock,
       Whole!EndOfBody, Whole!Verify, Whole!Finish
  <1>7. CASE Whole!NetworkError \/ Whole!ConnectionRefused \/ Whole!NoCapacity
             \/ Whole!OtherError \/ Whole!DiscardBytes \/ Whole!DiscardRecord
             \/ Whole!Crash \/ Whole!CleanupStalePartial
    BY <1>s, <1>7 DEF Whole!NetworkError, Whole!ConnectionRefused, Whole!NoCapacity,
       Whole!OtherError, Whole!DiscardBytes, Whole!DiscardRecord, Whole!Crash,
       Whole!CleanupStalePartial
  <1> QED
    BY <1>1, <1>2, <1>3, <1>4, <1>5, <1>6, <1>7
       DEF Whole!Next, Whole!Step, Whole!Environment, Whole!Atomic!Next
-----------------------------------------------------------------------------
(* The chunked download *)

LEMMA ChunkConstants ==
    /\ Chunks \in Nat \ {0} /\ ChunkRetries \in Nat /\ RetryLimit \in Nat
    /\ NoVersion \notin Served /\ Torn \notin Served
    /\ InChunks!Chunk = 1 .. Chunks
  BY PartsAssumption DEF InChunks!ChunkAssumption, InChunks!Chunk

LEMMA ChunkIsFinite ==
    /\ IsFiniteSet(InChunks!Chunk)
    /\ Missing \subseteq InChunks!Chunk /\ IsFiniteSet(Missing) /\ Cardinality(Missing) \in Nat
  <1>1. IsFiniteSet(InChunks!Chunk)
    BY ChunkConstants, FS_Interval
  <1>2. Missing \subseteq InChunks!Chunk
    BY DEF Missing
  <1> QED
    BY <1>1, <1>2, FS_Subset, FS_CardinalityType

LEMMA ChunkInitial == InChunks!Init => ChunkInv
  <1> SUFFICES ASSUME InChunks!Init PROVE ChunkInv
    OBVIOUS
  <1>1. InChunks!TypeOK
    <2>1. {noSpace, unpublished, work, deferred, budgeted, claim, shut} \subseteq BOOLEAN
      BY DEF InChunks!Init
    <2>2. {chunkDest, chunkOriginal} \subseteq Edits \union {NoFile} \union [InChunks!Chunk -> Served]
      BY DEF InChunks!Init
    <2>3. /\ next \in InChunks!Chunk /\ failed \in 0 .. Chunks
          /\ chunkAttempt \in [InChunks!Chunk -> 0 .. ChunkRetries]
          /\ retries \in [InChunks!Chunk -> Nat]
      BY ChunkConstants DEF InChunks!Init
    <2> QED
      BY <2>1, <2>2, <2>3 DEF InChunks!Init, InChunks!TypeOK
  <1>2. SpaceInv
    BY DEF InChunks!Init, SpaceInv, Planned, InChunks!Pending, InChunks!ScratchIsCharged
  <1>3. PlanInv
    BY DEF InChunks!Init, PlanInv, Planned
  <1>4. BlockInv
    BY DEF InChunks!Init, BlockInv
  <1>5. CountInv
    BY DEF InChunks!Init, CountInv
  <1> QED
    BY <1>1, <1>2, <1>3, <1>4, <1>5 DEF ChunkInv

\* What the thread of chunk c may do to the chunks: it ends, or goes on.
Works(c) ==
    /\ UNCHANGED <<chunkServer, chunkOffered, chunkDest, planned, chunkOriginal, budgeted, work,
                   deferred, claim, chunkPc, next, status, failed, unpublished, shut>>
    /\ task[c] \in {"queued", "permit", "request", "body"}
    /\ task' \in [InChunks!Chunk -> {"none", "queued", "permit", "request", "body", "done"}]
    /\ chunk' \in [InChunks!Chunk -> {"pending", "downloading", "failed", "completed"}]
    /\ got' \in [InChunks!Chunk -> Served \union {NoVersion}]
    /\ block' \in [InChunks!Chunk -> Served \union {Torn}]
    /\ \A d \in InChunks!Chunk \ {c} :
          task'[d] = task[d] /\ chunk'[d] = chunk[d] /\ got'[d] = got[d] /\ block'[d] = block[d]
    /\ task'[c] = "body" => got'[c] = planned /\ planned # NoVersion
    /\ chunk'[c] = "completed" => task'[c] = "done" /\ block'[c] = planned
    /\ chunkAttempt' \in [InChunks!Chunk -> 0 .. ChunkRetries]
    /\ retries' \in [InChunks!Chunk -> Nat] /\ noSpace' \in BOOLEAN

LEMMA WorkerWorks ==
    ASSUME ChunkInv, NEW c \in InChunks!Chunk, InChunks!Worker(c) PROVE Works(c)
  <1> USE ChunkConstants DEF InChunks!envVars, InChunks!fileVars, InChunks!spaceVars, InChunks!others,
                             InChunks!TaskEnds, Works
  <1>0. /\ task[c] = "body" => got[c] = planned /\ got[c] # NoVersion
        /\ chunk[c] = "completed" => task[c] = "done"
    BY DEF ChunkInv, BlockInv
  <1>1. /\ task \in [InChunks!Chunk -> {"none", "queued", "permit", "request", "body", "done"}]
        /\ chunk \in [InChunks!Chunk -> {"pending", "downloading", "failed", "completed"}]
        /\ got \in [InChunks!Chunk -> Served \union {NoVersion}]
        /\ block \in [InChunks!Chunk -> Served \union {Torn}]
        /\ chunkAttempt \in [InChunks!Chunk -> 0 .. ChunkRetries]
        /\ retries \in [InChunks!Chunk -> Nat] /\ chunkServer \in Served
    BY DEF ChunkInv, InChunks!TypeOK
  <1>2. noSpace \in BOOLEAN
    BY DEF ChunkInv, InChunks!TypeOK
  <1>3. CASE InChunks!Take(c)
    BY <1>0, <1>1, <1>2, <1>3 DEF InChunks!Take
  <1>4. CASE InChunks!Permit(c)
    BY <1>0, <1>1, <1>2, <1>4 DEF InChunks!Permit
  <1>5. CASE InChunks!NoPermit(c)
    BY <1>0, <1>1, <1>2, <1>5 DEF InChunks!NoPermit
  <1>6. CASE InChunks!Answer(c)
    BY <1>0, <1>1, <1>2, <1>6 DEF InChunks!Answer
  <1>7. CASE InChunks!Complete(c)
    BY <1>0, <1>1, <1>2, <1>7 DEF InChunks!Complete
  <1>8. CASE InChunks!BadAnswer(c)
    BY <1>0, <1>1, <1>2, <1>8 DEF InChunks!BadAnswer
  <1>9. CASE InChunks!NetworkError(c)
    <2>1. retries' \in [InChunks!Chunk -> Nat]
      BY <1>1, <1>9 DEF InChunks!NetworkError
    <2>2. chunkAttempt' \in [InChunks!Chunk -> 0 .. ChunkRetries]
      <3>1. chunkAttempt[c] \in 0 .. ChunkRetries
        BY <1>1
      <3>2. chunkAttempt[c] # ChunkRetries => chunkAttempt[c] + 1 \in 0 .. ChunkRetries
        BY <3>1
      <3> QED
        BY <1>1, <1>9, <3>2 DEF InChunks!NetworkError
    <2>3. CASE chunkAttempt[c] = ChunkRetries
      <3>1. /\ task[c] \in {"request", "body"} /\ UNCHANGED <<InChunks!others, block, noSpace>>
            /\ task' = [task EXCEPT ![c] = "done"] /\ chunk' = [chunk EXCEPT ![c] = "failed"]
            /\ got' = [got EXCEPT ![c] = NoVersion]
        BY <1>9, <2>3 DEF InChunks!NetworkError
      <3> QED
        BY <1>1, <1>2, <2>1, <2>2, <3>1
    <2>4. CASE chunkAttempt[c] # ChunkRetries
      <3>1. /\ task[c] \in {"request", "body"}
            /\ UNCHANGED <<InChunks!others, chunk, block, noSpace>>
            /\ task' = [task EXCEPT ![c] = "request"] /\ got' = [got EXCEPT ![c] = NoVersion]
        BY <1>9, <2>4 DEF InChunks!NetworkError
      <3> QED
        BY <1>0, <1>1, <1>2, <2>1, <2>2, <3>1
    <2> QED
      BY <2>3, <2>4
  <1>10. CASE InChunks!NoSpace(c)
    BY <1>0, <1>1, <1>2, <1>10 DEF InChunks!NoSpace
  <1> QED
    BY <1>3, <1>4, <1>5, <1>6, <1>7, <1>8, <1>9, <1>10 DEF InChunks!Worker

\* With fewer chunks missing the count still covers them.
LEMMA FewerMissing ==
    ASSUME ChunkInv, Missing' \subseteq Missing, UNCHANGED <<chunkPc, next, failed>>
    PROVE  CountInv'
  <1>1. next \in InChunks!Chunk /\ failed \in Nat
    BY ChunkConstants DEF ChunkInv, InChunks!TypeOK
  <1>2. \A S \in SUBSET InChunks!Chunk : \A T \in SUBSET S :
            Cardinality(T) \in Nat /\ Cardinality(S) \in Nat /\ Cardinality(T) <= Cardinality(S)
    BY ChunkIsFinite, FS_Subset, FS_CardinalityType
  <1>3. Cardinality(Missing' \intersect 1 .. next - 1) <= Cardinality(Missing \intersect 1 .. next - 1)
    BY <1>2, ChunkIsFinite
  <1>4. Cardinality(Missing') <= Cardinality(Missing)
    BY <1>2, ChunkIsFinite
  <1>5. Cardinality(Missing' \union {next}) <= Cardinality(Missing \union {next})
    BY <1>1, <1>2, ChunkIsFinite
  <1>6. /\ Cardinality(Missing' \intersect 1 .. next - 1) \in Nat
        /\ Cardinality(Missing \intersect 1 .. next - 1) \in Nat
        /\ Cardinality(Missing') \in Nat /\ Cardinality(Missing) \in Nat
        /\ Cardinality(Missing' \union {next}) \in Nat
        /\ Cardinality(Missing \union {next}) \in Nat
    BY <1>1, <1>2, ChunkIsFinite
  <1>7. CountInv
    BY DEF ChunkInv
  <1>8. CASE chunkPc = "wait"
    BY <1>1, <1>3, <1>6, <1>7, <1>8 DEF CountInv
  <1>9. CASE chunkPc \in {"decide", "retry"}
    BY <1>1, <1>4, <1>6, <1>7, <1>9 DEF CountInv
  <1>10. CASE chunkPc = "retrying"
    BY <1>1, <1>5, <1>6, <1>7, <1>10 DEF CountInv
  <1> QED
    BY <1>7, <1>8, <1>9, <1>10 DEF CountInv

\* The thread of a chunk keeps the invariant.
LEMMA WorkerStep == ASSUME ChunkInv, NEW c \in InChunks!Chunk, Works(c) PROVE ChunkInv'
  <1>1. InChunks!TypeOK'
    BY DEF Works, ChunkInv, InChunks!TypeOK
  <1>2. InChunks!Pending' \subseteq InChunks!Pending
    BY DEF Works, InChunks!Pending
  <1>3. SpaceInv'
    BY <1>2 DEF Works, ChunkInv, SpaceInv, InChunks!ScratchIsCharged
  <1>4. PlanInv'
    BY DEF Works, ChunkInv, PlanInv
  <1>5. Missing' \subseteq Missing
    BY DEF Works, ChunkInv, BlockInv, Missing
  <1>6. BlockInv'
    <2>1. ASSUME NEW d \in InChunks!Chunk
          PROVE  /\ task'[d] = "body" => got'[d] = planned /\ got'[d] # NoVersion
                 /\ chunk'[d] = "completed" => task'[d] = "done" /\ block'[d] = planned
      <3>1. CASE d = c
        BY <3>1 DEF Works
      <3>2. CASE d # c
        BY <2>1, <3>2 DEF Works, ChunkInv, BlockInv
      <3> QED
        BY <3>1, <3>2
    <2>2. ASSUME chunkPc = "submit", NEW d \in InChunks!Chunk, next <= d PROVE task'[d] = "none"
      BY <2>2 DEF Works, ChunkInv, BlockInv
    <2> QED
      BY <1>5, <2>1, <2>2 DEF Works, ChunkInv, BlockInv
  <1>7. CountInv'
    BY <1>5, FewerMissing DEF Works
  <1> QED
    BY <1>1, <1>3, <1>4, <1>6, <1>7 DEF ChunkInv

\* A step of the caller that leaves the files and the chunks alone.
LEMMA CallerRests ==
    ASSUME ChunkInv, UNCHANGED InChunks!fixed, UNCHANGED next \/ next' \in InChunks!Chunk,
           chunkPc' \in Planned \union {"idle", "create", "caller", "result", "whole", "wholePublish"},
           chunkPc' \in Planned => chunkPc \in Planned, chunkPc' # "submit",
           chunkPc' = "publish" => Missing = {},
           status' \in {"none", "downloading", "streaming", "assembling", "completed", "failed",
                        "cancelled"},
           failed' \in 0 .. Chunks, unpublished' \in BOOLEAN,
           work' \in BOOLEAN, deferred' \in BOOLEAN, claim' \in BOOLEAN,
           SpaceInv', CountInv'
    PROVE  ChunkInv'
  <1> USE DEF InChunks!fixed, InChunks!envVars, InChunks!fileVars, InChunks!taskVars
  <1>1. InChunks!TypeOK'
    BY DEF ChunkInv, InChunks!TypeOK, Planned
  <1>2. PlanInv'
    BY DEF ChunkInv, PlanInv
  <1>3. BlockInv'
    BY DEF ChunkInv, BlockInv, Missing
  <1> QED
    BY <1>1, <1>2, <1>3 DEF ChunkInv

\* The types of the values a step of the caller leaves or assigns.
LEMMA CallerTypes ==
    ASSUME ChunkInv
    PROVE  /\ chunkPc \in Planned \union {"idle", "create", "caller", "result", "whole", "wholePublish"}
           /\ status \in {"none", "downloading", "streaming", "assembling", "completed", "failed",
                          "cancelled"}
           /\ next \in InChunks!Chunk /\ failed \in 0 .. Chunks /\ unpublished \in BOOLEAN
           /\ work \in BOOLEAN /\ deferred \in BOOLEAN /\ claim \in BOOLEAN
           /\ budgeted \in BOOLEAN /\ shut \in BOOLEAN /\ noSpace \in BOOLEAN
           /\ chunkServer \in Served /\ chunkOffered \subseteq Served
  BY DEF ChunkInv, InChunks!TypeOK, Planned

\* Every path that gives up leads to the clean-up.
LEMMA GivesUp == ASSUME ChunkInv, InChunks!GiveUp, chunkPc \in Planned PROVE ChunkInv'
  <1> USE DEF InChunks!fixed, InChunks!envVars, InChunks!fileVars, InChunks!taskVars, InChunks!spaceVars
  <1>1. SpaceInv'
    BY DEF InChunks!GiveUp, ChunkInv, SpaceInv, Planned, InChunks!Pending, InChunks!ScratchIsCharged
  <1>2. CountInv'
    BY DEF InChunks!GiveUp, CountInv
  <1> QED
    BY <1>1, <1>2, CallerTypes, CallerRests DEF InChunks!GiveUp, Planned

LEMMA CallerStep ==
    ASSUME ChunkInv,
           \/ InChunks!Start \/ InChunks!NoPlan \/ InChunks!NoAdmission
           \/ InChunks!DiskFull \/ InChunks!SubmitRefused \/ InChunks!RetryRefused
           \/ InChunks!FinishFails \/ InChunks!Decide \/ InChunks!Retried \/ InChunks!Finish
           \/ InChunks!Clean \/ InChunks!Retire \/ InChunks!Settle \/ InChunks!Result
    PROVE  ChunkInv'
  <1> USE DEF InChunks!fixed, InChunks!envVars, InChunks!fileVars, InChunks!taskVars, InChunks!spaceVars
  <1>1. CASE InChunks!Start
    <2>1. SpaceInv'
      BY <1>1, CallerTypes DEF InChunks!Start, ChunkInv, SpaceInv, Planned, InChunks!Pending,
                  InChunks!ScratchIsCharged
    <2>2. failed' \in 0 .. Chunks /\ CountInv'
      BY <1>1, ChunkConstants DEF InChunks!Start, CountInv
    <2> QED
      BY <1>1, <2>1, <2>2, CallerTypes, CallerRests DEF InChunks!Start, Planned
  <1>2. CASE InChunks!NoPlan \/ InChunks!NoAdmission
    <2>1. SpaceInv'
      BY <1>2 DEF InChunks!NoPlan, InChunks!NoAdmission, ChunkInv, SpaceInv, Planned,
                  InChunks!Pending, InChunks!ScratchIsCharged
    <2>2. CountInv'
      BY <1>2 DEF InChunks!NoPlan, InChunks!NoAdmission, CountInv
    <2> QED
      BY <1>2, <2>1, <2>2, CallerTypes, CallerRests
         DEF InChunks!NoPlan, InChunks!NoAdmission, Planned
  <1>3. CASE InChunks!DiskFull \/ InChunks!SubmitRefused \/ InChunks!RetryRefused \/ InChunks!FinishFails
    BY <1>3, GivesUp DEF InChunks!DiskFull, InChunks!SubmitRefused, InChunks!RetryRefused,
                         InChunks!FinishFails, Planned
  <1>4. CASE InChunks!Decide
    <2>1. SpaceInv'
      BY <1>4 DEF InChunks!Decide, ChunkInv, SpaceInv, Planned, InChunks!Pending,
                  InChunks!ScratchIsCharged
    <2>2. CountInv'
      BY <1>4 DEF InChunks!Decide, ChunkInv, CountInv, Missing
    <2>3. next' \in InChunks!Chunk
      BY <1>4, CallerTypes, ChunkConstants DEF InChunks!Decide
    <2> QED
      BY <1>4, <2>1, <2>2, <2>3, CallerTypes, CallerRests DEF InChunks!Decide, Planned
  <1>5. CASE InChunks!Retried
    <2>1. SpaceInv'
      BY <1>5 DEF InChunks!Retried, ChunkInv, SpaceInv, Planned, InChunks!Pending,
                  InChunks!ScratchIsCharged
    <2>2. failed' \in 0 .. Chunks /\ CountInv'
      <3>1. CASE chunk[next] = "completed"
        <4>1. next \notin Missing /\ Cardinality(Missing \union {next}) <= failed
          BY <1>5, <3>1 DEF Missing, InChunks!Retried, ChunkInv, CountInv
        <4>2. Cardinality(Missing \union {next}) = Cardinality(Missing) + 1
          BY <4>1, ChunkIsFinite, FS_AddElement
        <4>3. failed - 1 \in 0 .. Chunks /\ Cardinality(Missing) <= failed - 1
          BY <4>1, <4>2, ChunkIsFinite, CallerTypes, ChunkConstants
        <4> QED
          BY <1>5, <3>1, <4>3 DEF InChunks!Retried, CountInv, Missing
      <3>2. CASE chunk[next] # "completed"
        BY <1>5, <3>2, CallerTypes DEF InChunks!Retried, CountInv
      <3> QED
        BY <3>1, <3>2
    <2> QED
      BY <1>5, <2>1, <2>2, CallerTypes, CallerRests DEF InChunks!Retried, Planned
  <1>6. CASE InChunks!Finish
    <2>1. SpaceInv'
      BY <1>6 DEF InChunks!Finish, ChunkInv, SpaceInv, Planned, InChunks!Pending,
                  InChunks!ScratchIsCharged
    <2>2. CountInv'
      BY <1>6 DEF InChunks!Finish, CountInv
    <2>3. unpublished' \in BOOLEAN
      BY <1>6 DEF InChunks!Finish
    <2>4. chunkPc' = "publish" => Missing = {}
      BY <1>6 DEF InChunks!Finish, Missing
    <2>5. /\ status' \in {status, "assembling", "failed"}
          /\ chunkPc = "finish" /\ chunkPc' \in {"publish", "clean"}
          /\ UNCHANGED <<next, failed, work, deferred, claim>>
      BY <1>6 DEF InChunks!Finish
    <2> QED
      BY <1>6, <2>1, <2>2, <2>3, <2>4, <2>5, CallerTypes, CallerRests DEF InChunks!Finish, Planned
  <1>7. CASE InChunks!Clean
    <2>1. SpaceInv'
      BY <1>7, CallerTypes DEF InChunks!Clean, ChunkInv, SpaceInv, Planned, InChunks!Pending,
                  InChunks!ScratchIsCharged
    <2>2. CountInv'
      BY <1>7 DEF InChunks!Clean, CountInv
    <2>3. work' \in BOOLEAN /\ deferred' \in BOOLEAN
      BY <1>7, CallerTypes DEF InChunks!Clean
    <2> QED
      BY <1>7, <2>1, <2>2, <2>3, CallerTypes, CallerRests DEF InChunks!Clean, Planned
  <1>8. CASE InChunks!Retire
    <2>1. chunkPc \notin Planned \union {"create"} /\ chunkPc' = chunkPc
      BY <1>8 DEF InChunks!Retire, ChunkInv, SpaceInv
    <2>2. InChunks!Pending' = {}
      BY <1>8 DEF InChunks!Retire, InChunks!Pending
    <2>3. work' \in {FALSE, work} /\ UNCHANGED <<claim, budgeted>> /\ deferred' = FALSE
      BY <1>8 DEF InChunks!Retire
    <2>4. work' \in BOOLEAN /\ deferred' \in BOOLEAN
      BY <2>3, CallerTypes
    <2>5. InChunks!ScratchIsCharged'
      BY <2>3 DEF ChunkInv, SpaceInv, InChunks!ScratchIsCharged
    <2>6. SpaceInv'
      BY <2>1, <2>2, <2>5 DEF SpaceInv
    <2>7. CountInv'
      BY <1>8 DEF InChunks!Retire, ChunkInv, CountInv, Missing
    <2> QED
      BY <1>8, <2>1, <2>4, <2>6, <2>7, CallerTypes, CallerRests DEF InChunks!Retire, Planned
  <1>9. CASE InChunks!Settle
    <2>1. work' \in BOOLEAN /\ claim' \in BOOLEAN
      BY <1>9, CallerTypes DEF InChunks!Settle
    <2>2. SpaceInv'
      BY <1>9, <2>1, CallerTypes DEF InChunks!Settle, ChunkInv, SpaceInv, Planned,
                  InChunks!Pending, InChunks!ScratchIsCharged
    <2>3. CountInv'
      BY <1>9 DEF InChunks!Settle, CountInv
    <2> QED
      BY <1>9, <2>1, <2>2, <2>3, CallerTypes, CallerRests DEF InChunks!Settle, Planned
  <1>10. CASE InChunks!Result
    <2>1. SpaceInv'
      BY <1>10 DEF InChunks!Result, ChunkInv, SpaceInv, Planned, InChunks!Pending,
                  InChunks!ScratchIsCharged
    <2>2. CountInv'
      BY <1>10 DEF InChunks!Result, CountInv
    <2> QED
      BY <1>10, <2>1, <2>2, CallerTypes, CallerRests DEF InChunks!Result, Planned
  <1> QED
    BY <1>1, <1>2, <1>3, <1>4, <1>5, <1>6, <1>7, <1>8, <1>9, <1>10

\* The plan: the chunks begin, all of them missing.
LEMMA CreateStep ==
    ASSUME ChunkInv, NEW streaming \in BOOLEAN, InChunks!Create(streaming) PROVE ChunkInv'
  <1> USE DEF InChunks!Create, InChunks!envVars
  <1>1. InChunks!TypeOK'
    <2>1. /\ next' \in InChunks!Chunk
          /\ chunkAttempt' \in [InChunks!Chunk -> 0 .. ChunkRetries]
          /\ retries' \in [InChunks!Chunk -> Nat]
      BY ChunkConstants
    <2>2. {noSpace, unpublished, work, deferred, budgeted, claim, shut}' \subseteq BOOLEAN
      BY CallerTypes
    <2>3. /\ chunk' \in [InChunks!Chunk -> {"pending", "downloading", "failed", "completed"}]
          /\ task' \in [InChunks!Chunk -> {"none", "queued", "permit", "request", "body", "done"}]
          /\ got' \in [InChunks!Chunk -> Served \union {NoVersion}]
          /\ block' \in [InChunks!Chunk -> Served \union {Torn}]
      OBVIOUS
    <2>4. status' \in {"downloading", "streaming"}
      OBVIOUS
    <2>5. /\ planned' \in Served \union {NoVersion} /\ chunkServer' \in Served
          /\ chunkOffered' \subseteq Served /\ failed' \in 0 .. Chunks /\ chunkPc' = "submit"
      BY CallerTypes
    <2>6. {chunkDest, chunkOriginal}' \subseteq Edits \union {NoFile} \union [InChunks!Chunk -> Served]
      BY DEF ChunkInv, InChunks!TypeOK
    <2> QED
      BY <2>1, <2>2, <2>3, <2>4, <2>5, <2>6 DEF InChunks!TypeOK
  <1>2. SpaceInv'
    BY CallerTypes DEF ChunkInv, SpaceInv, Planned, InChunks!Pending, InChunks!ScratchIsCharged
  <1>3. PlanInv'
    BY CallerTypes, ChunkConstants DEF ChunkInv, PlanInv
  <1>4. BlockInv'
    BY DEF BlockInv
  <1>5. CountInv'
    BY DEF ChunkInv, CountInv
  <1> QED
    BY <1>1, <1>2, <1>3, <1>4, <1>5 DEF ChunkInv

LEMMA SubmitStep == ASSUME ChunkInv, InChunks!Submit PROVE ChunkInv'
  <1> USE DEF InChunks!Submit, InChunks!envVars, InChunks!fileVars, InChunks!spaceVars
  <1>1. task' \in [InChunks!Chunk -> {"none", "queued", "permit", "request", "body", "done"}]
    BY CallerTypes DEF ChunkInv, InChunks!TypeOK
  <1>2. next' \in InChunks!Chunk /\ chunkPc' \in {"submit", "wait"} /\ chunkPc = "submit"
        /\ (chunkPc' = "wait" => next' = 1)
    BY CallerTypes, ChunkConstants
  <1>3. InChunks!TypeOK'
    BY <1>1, <1>2 DEF ChunkInv, InChunks!TypeOK
  <1>4. work /\ ~ deferred
    BY <1>2 DEF ChunkInv, SpaceInv, Planned
  <1>5. SpaceInv'
    BY <1>2, <1>4 DEF ChunkInv, SpaceInv, Planned, InChunks!Pending, InChunks!ScratchIsCharged
  <1>6. PlanInv'
    BY <1>2 DEF ChunkInv, PlanInv, Planned
  <1>7. BlockInv'
    <2>1. task[next] = "none" /\ chunk[next] # "completed"
      BY <1>2, CallerTypes, ChunkConstants DEF ChunkInv, BlockInv
    <2>2. ASSUME NEW c \in InChunks!Chunk
          PROVE  /\ task'[c] = "body" => got'[c] = planned' /\ got'[c] # NoVersion
                 /\ chunk'[c] = "completed" => task'[c] = "done" /\ block'[c] = planned'
      BY <2>1, CallerTypes DEF ChunkInv, BlockInv, InChunks!TypeOK
    <2>3. ASSUME chunkPc' = "submit", NEW c \in InChunks!Chunk, next' <= c PROVE task'[c] = "none"
      <3>1. next' = next + 1 /\ task' = [task EXCEPT ![next] = "queued"]
        BY <2>3
      <3>2. next < c /\ next # c
        BY <2>3, <3>1, CallerTypes, ChunkConstants
      <3>3. task[c] = "none"
        BY <1>2, <3>2, CallerTypes, ChunkConstants DEF ChunkInv, BlockInv
      <3> QED
        BY <3>1, <3>2, <3>3 DEF ChunkInv, InChunks!TypeOK
    <2> QED
      BY <1>2, <2>2, <2>3 DEF BlockInv
  <1>8. CountInv'
    <2>1. failed' = 0
      BY <1>2 DEF ChunkInv, CountInv
    <2>2. chunkPc' = "wait" => Missing' \intersect 1 .. next' - 1 = {}
      BY <1>2
    <2>3. chunkPc' = "wait" => Cardinality(Missing' \intersect 1 .. next' - 1) = 0
      BY <2>2, FS_EmptySet
    <2> QED
      BY <1>2, <2>1, <2>3 DEF CountInv
  <1> QED
    BY <1>3, <1>5, <1>6, <1>7, <1>8 DEF ChunkInv

\* The wait for chunk next ends, with a result or with a timeout.
LEMMA WaitStep == ASSUME ChunkInv, InChunks!Wait \/ InChunks!WaitTimeout PROVE ChunkInv'
  <1>0. /\ UNCHANGED <<chunkServer, chunkOffered, chunkDest, planned, chunkOriginal, budgeted,
                       work, deferred, claim, task, got, block, chunkAttempt, retries, noSpace,
                       status, unpublished, shut>>
        /\ chunk' \in {chunk, [chunk EXCEPT ![next] = "failed"]}
        /\ failed' \in {failed, failed + 1}
        /\ failed' = failed + 1 \/ (chunk[next] = "completed" /\ chunk' = chunk)
    <2> USE DEF InChunks!envVars, InChunks!fileVars, InChunks!spaceVars
    <2>1. CASE InChunks!Wait
      BY <2>1 DEF InChunks!Wait
    <2>2. CASE InChunks!WaitTimeout
      BY <2>2 DEF InChunks!WaitTimeout
    <2> QED
      BY <2>1, <2>2
  <1>1. /\ chunkPc = "wait" /\ chunkPc' \in {"wait", "decide"}
        /\ chunkPc' = "wait" => next' = next + 1 /\ next # Chunks
        /\ chunkPc' = "decide" => next = Chunks /\ next' = 1
    BY DEF InChunks!Wait, InChunks!WaitTimeout, InChunks!Waited
  <1>2. next \in 1 .. Chunks /\ failed \in 0 .. next - 1
    BY <1>1, CallerTypes, ChunkConstants DEF ChunkInv, CountInv
  <1>3. next' \in 1 .. Chunks
    <2>1. CASE chunkPc' = "wait"
      BY <1>1, <1>2, <2>1, ChunkConstants
    <2>2. CASE chunkPc' = "decide"
      BY <1>1, <2>2, ChunkConstants
    <2> QED
      BY <1>1, <2>1, <2>2
  <1>4. /\ chunk' \in [InChunks!Chunk -> {"pending", "downloading", "failed", "completed"}]
        /\ \A c \in InChunks!Chunk : c # next => chunk'[c] = chunk[c]
        /\ chunk'[next] \in {chunk[next], "failed"}
    BY <1>0, <1>2, ChunkConstants DEF ChunkInv, InChunks!TypeOK
  <1>5. failed' \in 0 .. next /\ (failed' = failed \/ failed' = failed + 1)
    BY <1>0, <1>2
  <1>6. failed' = failed => chunk[next] = "completed" /\ chunk' = chunk
    BY <1>0, <1>2
  <1>7. failed' \in 0 .. Chunks
    BY <1>2, <1>5, ChunkConstants
  <1>8. InChunks!TypeOK'
    BY <1>0, <1>1, <1>3, <1>4, <1>7, ChunkConstants DEF ChunkInv, InChunks!TypeOK
  <1>9. SpaceInv'
    BY <1>0, <1>1 DEF ChunkInv, SpaceInv, Planned, InChunks!Pending, InChunks!ScratchIsCharged
  <1>10. PlanInv'
    BY <1>0, <1>1 DEF ChunkInv, PlanInv, Planned
  <1>11. BlockInv'
    BY <1>0, <1>1, <1>2, <1>4, ChunkConstants DEF ChunkInv, BlockInv
  <1>12. CountInv'
    <2> DEFINE before == Missing \intersect 1 .. next - 1
               after == Missing' \intersect 1 .. next
    <2>1. before \subseteq InChunks!Chunk /\ IsFiniteSet(before) /\ Cardinality(before) \in Nat
      BY ChunkIsFinite, FS_Subset, FS_CardinalityType
    <2>2. Cardinality(before) <= failed
      BY <1>1 DEF ChunkInv, CountInv
    <2>3. after \subseteq before \union {next}
      BY <1>2, <1>4, ChunkConstants DEF Missing
    <2>4. failed' = failed => after \subseteq before
      BY <1>6, <2>3 DEF Missing
    <2>5. Cardinality(before \union {next}) <= Cardinality(before) + 1 /\ IsFiniteSet(before \union {next})
      BY <2>1, FS_AddElement
    <2>6. Cardinality(after) \in Nat /\ Cardinality(after) <= failed'
      <3>1. CASE failed' = failed
        <4>1. Cardinality(after) \in Nat /\ Cardinality(after) <= Cardinality(before)
          BY <2>1, <2>4, <3>1, FS_Subset, FS_CardinalityType
        <4> QED
          BY <1>2, <2>1, <2>2, <3>1, <4>1
      <3>2. CASE failed' = failed + 1
        <4>1. /\ Cardinality(after) \in Nat /\ Cardinality(before \union {next}) \in Nat
              /\ Cardinality(after) <= Cardinality(before \union {next})
          BY <2>3, <2>5, FS_Subset, FS_CardinalityType
        <4> QED
          BY <1>2, <2>1, <2>2, <2>5, <3>2, <4>1
      <3> QED
        BY <1>5, <3>1, <3>2
    <2>7. CASE chunkPc' = "wait"
      <3>1. next' - 1 = next /\ failed' < next'
        BY <1>1, <1>2, <1>5, <2>7
      <3> QED
        BY <1>1, <2>6, <2>7, <3>1 DEF CountInv
    <2>8. CASE chunkPc' = "decide"
      <3>1. after = Missing'
        BY <1>1, <2>8, ChunkConstants DEF Missing
      <3> QED
        BY <1>1, <2>6, <2>8, <3>1 DEF CountInv
    <2> QED
      BY <1>1, <2>7, <2>8
  <1> QED
    BY <1>8, <1>9, <1>10, <1>11, <1>12 DEF ChunkInv

\* The next chunk is looked at, and tried again if it failed.
LEMMA RetryStep == ASSUME ChunkInv, InChunks!Retry PROVE ChunkInv'
  <1> USE DEF InChunks!envVars, InChunks!fileVars, InChunks!spaceVars
  <1>1. next \in 1 .. Chunks /\ chunkPc = "retry"
    BY CallerTypes, ChunkConstants DEF InChunks!Retry
  <1>2. work /\ ~ deferred /\ Cardinality(Missing) <= failed
    BY <1>1 DEF ChunkInv, SpaceInv, Planned, CountInv
  <1>3. CASE chunk[next] = "failed"
    <2>1. /\ retries' = [retries EXCEPT ![next] = @ + 1]
          /\ chunk' = [chunk EXCEPT ![next] = "pending"]
          /\ next' = next /\ chunkPc' \in {"retrying", "clean"}
          /\ task' \in {task, [task EXCEPT ![next] = "permit"]}
          /\ chunkAttempt' \in {chunkAttempt, [chunkAttempt EXCEPT ![next] = 0]}
          /\ status' \in {status, "failed"}
          /\ UNCHANGED <<InChunks!envVars, InChunks!fileVars, InChunks!spaceVars, got, block,
                         noSpace, failed, unpublished, shut>>
      BY <1>3 DEF InChunks!Retry
    <2>2. InChunks!TypeOK'
      <3>1. /\ retries' \in [InChunks!Chunk -> Nat]
            /\ chunkAttempt' \in [InChunks!Chunk -> 0 .. ChunkRetries]
        <4>1. 0 \in 0 .. ChunkRetries
          BY ChunkConstants
        <4>2. retries \in [InChunks!Chunk -> Nat] /\ chunkAttempt \in [InChunks!Chunk -> 0 .. ChunkRetries]
          BY DEF ChunkInv, InChunks!TypeOK
        <4>3. retries' \in [InChunks!Chunk -> Nat]
          <5>1. retries[next] + 1 \in Nat
            BY <1>1, <4>2, ChunkConstants
          <5>2. retries' = [retries EXCEPT ![next] = retries[next] + 1]
            BY <2>1
          <5> QED
            BY <4>2, <5>1, <5>2
        <4>4. [chunkAttempt EXCEPT ![next] = 0] \in [InChunks!Chunk -> 0 .. ChunkRetries]
          BY <4>1, <4>2
        <4> QED
          BY <2>1, <4>2, <4>3, <4>4
      <3>2. /\ chunk' \in [InChunks!Chunk -> {"pending", "downloading", "failed", "completed"}]
            /\ task' \in [InChunks!Chunk -> {"none", "queued", "permit", "request", "body", "done"}]
        BY <2>1 DEF ChunkInv, InChunks!TypeOK
      <3> QED
        BY <2>1, <3>1, <3>2 DEF ChunkInv, InChunks!TypeOK
    <2>3. SpaceInv'
      BY <1>2, <2>1 DEF ChunkInv, SpaceInv, Planned, InChunks!ScratchIsCharged
    <2>4. PlanInv'
      BY <1>1, <2>1 DEF ChunkInv, PlanInv, Planned
    <2>5. BlockInv'
      <3>1. \A c \in InChunks!Chunk :
                /\ task'[c] = "body" => task[c] = "body"
                /\ chunk'[c] = "completed" => chunk[c] = "completed" /\ task'[c] = task[c]
        BY <2>1 DEF ChunkInv, InChunks!TypeOK
      <3> QED
        BY <2>1, <3>1 DEF ChunkInv, BlockInv
    <2>6. CountInv'
      <3>1. Missing' = Missing /\ next \in Missing /\ Missing' \union {next'} = Missing
        BY <1>1, <1>3, <2>1, ChunkConstants DEF Missing, ChunkInv, InChunks!TypeOK
      <3> QED
        BY <1>2, <2>1, <3>1 DEF CountInv
    <2> QED
      BY <2>2, <2>3, <2>4, <2>5, <2>6 DEF ChunkInv
  <1>4. CASE chunk[next] # "failed"
    <2>1. /\ UNCHANGED <<chunk, task, chunkAttempt, retries, status, got, block, noSpace, failed,
                         unpublished, shut>>
          /\ UNCHANGED <<InChunks!envVars, InChunks!fileVars, InChunks!spaceVars>>
          /\ chunkPc' \in {"finish", "retry"} /\ next' \in {next, next + 1}
          /\ next' = next + 1 => next # Chunks
      BY <1>1, <1>4 DEF InChunks!Retry
    <2>2. next' \in InChunks!Chunk
      BY <1>1, <2>1, ChunkConstants
    <2>3. SpaceInv'
      BY <1>2, <2>1 DEF ChunkInv, SpaceInv, Planned, InChunks!Pending, InChunks!ScratchIsCharged
    <2>4. CountInv'
      BY <1>2, <2>1 DEF CountInv, Missing
    <2> QED
      BY <1>1, <2>1, <2>2, <2>3, <2>4, CallerTypes, CallerRests
         DEF InChunks!fixed, InChunks!taskVars, InChunks!spaceVars, Planned
  <1> QED
    BY <1>3, <1>4

\* With every chunk complete, the blocks are those of the planned version.
LEMMA BlocksArePlanned ==
    ASSUME ChunkInv, chunkPc = "publish"
    PROVE  /\ planned \in Served /\ planned \in chunkOffered /\ InChunks!Running = {}
           /\ \A c \in InChunks!Chunk : block[c] = planned
  <1>1. \A c \in InChunks!Chunk : task[c] = "done" /\ block[c] = planned
    BY DEF ChunkInv, BlockInv, Missing
  <1> QED
    BY <1>1 DEF ChunkInv, PlanInv, Planned, InChunks!TypeOK, InChunks!Running

\* The file appears, by one rename.
LEMMA PublishStep == ASSUME ChunkInv, InChunks!Publish PROVE ChunkInv'
  <1>1. /\ UNCHANGED <<InChunks!fileVars, InChunks!spaceVars, InChunks!taskVars, chunkServer,
                       chunkOffered, next, failed, shut>>
        /\ chunkPc = "publish" /\ chunkPc' = "clean"
        /\ status' \in {"completed", "failed"} /\ unpublished' \in {FALSE, unpublished}
        /\ chunkDest' \in {chunkDest, [c \in InChunks!Chunk |-> block[c]]}
    BY DEF InChunks!Publish
  <1> USE DEF InChunks!fileVars, InChunks!spaceVars, InChunks!taskVars
  <1>2. chunkDest' \in Edits \union {NoFile} \union [InChunks!Chunk -> Served]
    <2>1. [c \in InChunks!Chunk |-> block[c]] \in [InChunks!Chunk -> Served]
      BY <1>1, BlocksArePlanned
    <2> QED
      BY <1>1, <2>1 DEF ChunkInv, InChunks!TypeOK
  <1>3. unpublished' \in BOOLEAN
    BY <1>1, CallerTypes
  <1>4. InChunks!TypeOK'
    BY <1>1, <1>2, <1>3 DEF ChunkInv, InChunks!TypeOK
  <1>5. SpaceInv'
    BY <1>1 DEF ChunkInv, SpaceInv, Planned, InChunks!Pending, InChunks!ScratchIsCharged
  <1>6. PlanInv'
    BY <1>1 DEF ChunkInv, PlanInv, Planned
  <1>7. BlockInv'
    BY <1>1 DEF ChunkInv, BlockInv
  <1>8. CountInv'
    BY <1>1 DEF CountInv
  <1> QED
    BY <1>4, <1>5, <1>6, <1>7, <1>8 DEF ChunkInv

\* The whole-file fallback, the server and other programs: the chunks rest.
LEMMA FilesStep ==
    ASSUME ChunkInv,
           \/ InChunks!WholeFile \/ InChunks!WholeFileEnds
           \/ \E v \in Served : InChunks!ServerChange(v)
           \/ \E file \in Edits \union {NoFile} : InChunks!UserEdit(file)
    PROVE  ChunkInv'
  <1> DEFINE Files == Edits \union {NoFile} \union [InChunks!Chunk -> Served]
  <1>1. chunkDest \in Files /\ chunkOriginal \in Files /\ chunkServer \in chunkOffered
        /\ [c \in InChunks!Chunk |-> chunkServer] \in Files
    BY CallerTypes DEF ChunkInv, InChunks!TypeOK, PlanInv
  <1>2. /\ UNCHANGED <<planned, budgeted, InChunks!spaceVars, InChunks!taskVars, next, status,
                       failed, unpublished, shut>>
        /\ chunkDest' \in Files /\ chunkOriginal' \in Files
        /\ \/ chunkPc' = chunkPc
           \/ chunkPc = "whole" /\ chunkPc' = "wholePublish"
           \/ chunkPc = "wholePublish" /\ chunkPc' = "idle"
        /\ chunkServer' \in chunkOffered' /\ chunkOffered' \subseteq Served
        /\ chunkOffered \subseteq chunkOffered'
    <2> HIDE DEF Files
    <2> USE DEF InChunks!envVars, InChunks!fileVars
    <2>1. CASE InChunks!WholeFile
      BY <1>1, <2>1, CallerTypes DEF InChunks!WholeFile
    <2>2. CASE InChunks!WholeFileEnds
      BY <1>1, <2>2, CallerTypes DEF InChunks!WholeFileEnds
    <2>3. ASSUME NEW v \in Served, InChunks!ServerChange(v)
          PROVE  /\ UNCHANGED <<planned, budgeted, InChunks!spaceVars, InChunks!taskVars, next,
                                status, failed, unpublished, shut>>
                 /\ chunkDest' \in Files /\ chunkOriginal' \in Files /\ chunkPc' = chunkPc
                 /\ chunkServer' \in chunkOffered' /\ chunkOffered' \subseteq Served
                 /\ chunkOffered \subseteq chunkOffered'
      BY <1>1, <2>3, CallerTypes DEF InChunks!ServerChange
    <2>4. ASSUME NEW file \in Edits \union {NoFile}, InChunks!UserEdit(file)
          PROVE  /\ UNCHANGED <<planned, budgeted, InChunks!spaceVars, InChunks!taskVars, next,
                                status, failed, unpublished, shut>>
                 /\ chunkDest' \in Files /\ chunkOriginal' \in Files /\ chunkPc' = chunkPc
                 /\ chunkServer' \in chunkOffered' /\ chunkOffered' \subseteq Served
                 /\ chunkOffered \subseteq chunkOffered'
      <3>1. file \in Files
        BY DEF Files
      <3> QED
        BY <1>1, <2>4, <3>1, CallerTypes DEF InChunks!UserEdit
    <2> QED
      BY <2>1, <2>2, <2>3, <2>4
  <1> USE DEF InChunks!spaceVars, InChunks!taskVars
  <1>3. InChunks!TypeOK'
    BY <1>2 DEF ChunkInv, InChunks!TypeOK
  <1>4. SpaceInv'
    BY <1>2 DEF ChunkInv, SpaceInv, Planned, InChunks!Pending, InChunks!ScratchIsCharged
  <1>5. PlanInv'
    BY <1>2 DEF ChunkInv, PlanInv, Planned
  <1>6. BlockInv'
    BY <1>2 DEF ChunkInv, BlockInv, Missing
  <1>7. CountInv'
    BY <1>2 DEF ChunkInv, CountInv, Missing
  <1> QED
    BY <1>3, <1>4, <1>5, <1>6, <1>7 DEF ChunkInv

LEMMA ShutdownStep == ASSUME ChunkInv, InChunks!Shutdown PROVE ChunkInv'
  <1> USE DEF InChunks!Shutdown, InChunks!envVars, InChunks!fileVars, InChunks!spaceVars
  <1>1. task' \in [InChunks!Chunk -> {"none", "queued", "permit", "request", "body", "done"}]
    BY DEF ChunkInv, InChunks!TypeOK
  <1>2. status' \in {status, "cancelled"} /\ shut' = TRUE
    OBVIOUS
  <1>3. InChunks!TypeOK'
    BY <1>1, <1>2 DEF ChunkInv, InChunks!TypeOK
  <1>4. InChunks!Pending' \subseteq InChunks!Pending
    BY DEF InChunks!Pending
  <1>5. SpaceInv'
    BY <1>4 DEF ChunkInv, SpaceInv, InChunks!ScratchIsCharged
  <1>6. PlanInv'
    BY DEF ChunkInv, PlanInv
  <1>7. BlockInv'
    BY DEF ChunkInv, BlockInv, Missing
  <1>8. CountInv'
    BY DEF ChunkInv, CountInv, Missing
  <1> QED
    BY <1>3, <1>5, <1>6, <1>7, <1>8 DEF ChunkInv

LEMMA ChunkStep == ASSUME ChunkInv, InChunks!Next PROVE ChunkInv'
  <1>1. ASSUME NEW c \in InChunks!Chunk, InChunks!Worker(c) PROVE ChunkInv'
    BY <1>1, WorkerWorks, WorkerStep
  <1>2. ASSUME NEW streaming \in BOOLEAN, InChunks!Create(streaming) PROVE ChunkInv'
    BY <1>2, CreateStep
  <1> QED
    BY <1>1, <1>2, CallerStep, SubmitStep, WaitStep, RetryStep, PublishStep, FilesStep,
       ShutdownStep
       DEF InChunks!Next, InChunks!Caller, InChunks!Environment

\* Seen from the destination every step publishes, looks, or is somebody's.
LEMMA ChunkRefines ==
    ASSUME ChunkInv, InChunks!Next
    PROVE  InChunks!Atomic!Next \/ UNCHANGED InChunks!Atomic!vars
  <1> USE DEF InChunks!envVars, InChunks!fileVars, InChunks!fixed, InChunks!others,
              InChunks!Atomic!vars
  <1>1. \A v \in Served : InChunks!Atomic!Whole(v) = [c \in InChunks!Chunk |-> v]
    BY DEF InChunks!Atomic!Whole, InChunks!Atomic!Blocks, InChunks!Chunk
  <1>2. CASE InChunks!Publish
    <2>1. chunkPc = "publish"
      BY <1>2 DEF InChunks!Publish
    <2>2. planned \in Served /\ planned \in chunkOffered
          /\ [c \in InChunks!Chunk |-> block[c]] = InChunks!Atomic!Whole(planned)
      BY <1>1, <2>1, BlocksArePlanned
    <2>3. InChunks!Atomic!Publish(planned) \/ UNCHANGED InChunks!Atomic!vars
      BY <1>2, <2>2
         DEF InChunks!Publish, InChunks!Atomic!Publish, InChunks!Atomic!Publishable
    <2> QED
      BY <2>2, <2>3 DEF InChunks!Atomic!Next
  <1>3. CASE InChunks!WholeFileEnds
    <2>1. chunkServer \in Served /\ chunkServer \in chunkOffered
      BY CallerTypes DEF ChunkInv, PlanInv
    <2>2. InChunks!Atomic!Publish(chunkServer) \/ UNCHANGED InChunks!Atomic!vars
      BY <1>1, <1>3, <2>1
         DEF InChunks!WholeFileEnds, InChunks!Atomic!Publish, InChunks!Atomic!Publishable
    <2> QED
      BY <2>1, <2>2 DEF InChunks!Atomic!Next
  <1>4. ASSUME InChunks!WholeFile \/ \E streaming \in BOOLEAN : InChunks!Create(streaming)
        PROVE  InChunks!Atomic!Look
    BY <1>4 DEF InChunks!WholeFile, InChunks!Create, InChunks!Atomic!Look
  <1>5. ASSUME NEW v \in Served, InChunks!ServerChange(v) PROVE InChunks!Atomic!Offer(v)
    BY <1>5 DEF InChunks!ServerChange, InChunks!Atomic!Offer
  <1>6. ASSUME NEW file \in Edits \union {NoFile}, InChunks!UserEdit(file)
        PROVE  InChunks!Atomic!UserEdit(file)
    BY <1>6 DEF InChunks!UserEdit, InChunks!Atomic!UserEdit
  <1>7. ASSUME NEW c \in InChunks!Chunk, InChunks!Worker(c) PROVE UNCHANGED InChunks!Atomic!vars
    BY <1>7, WorkerWorks DEF Works
  <1>8. CASE InChunks!NoPlan \/ InChunks!NoAdmission \/ InChunks!DiskFull \/ InChunks!Submit
             \/ InChunks!SubmitRefused \/ InChunks!Wait \/ InChunks!WaitTimeout
             \/ InChunks!Decide \/ InChunks!Retry \/ InChunks!Retried \/ InChunks!RetryRefused
    BY <1>8 DEF InChunks!NoPlan, InChunks!NoAdmission, InChunks!DiskFull, InChunks!Submit,
       InChunks!SubmitRefused, InChunks!Wait, InChunks!WaitTimeout, InChunks!Decide,
       InChunks!Retry, InChunks!Retried, InChunks!RetryRefused, InChunks!GiveUp
  <1>9. CASE InChunks!Finish \/ InChunks!FinishFails \/ InChunks!Clean \/ InChunks!Settle
             \/ InChunks!Result \/ InChunks!Retire \/ InChunks!Start \/ InChunks!Shutdown
    BY <1>9 DEF InChunks!Finish, InChunks!FinishFails, InChunks!Clean, InChunks!Settle,
       InChunks!Result, InChunks!Retire, InChunks!Start, InChunks!Shutdown, InChunks!GiveUp
  <1> QED
    BY <1>2, <1>3, <1>4, <1>5, <1>6, <1>7, <1>8, <1>9
       DEF InChunks!Next, InChunks!Caller, InChunks!Environment, InChunks!Atomic!Next

-----------------------------------------------------------------------------
(* Lists *)

LEMMA ListConstants ==
    ASSUME NEW way \in Ways
    PROVE  /\ Written[way] \in Nat /\ ListRetries[way] \in Nat /\ ListJobs[way] \in Nat
           /\ Ranged[way] \subseteq Listed[way]
           /\ way = "kept" => "queued" \notin Meddled[way]
  BY PartsAssumption DEF Lists!ListAssumption

LEMMA ListInitial == ASSUME NEW way \in Ways, Lists(way)!Init PROVE ListInv(way)
  <1> USE DEF Lists!Init, Lists!None
  <1>1. Lists(way)!TypeOK
    <2>1. /\ disk \in [Listed[way] -> 0 .. Written[way]]
          /\ noted \in [Listed[way] -> 0 .. Written[way]]
          /\ saved \in [Listed[way] -> 0 .. Written[way]]
          /\ listOriginal \in [Listed[way] -> 0 .. Written[way]]
          /\ listAttempt \in [Listed[way] -> 0 .. ListRetries[way]]
          /\ last \in 0 .. Written[way] /\ jobs \in 0 .. ListJobs[way]
      BY ListConstants
    <2>2. stage \in [Listed[way] -> Lists(way)!Stages]
      BY DEF Lists!Stages
    <2> QED
      BY <2>1, <2>2 DEF Lists!TypeOK
  <1>2. OursInv(way) /\ MineInv(way) /\ NotedInv(way)
    BY DEF OursInv, MineInv, NotedInv
  <1>3. PhaseInv(way)
    BY DEF PhaseInv, Lists!Active, Lists!Busy, Lists!InThread
  <1>4. Lists(way)!SuccessesHaveReceipts /\ Lists(way)!InterruptionKeepsReceipts
    BY DEF Lists!SuccessesHaveReceipts, Lists!InterruptionKeepsReceipts
  <1> QED
    BY <1>1, <1>2, <1>3, <1>4 DEF ListInv

LEMMA ListTypes ==
    ASSUME NEW way \in Ways, ListInv(way)
    PROVE  /\ phase \in {"idle", "examine", "load", "save"}
           /\ stage \in [Listed[way] -> Lists(way)!Stages]
           /\ disk \in [Listed[way] -> 0 .. Written[way]] /\ last \in 0 .. Written[way]
           /\ noted \in [Listed[way] -> 0 .. Written[way]]
           /\ saved \in [Listed[way] -> 0 .. Written[way]]
           /\ listOriginal \in [Listed[way] -> 0 .. Written[way]]
           /\ listAttempt \in [Listed[way] -> 0 .. ListRetries[way]]
           /\ ours \subseteq 1 .. last /\ lost = {}
           /\ published \subseteq Listed[way] /\ succeeded \subseteq published
           /\ unnoted \subseteq published
           /\ result \in {"none", "ok", "failed", "refused", "unsaved", "killed"}
           /\ jobs \in 0 .. ListJobs[way]
           /\ Written[way] \in Nat
  BY ListConstants DEF ListInv, Lists!TypeOK, OursInv

LEMMA ListFlags ==
    ASSUME NEW way \in Ways, ListInv(way)
    PROVE  cancelled \in BOOLEAN /\ exhausted \in BOOLEAN /\ closed \in BOOLEAN
  BY DEF ListInv, Lists!TypeOK

\* What a step of u's transfer that publishes and notes nothing may do.
Goes(way, u) ==
    /\ UNCHANGED <<phase, disk, last, ours, lost, noted, saved, published, cancelled, closed,
                   result, jobs>>
    /\ phase = "load"
    /\ stage' \in [Listed[way] -> Lists(way)!Stages]
    /\ \A x \in Listed[way] \ {u} : stage'[x] = stage[x] /\ listOriginal'[x] = listOriginal[x]
    /\ listOriginal' = listOriginal \/ listOriginal' = [listOriginal EXCEPT ![u] = disk[u]]
    /\ stage'[u] \notin {"none", "listed", "noting"}
    /\ stage'[u] \in {"preparing", "probing"} => stage[u] \in {"listed", "probing"}
    /\ stage'[u] \in {"fetching", "ranges"} =>
           stage[u] \in {"preparing", "probing"} /\ listOriginal'[u] = disk[u]
    /\ stage'[u] = "publishing" =>
           stage[u] \in {"fetching", "ranges", "publishing"} /\ listOriginal' = listOriginal
    /\ stage[u] \in {"noting", "releasing", "done"} =>
           stage'[u] \in {"releasing", "done"} /\ listOriginal' = listOriginal
    /\ succeeded' \subseteq succeeded
    /\ IF stage[u] = "noting" THEN unnoted' = unnoted \union {u} ELSE UNCHANGED unnoted
    /\ listAttempt' \in [Listed[way] -> 0 .. ListRetries[way]] /\ exhausted' \in BOOLEAN

LEMMA GoesKeeps ==
    ASSUME NEW way \in Ways, NEW u \in Listed[way], ListInv(way), Goes(way, u)
    PROVE  ListInv(way)'
  <1>0. u \in published => stage[u] \in {"noting", "releasing", "done"}
    BY DEF Goes, ListInv, NotedInv
  <1>1. Lists(way)!TypeOK'
    <2>1. listOriginal' \in [Listed[way] -> 0 .. Written[way]]
      BY ListTypes DEF Goes
    <2>2. unnoted' \subseteq published /\ succeeded' \subseteq published
      BY ListTypes DEF Goes, ListInv, NotedInv
    <2> QED
      BY <2>1, <2>2 DEF Goes, ListInv, Lists!TypeOK
  <1>2. OursInv(way)'
    BY ListTypes DEF Goes, ListInv, OursInv
  <1>3. PhaseInv(way)'
    BY DEF Goes, ListInv, PhaseInv
  <1>4. MineInv(way)'
    <2>1. ASSUME way = "kept", NEW x \in Listed[way]
          PROVE  /\ stage'[x] \in {"listed", "preparing", "probing"} => disk'[x] \in ours' \union {0}
                 /\ stage'[x] \in {"fetching", "ranges", "publishing"} =>
                       listOriginal'[x] \in ours' \union {0}
      <3>1. /\ stage[x] \in {"listed", "preparing", "probing"} => disk[x] \in ours \union {0}
            /\ stage[x] \in {"fetching", "ranges", "publishing"} =>
                   listOriginal[x] \in ours \union {0}
        BY <2>1 DEF Goes, ListInv, MineInv
      <3>2. CASE x = u
        BY <3>1, <3>2 DEF Goes
      <3>3. CASE x # u
        BY <3>1, <3>3 DEF Goes
      <3> QED
        BY <3>2, <3>3
    <2> QED
      BY <2>1 DEF MineInv
  <1>5. NotedInv(way)'
    <2>1. ASSUME NEW x \in Listed[way]
          PROVE  /\ x \in published' => stage'[x] \in {"noting", "releasing", "done"}
                 /\ stage'[x] = "noting" =>
                        x \in published' /\ disk'[x] \in ours' /\ listOriginal'[x] < disk'[x]
                 /\ x \in succeeded' => noted'[x] \in ours' /\ listOriginal'[x] < noted'[x]
                 /\ x \in published' \ unnoted' /\ stage'[x] # "noting" => noted'[x] = disk'[x]
      <3>1. /\ x \in published => stage[x] \in {"noting", "releasing", "done"}
            /\ stage[x] = "noting" =>
                   x \in published /\ disk[x] \in ours /\ listOriginal[x] < disk[x]
            /\ x \in succeeded => noted[x] \in ours /\ listOriginal[x] < noted[x]
            /\ x \in published \ unnoted /\ stage[x] # "noting" => noted[x] = disk[x]
        BY DEF Goes, ListInv, NotedInv
      <3>2. x \in succeeded => x \in published
        BY ListTypes
      <3>3. CASE x = u
        BY <3>1, <3>2, <3>3 DEF Goes
      <3>4. CASE x # u
        BY <3>1, <3>4 DEF Goes
      <3> QED
        BY <3>3, <3>4
    <2> QED
      BY <2>1 DEF NotedInv
  <1>6. Lists(way)!SuccessesHaveReceipts' /\ Lists(way)!InterruptionKeepsReceipts'
    BY DEF Goes, Lists!SuccessesHaveReceipts, Lists!InterruptionKeepsReceipts
  <1> QED
    BY <1>1, <1>2, <1>3, <1>4, <1>5, <1>6 DEF ListInv

\* The steps of a transfer in which nothing is published and nothing noted.
LEMMA TransferGoes ==
    ASSUME NEW way \in Ways, NEW u \in Listed[way], ListInv(way),
           \/ Lists(way)!Take(u) \/ Lists(way)!Prepare(u) \/ Lists(way)!Probe(u)
           \/ Lists(way)!PrepareFails(u) \/ Lists(way)!Loaded(u) \/ Lists(way)!LoadFails(u)
           \/ Lists(way)!PublishFails(u) \/ Lists(way)!NoteFails(u) \/ Lists(way)!Release(u)
    PROVE  Goes(way, u)
  <1> USE DEF Lists!At, Lists!GiveUp, Lists!Stages, Lists!Busy, Lists!InThread, Lists!fileVars,
              Lists!receiptVars, Lists!transferVars, Lists!jobVars, Goes
  <1>1. stage[u] \in Lists(way)!Busy => phase = "load"
    BY DEF ListInv, PhaseInv, Lists!Active
  <1>2. /\ stage \in [Listed[way] -> Lists(way)!Stages]
        /\ disk \in [Listed[way] -> 0 .. Written[way]]
        /\ listOriginal \in [Listed[way] -> 0 .. Written[way]]
        /\ listAttempt \in [Listed[way] -> 0 .. ListRetries[way]]
    BY ListTypes
  <1>3. exhausted \in BOOLEAN
    BY ListFlags
  <1>4. CASE Lists(way)!Take(u)
    BY <1>2, <1>3, <1>4 DEF Lists!Take
  <1>5. CASE Lists(way)!Prepare(u)
    BY <1>1, <1>2, <1>3, <1>5 DEF Lists!Prepare
  <1>6. CASE Lists(way)!Probe(u)
    BY <1>1, <1>2, <1>3, <1>6 DEF Lists!Probe
  <1>7. CASE Lists(way)!PrepareFails(u)
    BY <1>1, <1>2, <1>3, <1>7 DEF Lists!PrepareFails
  <1>8. CASE Lists(way)!Loaded(u)
    BY <1>1, <1>2, <1>3, <1>8 DEF Lists!Loaded
  <1>9. CASE Lists(way)!LoadFails(u)
    <2>1. exhausted' \in BOOLEAN
      BY <1>3, <1>9 DEF Lists!LoadFails
    <2> QED
      BY <1>1, <1>2, <1>9, <2>1 DEF Lists!LoadFails
  <1>10. CASE Lists(way)!PublishFails(u)
    BY <1>1, <1>2, <1>3, <1>10 DEF Lists!PublishFails
  <1>11. CASE Lists(way)!NoteFails(u)
    BY <1>1, <1>2, <1>3, <1>11 DEF Lists!NoteFails
  <1>12. CASE Lists(way)!Release(u)
    <2>1. succeeded' \subseteq succeeded
      BY <1>12 DEF Lists!Release
    <2> QED
      BY <1>1, <1>2, <1>3, <1>12, <2>1 DEF Lists!Release
  <1> QED
    BY <1>4, <1>5, <1>6, <1>7, <1>8, <1>9, <1>10, <1>11, <1>12

\* A connection is tried again.
LEMMA RetryKeeps ==
    ASSUME NEW way \in Ways, NEW u \in Listed[way], ListInv(way), Lists(way)!Retry(u)
    PROVE  ListInv(way)'
  <1> USE DEF Lists!Retry, Lists!fileVars, Lists!receiptVars, Lists!jobVars
  <1>1. listAttempt' \in [Listed[way] -> 0 .. ListRetries[way]]
    BY ListTypes, ListConstants
  <1>2. Lists(way)!TypeOK'
    BY <1>1 DEF ListInv, Lists!TypeOK
  <1>3. OursInv(way)' /\ MineInv(way)' /\ NotedInv(way)'
    BY DEF ListInv, OursInv, MineInv, NotedInv
  <1>4. PhaseInv(way)'
    BY DEF ListInv, PhaseInv, Lists!Active
  <1>5. Lists(way)!SuccessesHaveReceipts' /\ Lists(way)!InterruptionKeepsReceipts'
    BY DEF ListInv, Lists!SuccessesHaveReceipts, Lists!InterruptionKeepsReceipts
  <1> QED
    BY <1>2, <1>3, <1>4, <1>5 DEF ListInv

\* A publication: the new identity is ours, and the old one was, or the list
\* may overwrite.
LEMMA PublishKeeps ==
    ASSUME NEW way \in Ways, NEW u \in Listed[way], ListInv(way),
           stage[u] = "publishing", Lists(way)!Publish(u)
    PROVE  ListInv(way)'
  <1> USE DEF Lists!receiptVars, Lists!jobVars
  <1>1. /\ UNCHANGED <<noted, saved, listOriginal, listAttempt, succeeded, unnoted, phase,
                       cancelled, exhausted, closed, result, jobs>>
        /\ disk[u] = listOriginal[u] /\ last < Written[way] /\ last' = last + 1
        /\ disk' = [disk EXCEPT ![u] = last + 1] /\ ours' = ours \union {last + 1}
        /\ lost' = IF disk[u] \in ours \union {0} \/ way = "overwritten" THEN lost
                   ELSE lost \union {disk[u]}
        /\ published' = published \union {u}
        /\ stage' = [stage EXCEPT ![u] = "noting"]
    BY DEF Lists!Publish, Lists!At
  <1>2. phase = "load" /\ u \notin published /\ u \notin succeeded
    BY ListTypes DEF ListInv, PhaseInv, NotedInv, Lists!Active, Lists!Busy, Lists!InThread
  <1>3. disk[u] \in ours \union {0} \/ way = "overwritten"
    BY <1>1, <1>2 DEF ListInv, MineInv, Ways
  <1>4. lost' = {}
    BY <1>1, <1>3, ListTypes
  <1>5. last + 1 \in 0 .. Written[way] /\ last + 1 \in 1 .. Written[way]
    BY <1>1, ListTypes
  <1>6. \A x \in Listed[way] :
            /\ disk[x] \in 0 .. Written[way] /\ listOriginal[x] \in 0 .. Written[way]
            /\ disk[x] <= last /\ listOriginal[x] <= last
            /\ noted[x] \in ours \union {0} /\ saved[x] \in ours \union {0}
    BY ListTypes DEF ListInv, OursInv
  <1>7. Lists(way)!TypeOK'
    <2>1. disk' \in [Listed[way] -> 0 .. Written[way]]
      BY <1>1, <1>5, ListTypes
    <2>2. stage' \in [Listed[way] -> Lists(way)!Stages]
      BY <1>1, ListTypes DEF Lists!Stages, Lists!Busy, Lists!InThread
    <2>3. ours' \subseteq 1 .. Written[way] /\ last' \in 0 .. Written[way]
          /\ lost' \subseteq 1 .. Written[way]
      BY <1>1, <1>4, <1>5 DEF ListInv, Lists!TypeOK
    <2> QED
      BY <1>1, <2>1, <2>2, <2>3 DEF ListInv, Lists!TypeOK
  <1>8. OursInv(way)'
    <2>1. ours' \subseteq 1 .. last'
      BY <1>1, <1>5, ListTypes
    <2>2. ASSUME NEW x \in Listed[way]
          PROVE  /\ disk'[x] <= last' /\ listOriginal'[x] <= last'
                 /\ noted'[x] \in ours' \union {0} /\ saved'[x] \in ours' \union {0}
      BY <1>1, <1>6, ListTypes
    <2> QED
      BY <1>4, <2>1, <2>2 DEF OursInv
  <1>9. PhaseInv(way)'
    BY <1>1, <1>2 DEF ListInv, PhaseInv
  <1>10. MineInv(way)'
    <2>1. ASSUME way = "kept", NEW x \in Listed[way]
          PROVE  /\ stage'[x] \in {"listed", "preparing", "probing"} => disk'[x] \in ours' \union {0}
                 /\ stage'[x] \in {"fetching", "ranges", "publishing"} =>
                       listOriginal'[x] \in ours' \union {0}
      <3>1. /\ stage[x] \in {"listed", "preparing", "probing"} => disk[x] \in ours \union {0}
            /\ stage[x] \in {"fetching", "ranges", "publishing"} =>
                   listOriginal[x] \in ours \union {0}
        BY <1>2, <2>1 DEF ListInv, MineInv
      <3>2. CASE x = u
        BY <1>1, <3>2, ListTypes
      <3>3. CASE x # u
        BY <1>1, <3>1, <3>3, ListTypes
      <3> QED
        BY <3>2, <3>3
    <2> QED
      BY <2>1 DEF MineInv
  <1>11. NotedInv(way)'
    <2>1. ASSUME NEW x \in Listed[way]
          PROVE  /\ x \in published' => stage'[x] \in {"noting", "releasing", "done"}
                 /\ stage'[x] = "noting" =>
                        x \in published' /\ disk'[x] \in ours' /\ listOriginal'[x] < disk'[x]
                 /\ x \in succeeded' => noted'[x] \in ours' /\ listOriginal'[x] < noted'[x]
                 /\ x \in published' \ unnoted' /\ stage'[x] # "noting" => noted'[x] = disk'[x]
      <3>1. /\ x \in published => stage[x] \in {"noting", "releasing", "done"}
            /\ stage[x] = "noting" =>
                   x \in published /\ disk[x] \in ours /\ listOriginal[x] < disk[x]
            /\ x \in succeeded => noted[x] \in ours /\ listOriginal[x] < noted[x]
            /\ x \in published \ unnoted /\ stage[x] # "noting" => noted[x] = disk[x]
        BY <1>2 DEF ListInv, NotedInv
      <3>2. CASE x = u
        <4>1. stage'[u] = "noting" /\ disk'[u] = last + 1 /\ listOriginal'[u] <= last
          BY <1>1, <1>6, ListTypes
        <4>2. listOriginal'[u] < disk'[u]
          BY <1>1, <1>6, <4>1, ListTypes
        <4> QED
          BY <1>1, <1>2, <3>2, <4>1, <4>2
      <3>3. CASE x # u
        BY <1>1, <3>1, <3>3, ListTypes
      <3> QED
        BY <3>2, <3>3
    <2> QED
      BY <2>1 DEF NotedInv
  <1>12. Lists(way)!SuccessesHaveReceipts' /\ Lists(way)!InterruptionKeepsReceipts'
    BY <1>1, <1>2 DEF Lists!SuccessesHaveReceipts, Lists!InterruptionKeepsReceipts
  <1> QED
    BY <1>7, <1>8, <1>9, <1>10, <1>11, <1>12 DEF ListInv

\* The receipt of what was just published.
LEMMA NoteKeeps ==
    ASSUME NEW way \in Ways, NEW u \in Listed[way], ListInv(way), Lists(way)!Note(u)
    PROVE  ListInv(way)'
  <1> USE DEF Lists!fileVars, Lists!jobVars
  <1>1. /\ UNCHANGED <<disk, last, ours, lost, saved, listOriginal, listAttempt, published,
                       unnoted, phase, cancelled, exhausted, closed, result, jobs>>
        /\ noted' = [noted EXCEPT ![u] = disk[u]]
        /\ succeeded' \in {succeeded, succeeded \union {u}}
        /\ stage[u] = "noting" /\ stage' = [stage EXCEPT ![u] = "releasing"]
    BY DEF Lists!Note, Lists!At
  <1>2. phase = "load"
    BY <1>1 DEF ListInv, PhaseInv, Lists!Active, Lists!Busy, Lists!InThread
  <1>3. u \in published /\ disk[u] \in ours /\ listOriginal[u] < disk[u]
    BY <1>1, <1>2 DEF ListInv, NotedInv
  <1>4. noted' \in [Listed[way] -> 0 .. Written[way]] /\ succeeded' \subseteq published
        /\ stage' \in [Listed[way] -> Lists(way)!Stages]
    BY <1>1, <1>3, ListTypes DEF Lists!Stages, Lists!Busy, Lists!InThread
  <1>5. Lists(way)!TypeOK'
    BY <1>1, <1>4 DEF ListInv, Lists!TypeOK
  <1>6. OursInv(way)'
    BY <1>1, <1>3, ListTypes DEF ListInv, OursInv
  <1>7. PhaseInv(way)'
    BY <1>1, <1>2 DEF ListInv, PhaseInv
  <1>8. MineInv(way)'
    BY <1>1, ListTypes DEF ListInv, MineInv
  <1>9. NotedInv(way)'
    <2>1. ASSUME NEW x \in Listed[way]
          PROVE  /\ x \in published' => stage'[x] \in {"noting", "releasing", "done"}
                 /\ stage'[x] = "noting" =>
                        x \in published' /\ disk'[x] \in ours' /\ listOriginal'[x] < disk'[x]
                 /\ x \in succeeded' => noted'[x] \in ours' /\ listOriginal'[x] < noted'[x]
                 /\ x \in published' \ unnoted' /\ stage'[x] # "noting" => noted'[x] = disk'[x]
      <3>1. /\ x \in published => stage[x] \in {"noting", "releasing", "done"}
            /\ stage[x] = "noting" =>
                   x \in published /\ disk[x] \in ours /\ listOriginal[x] < disk[x]
            /\ x \in succeeded => noted[x] \in ours /\ listOriginal[x] < noted[x]
            /\ x \in published \ unnoted /\ stage[x] # "noting" => noted[x] = disk[x]
        BY <1>2 DEF ListInv, NotedInv
      <3>2. CASE x = u
        BY <1>1, <1>3, <3>2, ListTypes
      <3>3. CASE x # u
        BY <1>1, <3>1, <3>3, ListTypes
      <3> QED
        BY <3>2, <3>3
    <2> QED
      BY <2>1 DEF NotedInv
  <1>10. Lists(way)!SuccessesHaveReceipts' /\ Lists(way)!InterruptionKeepsReceipts'
    BY <1>1, <1>2 DEF Lists!SuccessesHaveReceipts, Lists!InterruptionKeepsReceipts
  <1> QED
    BY <1>5, <1>6, <1>7, <1>8, <1>9, <1>10 DEF ListInv

\* Other programs write where no transfer has published yet, and without
\* --overwrite never while an entry waits.
LEMMA MeddleKeeps ==
    ASSUME NEW way \in Ways, NEW u \in Listed[way], ListInv(way), Lists(way)!Meddle(u)
    PROVE  ListInv(way)'
  <1> USE DEF Lists!receiptVars, Lists!transferVars, Lists!jobVars
  <1>1. /\ UNCHANGED <<ours, lost, noted, saved, stage, listOriginal, listAttempt, published,
                       succeeded, unnoted, phase, cancelled, exhausted, closed, result, jobs>>
        /\ \/ phase = "idle"
           \/ way # "kept" /\ phase = "load" /\ stage[u] = "listed"
           \/ stage[u] \in {"fetching", "ranges"}
        /\ \/ last < Written[way] /\ last' = last + 1 /\ disk' = [disk EXCEPT ![u] = last + 1]
           \/ disk' = [disk EXCEPT ![u] = 0] /\ last' = last
    BY ListConstants DEF Lists!Meddle
  <1>2. /\ last' \in 0 .. Written[way] /\ last <= last'
        /\ disk'[u] \in 0 .. Written[way] /\ disk'[u] <= last' /\ disk'[u] \notin ours
        /\ \A x \in Listed[way] \ {u} : disk'[x] = disk[x]
        /\ disk' \in [Listed[way] -> 0 .. Written[way]]
    <2>1. CASE last < Written[way] /\ last' = last + 1 /\ disk' = [disk EXCEPT ![u] = last + 1]
      BY <2>1, ListTypes
    <2>2. CASE disk' = [disk EXCEPT ![u] = 0] /\ last' = last
      BY <2>2, ListTypes
    <2> QED
      BY <1>1, <2>1, <2>2
  <1>3. Lists(way)!TypeOK'
    BY <1>1, <1>2 DEF ListInv, Lists!TypeOK
  <1>4. OursInv(way)'
    <2>1. ours' \subseteq 1 .. last' /\ lost' = {}
      BY <1>1, <1>2, ListTypes
    <2>2. ASSUME NEW x \in Listed[way]
          PROVE  /\ disk'[x] <= last' /\ listOriginal'[x] <= last'
                 /\ noted'[x] \in ours' \union {0} /\ saved'[x] \in ours' \union {0}
      <3>1. /\ disk[x] <= last /\ listOriginal[x] <= last
            /\ noted[x] \in ours \union {0} /\ saved[x] \in ours \union {0}
        BY DEF ListInv, OursInv
      <3>2. disk'[x] <= last'
        BY <1>2, <3>1, ListTypes
      <3>3. listOriginal[x] <= last'
        BY <1>2, <3>1, ListTypes
      <3> QED
        BY <1>1, <3>1, <3>2, <3>3
    <2> QED
      BY <2>1, <2>2 DEF OursInv
  <1>5. PhaseInv(way)'
    BY <1>1 DEF ListInv, PhaseInv, Lists!Active
  <1>6. MineInv(way)'
    BY <1>1, <1>2 DEF ListInv, MineInv
  <1>7. NotedInv(way)'
    <2>1. SUFFICES ASSUME phase \in {"load", "save"} PROVE NotedInv(way)'
      BY <1>1 DEF NotedInv
    <2>2. stage[u] \in {"listed", "fetching", "ranges"}
      BY <1>1, <2>1
    <2>3. u \notin published /\ u \notin succeeded
      BY <2>1, <2>2, ListTypes DEF ListInv, NotedInv
    <2> QED
      BY <1>1, <1>2, <2>1, <2>2, <2>3 DEF ListInv, NotedInv
  <1>8. Lists(way)!SuccessesHaveReceipts'
    BY <1>1 DEF ListInv, Lists!SuccessesHaveReceipts
  <1>9. Lists(way)!InterruptionKeepsReceipts'
    BY <1>1, <1>2, ListTypes DEF ListInv, Lists!InterruptionKeepsReceipts
  <1> QED
    BY <1>3, <1>4, <1>5, <1>6, <1>7, <1>8, <1>9 DEF ListInv

\* The steps of the job itself, which leave the files alone.
LEMMA JobKeeps ==
    ASSUME NEW way \in Ways, ListInv(way),
           \/ Lists(way)!Begin \/ Lists(way)!Refuse \/ Lists(way)!Start
           \/ Lists(way)!Interrupt \/ Lists(way)!LoadEnds \/ Lists(way)!Save
           \/ Lists(way)!SaveFails \/ Lists(way)!Kill
    PROVE  ListInv(way)'
  <1> USE DEF Lists!fileVars, Lists!receiptVars, Lists!transferVars
  <1>1. CASE Lists(way)!Begin
    <2>1. /\ UNCHANGED <<disk, last, ours, lost, saved>>
          /\ phase' = "examine" /\ noted' = saved /\ result' = "none" /\ closed' = FALSE
          /\ stage' = [x \in Listed[way] |-> "none"]
          /\ listOriginal' = [x \in Listed[way] |-> 0]
          /\ published' = {} /\ succeeded' = {} /\ unnoted' = {}
      BY <1>1 DEF Lists!Begin, Lists!None
    <2>2. Lists(way)!TypeOK'
      <3>1. jobs' \in 0 .. ListJobs[way]
        BY <1>1, ListTypes, ListConstants DEF Lists!Begin
      <3>2. /\ noted' \in [Listed[way] -> 0 .. Written[way]]
            /\ listOriginal' \in [Listed[way] -> 0 .. Written[way]]
            /\ listAttempt' \in [Listed[way] -> 0 .. ListRetries[way]]
        BY <1>1, <2>1, ListTypes, ListConstants DEF Lists!Begin, Lists!None
      <3>3. stage' \in [Listed[way] -> Lists(way)!Stages]
        BY <2>1 DEF Lists!Stages
      <3>4. cancelled' \in BOOLEAN /\ exhausted' \in BOOLEAN
        BY <1>1 DEF Lists!Begin
      <3> QED
        BY <2>1, <3>1, <3>2, <3>3, <3>4 DEF ListInv, Lists!TypeOK
    <2>3. OursInv(way)'
      BY <2>1, ListTypes DEF ListInv, OursInv
    <2>4. PhaseInv(way)' /\ NotedInv(way)'
      BY <2>1 DEF PhaseInv, NotedInv, Lists!Active, Lists!Busy, Lists!InThread
    <2>5. MineInv(way)'
      BY <2>1 DEF MineInv
    <2>6. Lists(way)!SuccessesHaveReceipts' /\ Lists(way)!InterruptionKeepsReceipts'
      BY <2>1 DEF Lists!SuccessesHaveReceipts, Lists!InterruptionKeepsReceipts
    <2> QED
      BY <2>2, <2>3, <2>4, <2>5, <2>6 DEF ListInv
  <1>2. CASE Lists(way)!Refuse
    <2>1. /\ UNCHANGED <<disk, last, ours, lost, noted, saved, stage, listOriginal, listAttempt,
                         published, succeeded, unnoted, cancelled, exhausted, closed, jobs>>
          /\ phase = "examine" /\ phase' = "idle" /\ result' = "refused"
      BY <1>2 DEF Lists!Refuse
    <2>2. Lists(way)!TypeOK'
      BY <2>1 DEF ListInv, Lists!TypeOK
    <2>3. OursInv(way)' /\ MineInv(way)' /\ NotedInv(way)'
      BY <2>1 DEF ListInv, OursInv, MineInv, NotedInv
    <2>4. PhaseInv(way)'
      BY <2>1 DEF ListInv, PhaseInv, Lists!Active
    <2>5. Lists(way)!SuccessesHaveReceipts' /\ Lists(way)!InterruptionKeepsReceipts'
      BY <2>1 DEF Lists!SuccessesHaveReceipts, Lists!InterruptionKeepsReceipts
    <2> QED
      BY <2>2, <2>3, <2>4, <2>5 DEF ListInv
  <1>3. CASE Lists(way)!Start
    <2>1. /\ UNCHANGED <<disk, last, ours, lost, noted, saved, stage, listOriginal, listAttempt,
                         published, succeeded, unnoted, cancelled, exhausted, closed, result, jobs>>
          /\ phase = "examine" /\ phase' = "load"
          /\ \A x \in Listed[way] : stage[x] = "listed"
      BY <1>3 DEF Lists!Start
    <2>2. Lists(way)!TypeOK'
      BY <2>1 DEF ListInv, Lists!TypeOK
    <2>3. published = {} /\ succeeded = {} /\ closed # TRUE
      BY <2>1, ListTypes DEF ListInv, PhaseInv
    <2>4. OursInv(way)' /\ MineInv(way)' /\ NotedInv(way)'
      BY <2>1, <2>3 DEF ListInv, OursInv, MineInv, NotedInv
    <2>5. PhaseInv(way)'
      BY <2>1 DEF ListInv, PhaseInv, Lists!Active
    <2>6. Lists(way)!SuccessesHaveReceipts' /\ Lists(way)!InterruptionKeepsReceipts'
      BY <2>1 DEF Lists!SuccessesHaveReceipts, Lists!InterruptionKeepsReceipts
    <2> QED
      BY <2>2, <2>4, <2>5, <2>6 DEF ListInv
  <1>4. CASE Lists(way)!Interrupt
    <2>1. /\ UNCHANGED <<disk, last, ours, lost, noted, saved, listOriginal, listAttempt,
                         published, succeeded, unnoted, phase, exhausted, closed, result, jobs>>
          /\ phase = "load" /\ cancelled' = TRUE
          /\ \A x \in Listed[way] : stage'[x] = IF stage[x] = "fetching" THEN "releasing" ELSE stage[x]
      BY <1>4 DEF Lists!Interrupt
    <2>2. stage' \in [Listed[way] -> Lists(way)!Stages]
      BY <1>4, ListTypes DEF Lists!Interrupt, Lists!Stages, Lists!Busy, Lists!InThread
    <2>3. Lists(way)!TypeOK'
      BY <2>1, <2>2 DEF ListInv, Lists!TypeOK
    <2>4. OursInv(way)' /\ MineInv(way)'
      BY <2>1 DEF ListInv, OursInv, MineInv
    <2>5. NotedInv(way)'
      BY <2>1 DEF ListInv, NotedInv
    <2>6. PhaseInv(way)'
      BY <2>1 DEF ListInv, PhaseInv
    <2>7. Lists(way)!SuccessesHaveReceipts' /\ Lists(way)!InterruptionKeepsReceipts'
      BY <2>1 DEF Lists!SuccessesHaveReceipts, Lists!InterruptionKeepsReceipts
    <2> QED
      BY <2>3, <2>4, <2>5, <2>6, <2>7 DEF ListInv
  <1>5. CASE Lists(way)!LoadEnds
    <2>1. /\ UNCHANGED <<disk, last, ours, lost, noted, saved, stage, listOriginal, listAttempt,
                         published, succeeded, unnoted, cancelled, exhausted, result, jobs>>
          /\ phase = "load" /\ phase' = "save" /\ closed' = TRUE /\ Lists(way)!Active = {}
      BY <1>5 DEF Lists!LoadEnds
    <2>2. Lists(way)!TypeOK'
      BY <2>1 DEF ListInv, Lists!TypeOK
    <2>3. OursInv(way)' /\ MineInv(way)' /\ NotedInv(way)'
      BY <2>1 DEF ListInv, OursInv, MineInv, NotedInv
    <2>4. PhaseInv(way)'
      BY <2>1 DEF PhaseInv, Lists!Active
    <2>5. Lists(way)!SuccessesHaveReceipts' /\ Lists(way)!InterruptionKeepsReceipts'
      BY <2>1 DEF Lists!SuccessesHaveReceipts, Lists!InterruptionKeepsReceipts
    <2> QED
      BY <2>2, <2>3, <2>4, <2>5 DEF ListInv
  <1>6. CASE Lists(way)!Save
    <2>1. /\ UNCHANGED <<disk, last, ours, lost, noted, stage, listOriginal, listAttempt,
                         published, succeeded, unnoted, cancelled, exhausted, closed, jobs>>
          /\ phase = "save" /\ phase' = "idle" /\ saved' = noted
          /\ result' \in {"ok", "failed"}
      BY <1>6 DEF Lists!Save, Lists!Outcome
    <2>2. Lists(way)!TypeOK'
      BY <2>1 DEF ListInv, Lists!TypeOK
    <2>3. OursInv(way)'
      BY <2>1 DEF ListInv, OursInv
    <2>4. MineInv(way)' /\ NotedInv(way)'
      BY <2>1 DEF MineInv, NotedInv
    <2>5. PhaseInv(way)'
      BY <2>1 DEF ListInv, PhaseInv, Lists!Active
    <2>6. \A x \in Listed[way] :
              /\ stage[x] # "noting"
              /\ x \in succeeded => noted[x] \in ours /\ listOriginal[x] < noted[x]
              /\ x \in published \ unnoted => noted[x] = disk[x]
      BY <2>1 DEF ListInv, PhaseInv, NotedInv, Lists!Active, Lists!Busy, Lists!InThread
    <2>7. Lists(way)!SuccessesHaveReceipts'
      <3>1. ASSUME NEW x \in succeeded PROVE saved'[x] \in ours' /\ saved'[x] > listOriginal'[x]
        <4>1. x \in Listed[way]
          BY ListTypes
        <4>2. noted[x] \in Nat /\ listOriginal[x] \in Nat
          BY <4>1, ListTypes
        <4> QED
          BY <2>1, <2>6, <4>1, <4>2
      <3> QED
        BY <2>1, <3>1 DEF Lists!SuccessesHaveReceipts
    <2>8. Lists(way)!InterruptionKeepsReceipts'
      BY <2>1, <2>6, ListTypes DEF Lists!InterruptionKeepsReceipts
    <2> QED
      BY <2>2, <2>3, <2>4, <2>5, <2>7, <2>8 DEF ListInv
  <1>7. CASE Lists(way)!SaveFails
    <2>1. /\ UNCHANGED <<disk, last, ours, lost, noted, saved, stage, listOriginal, listAttempt,
                         published, succeeded, unnoted, cancelled, exhausted, closed, jobs>>
          /\ phase = "save" /\ phase' = "idle" /\ result' = "unsaved"
      BY <1>7 DEF Lists!SaveFails
    <2>2. Lists(way)!TypeOK'
      BY <2>1 DEF ListInv, Lists!TypeOK
    <2>3. OursInv(way)' /\ MineInv(way)' /\ NotedInv(way)'
      BY <2>1 DEF ListInv, OursInv, MineInv, NotedInv
    <2>4. PhaseInv(way)'
      BY <2>1 DEF ListInv, PhaseInv, Lists!Active
    <2>5. Lists(way)!SuccessesHaveReceipts' /\ Lists(way)!InterruptionKeepsReceipts'
      BY <2>1 DEF Lists!SuccessesHaveReceipts, Lists!InterruptionKeepsReceipts
    <2> QED
      BY <2>2, <2>3, <2>4, <2>5 DEF ListInv
  <1>8. CASE Lists(way)!Kill
    <2>1. /\ UNCHANGED <<disk, last, ours, lost, noted, saved, listOriginal, listAttempt,
                         published, succeeded, unnoted, cancelled, exhausted, closed, jobs>>
          /\ phase' = "idle" /\ result' = "killed"
          /\ stage' = [x \in Listed[way] |-> "none"]
      BY <1>8 DEF Lists!Kill
    <2>2. stage' \in [Listed[way] -> Lists(way)!Stages]
      BY <2>1 DEF Lists!Stages
    <2>3. Lists(way)!TypeOK'
      BY <2>1, <2>2 DEF ListInv, Lists!TypeOK
    <2>4. OursInv(way)' /\ MineInv(way)' /\ NotedInv(way)'
      BY <2>1 DEF ListInv, OursInv, MineInv, NotedInv
    <2>5. PhaseInv(way)'
      BY <2>1 DEF PhaseInv, Lists!Active, Lists!Busy, Lists!InThread
    <2>6. Lists(way)!SuccessesHaveReceipts' /\ Lists(way)!InterruptionKeepsReceipts'
      BY <2>1 DEF Lists!SuccessesHaveReceipts, Lists!InterruptionKeepsReceipts
    <2> QED
      BY <2>3, <2>4, <2>5, <2>6 DEF ListInv
  <1> QED
    BY <1>1, <1>2, <1>3, <1>4, <1>5, <1>6, <1>7, <1>8

\* An entry is listed: without --overwrite its file is ours or not there.
LEMMA ExamineKeeps ==
    ASSUME NEW way \in Ways, NEW u \in Listed[way], ListInv(way), Lists(way)!Examine(u)
    PROVE  ListInv(way)'
  <1> USE DEF Lists!fileVars, Lists!receiptVars, Lists!jobVars
  <1>1. /\ UNCHANGED <<disk, last, ours, lost, noted, saved, listOriginal, listAttempt, published,
                       succeeded, unnoted, phase, cancelled, exhausted, closed, result, jobs>>
        /\ phase = "examine" /\ stage' = [stage EXCEPT ![u] = "listed"]
        /\ disk[u] = 0 \/ way = "overwritten" \/ noted[u] = disk[u]
    BY DEF Lists!Examine, Lists!MayReplace, Lists!At
  <1>2. disk[u] \in ours \union {0} \/ way # "kept"
    BY <1>1 DEF ListInv, OursInv, Ways
  <1>3. Lists(way)!TypeOK'
    <2>1. stage' \in [Listed[way] -> Lists(way)!Stages]
      BY <1>1, ListTypes DEF Lists!Stages
    <2> QED
      BY <1>1, <2>1 DEF ListInv, Lists!TypeOK
  <1>4. OursInv(way)' /\ NotedInv(way)'
    BY <1>1 DEF ListInv, OursInv, NotedInv
  <1>5. PhaseInv(way)'
    BY <1>1, ListTypes DEF ListInv, PhaseInv, Lists!Active, Lists!Busy, Lists!InThread
  <1>6. MineInv(way)'
    BY <1>1, <1>2, ListTypes DEF ListInv, MineInv
  <1>7. Lists(way)!SuccessesHaveReceipts' /\ Lists(way)!InterruptionKeepsReceipts'
    BY <1>1 DEF Lists!SuccessesHaveReceipts, Lists!InterruptionKeepsReceipts
  <1> QED
    BY <1>3, <1>4, <1>5, <1>6, <1>7 DEF ListInv

LEMMA ListStep == ASSUME NEW way \in Ways, ListInv(way), Lists(way)!Next PROVE ListInv(way)'
  <1>1. ASSUME NEW u \in Listed[way], Lists(way)!Work(u) \/ Lists(way)!Fail(u)
        PROVE  ListInv(way)'
    BY <1>1, TransferGoes, GoesKeeps, RetryKeeps, PublishKeeps, NoteKeeps
       DEF Lists!Work, Lists!Fail
  <1> QED
    BY <1>1, JobKeeps, ExamineKeeps, MeddleKeeps DEF Lists!Next, Lists!Job

-----------------------------------------------------------------------------
(* The three together *)

LEMMA Initial == Init => IInv
  <1> SUFFICES ASSUME Init PROVE IInv
    OBVIOUS
  <1>1. part \in Parts /\ WholeInv /\ ChunkInv
    BY WholeInitial, ChunkInitial DEF Init
  <1>2. ASSUME NEW way \in Ways, part = way PROVE ListInv(way)
    BY <1>2, ListInitial DEF Init
  <1> QED
    BY <1>1, <1>2 DEF IInv

\* What rests keeps its invariant.
LEMMA WholeStays == WholeInv /\ UNCHANGED wholeVars => WholeInv'
  <1> SUFFICES ASSUME WholeInv, UNCHANGED wholeVars PROVE WholeInv'
    OBVIOUS
  <1> USE DEF wholeVars
  <1>1. Whole!TypeOK'
    BY DEF WholeInv, Whole!TypeOK
  <1>2. ServerInv' /\ RecordInv' /\ RunInv'
    BY DEF WholeInv, ServerInv, RecordInv, RunInv, Whole!Load
  <1> QED
    BY <1>1, <1>2 DEF WholeInv

LEMMA ChunksStay == ChunkInv /\ UNCHANGED chunkVars => ChunkInv'
  <1> SUFFICES ASSUME ChunkInv, UNCHANGED chunkVars PROVE ChunkInv'
    OBVIOUS
  <1> USE DEF chunkVars
  <1>1. InChunks!TypeOK'
    BY DEF ChunkInv, InChunks!TypeOK
  <1>2. SpaceInv' /\ PlanInv' /\ BlockInv' /\ CountInv'
    BY DEF ChunkInv, SpaceInv, PlanInv, BlockInv, CountInv, Missing, InChunks!Pending,
           InChunks!ScratchIsCharged
  <1> QED
    BY <1>1, <1>2 DEF ChunkInv

LEMMA ListsStay == ASSUME NEW way \in Ways, ListInv(way), UNCHANGED listVars PROVE ListInv(way)'
  <1> USE DEF listVars
  <1>1. Lists(way)!TypeOK'
    BY DEF ListInv, Lists!TypeOK
  <1>2. OursInv(way)' /\ PhaseInv(way)' /\ MineInv(way)' /\ NotedInv(way)'
    BY DEF ListInv, OursInv, PhaseInv, MineInv, NotedInv, Lists!Active
  <1>3. Lists(way)!SuccessesHaveReceipts' /\ Lists(way)!InterruptionKeepsReceipts'
    BY DEF ListInv, Lists!SuccessesHaveReceipts, Lists!InterruptionKeepsReceipts
  <1> QED
    BY <1>1, <1>2, <1>3 DEF ListInv

LEMMA Inductive == IInv /\ [Next]_vars => IInv'
  <1> SUFFICES ASSUME IInv, [Next]_vars PROVE IInv'
    OBVIOUS
  <1>1. part' = part /\ part \in Parts
    BY DEF IInv, Next, WholeMoves, ChunkedMoves, ListMoves, vars
  <1>2. WholeInv'
    <2>1. CASE WholeMoves
      BY <2>1, WholeStep DEF WholeMoves, IInv
    <2>2. CASE UNCHANGED wholeVars
      BY <2>2, WholeStays DEF IInv
    <2> QED
      BY <2>1, <2>2 DEF Next, ChunkedMoves, ListMoves, vars
  <1>3. ChunkInv'
    <2>1. CASE ChunkedMoves
      BY <2>1, ChunkStep DEF ChunkedMoves, IInv
    <2>2. CASE UNCHANGED chunkVars
      BY <2>2, ChunksStay DEF IInv
    <2> QED
      BY <2>1, <2>2 DEF Next, WholeMoves, ListMoves, vars
  <1>4. ASSUME NEW way \in Ways, part = way PROVE ListInv(way)'
    <2>1. ListInv(way)
      BY <1>4 DEF IInv
    <2>2. CASE ListMoves
      BY <1>4, <2>1, <2>2, ListStep DEF ListMoves
    <2>3. CASE UNCHANGED listVars
      BY <2>1, <2>3, ListsStay
    <2> QED
      BY <2>2, <2>3 DEF Next, WholeMoves, ChunkedMoves, vars
  <1> QED
    BY <1>1, <1>2, <1>3, <1>4 DEF IInv

THEOREM Invariance == Spec => []IInv
  BY Initial, Inductive, PTL DEF Spec

\* Every variable of the part that moves has its type.
THEOREM TypeCorrect == Spec => []TypeOK
  <1>1. IInv => TypeOK
    BY DEF IInv, WholeInv, ChunkInv, ListInv, TypeOK
  <1> QED
    BY <1>1, Invariance, PTL

\* What a record makes resumable is a beginning of the representation it
\* names, whatever the server serves, fails or cuts and wherever a transfer
\* is killed (download_integrity.py:164-208).
THEOREM ResumableAlwaysPrefix == Spec => []ResumableIsPrefix
  <1>1. ASSUME IInv PROVE ResumableIsPrefix
    <2>1. RecordInv
      BY <1>1 DEF IInv, WholeInv
    <2> QED
      BY <2>1, WrittenIsBody DEF RecordInv, Names, ResumableIsPrefix, Whole!ResumableIsPrefix
  <1> QED
    BY <1>1, Invariance, PTL

\* Scratch is there, charged and still while somebody needs it so, for any
\* number of chunks, threads and retries (download.py:788-792, 1359-1377).
THEOREM ScratchAlwaysServes == Spec => []ScratchServesWriters
  <1>1. ASSUME IInv PROVE ScratchServesWriters
    <2>1. ChunkInv
      BY <1>1 DEF IInv
    <2>2. InChunks!WorkspaceOutlivesWriters /\ InChunks!ScratchIsCharged
      BY <2>1 DEF ChunkInv, SpaceInv, InChunks!WorkspaceOutlivesWriters, InChunks!Running,
                  InChunks!Pending
    <2>3. InChunks!NobodyWritesWhilePublishing
      BY <2>1, BlocksArePlanned DEF InChunks!NobodyWritesWhilePublishing
    <2> QED
      BY <2>2, <2>3 DEF ScratchServesWriters
  <1> QED
    BY <1>1, Invariance, PTL

\* Without --overwrite no list replaces a file of somebody else, and every
\* saved receipt names a file of ours (transfers.py:1050, 1153-1164).
THEOREM ForeignAlwaysKept == Spec => []ForeignFilesKept
  <1>1. IInv => ForeignFilesKept
    BY DEF IInv, ListInv, OursInv, ForeignFilesKept, Lists!ForeignFilesKept,
           Lists!ReceiptsAreOurs
  <1> QED
    BY <1>1, Invariance, PTL

\* A list that ends by itself has a true receipt for each of its successes,
\* and no thread at work (transfers.py:893-897, 1000-1020, 1188-1193).
THEOREM SuccessesAlwaysNoted == Spec => []SuccessesHaveReceipts
  <1>1. ASSUME IInv PROVE SuccessesHaveReceipts
    <2>1. ASSUME NEW way \in Ways, part = way
          PROVE  /\ Lists(way)!SuccessesHaveReceipts
                 /\ Lists(way)!InterruptionKeepsReceipts
                 /\ Lists(way)!QuietWhenClosed
      <3>1. ListInv(way)
        BY <1>1, <2>1 DEF IInv
      <3>2. Lists(way)!QuietWhenClosed
        BY <3>1 DEF ListInv, PhaseInv, Lists!QuietWhenClosed
      <3> QED
        BY <3>1, <3>2 DEF ListInv
    <2> QED
      BY <2>1 DEF SuccessesHaveReceipts
  <1> QED
    BY <1>1, Invariance, PTL

\* Both engines for one file implement atomic publication: the destination
\* changes from one complete representation to another, and never replaces
\* what came there after it was looked at (download_integrity.py:53-91).
THEOREM PublicationImplemented == Spec => ImplementsAtomicPublication
  <1>1. Init => Whole!Atomic!Init /\ InChunks!Atomic!Init
    <2> SUFFICES ASSUME Init PROVE Whole!Atomic!Init /\ InChunks!Atomic!Init
      OBVIOUS
    <2>1. WholeInv /\ ChunkInv
      BY WholeInitial, ChunkInitial DEF Init
    <2>2. offered \subseteq Version /\ chunkOffered \subseteq Served
      BY <2>1 DEF WholeInv, ChunkInv, Whole!TypeOK, InChunks!TypeOK
    <2> QED
      BY <2>2 DEF Init, Whole!Init, InChunks!Init, Whole!Atomic!Init, InChunks!Atomic!Init
  <1>2. IInv /\ [Next]_vars => [Whole!Atomic!Next]_(Whole!Atomic!vars)
    <2> SUFFICES ASSUME IInv, [Next]_vars
                 PROVE  Whole!Atomic!Next \/ UNCHANGED Whole!Atomic!vars
      OBVIOUS
    <2>1. CASE WholeMoves
      BY <2>1, WholeRefines DEF WholeMoves, IInv
    <2>2. CASE UNCHANGED wholeVars
      BY <2>2 DEF wholeVars, Whole!Atomic!vars
    <2> QED
      BY <2>1, <2>2 DEF Next, ChunkedMoves, ListMoves, vars
  <1>3. IInv /\ [Next]_vars => [InChunks!Atomic!Next]_(InChunks!Atomic!vars)
    <2> SUFFICES ASSUME IInv, [Next]_vars
                 PROVE  InChunks!Atomic!Next \/ UNCHANGED InChunks!Atomic!vars
      OBVIOUS
    <2>1. CASE ChunkedMoves
      BY <2>1, ChunkRefines DEF ChunkedMoves, IInv
    <2>2. CASE UNCHANGED chunkVars
      BY <2>2 DEF chunkVars, InChunks!Atomic!vars
    <2> QED
      BY <2>1, <2>2 DEF Next, WholeMoves, ListMoves, vars
  <1> QED
    BY <1>1, <1>2, <1>3, Invariance, PTL
       DEF Spec, ImplementsAtomicPublication, Whole!ImplementsAtomicPublication,
           Whole!Atomic!Spec, InChunks!ImplementsAtomicPublication, InChunks!Atomic!Spec
=============================================================================
