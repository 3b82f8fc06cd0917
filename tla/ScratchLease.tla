---------------------------- MODULE ScratchLease ----------------------------
(***************************************************************************)
(* scratch.py: OwnedScratch, the private workspaces of parallel transfers. *)
(* A workspace is a directory with a manifest and the files it names; its  *)
(* owner holds an OS lease on the manifest while transfers write there.    *)
(* What a killed run leaves behind is reclaimed by the next owner, and     *)
(* what a bounded shutdown leaves in a writer's hands is left alone.       *)
(*                                                                         *)
(* The owners are the mirrors of one process, one after the other; that no *)
(* other process owns the tree is the subject of TreeOwnership. "parallel" *)
(* and "chunks" follow one discipline: one root stands for both.           *)
(***************************************************************************)
EXTENDS Naturals, FiniteSets

CONSTANTS
    Owner,          \* OwnedScratch instances
    Work,           \* workspaces: a token is never drawn twice
    Crashes, Faults, Strays     \* bounds: kills, failed file operations, entries of others

Root == "root"
Nobody == "nobody"
Nothing == "nothing"

\* Assumed of the constants wherever the module is instantiated.
ScratchAssumption == Nobody \notin Owner /\ {Crashes, Faults, Strays} \subseteq Nat

VARIABLES
    root,           \* "absent", "bare" (no marker) or "owned"
    dir,            \* workspaces whose directory exists
    manifest,       \* manifest[w]: "none", "empty" or "ours"
    bytes,          \* workspaces with transfer bytes
    lease,          \* lease[w]: the owner whose descriptor holds the lock
    stray,          \* directories with an entry of somebody else
    pc, at,         \* pc[o]: the next step of o, at[o]: the workspace it is about
    todo,           \* todo[o]: what recover() has still to visit
    saw,            \* owners whose _remove listed transfer bytes
    active,         \* active[o]: _active
    closing,        \* owners whose guard is closing
    drawn,          \* tokens drawn
    held,           \* workspaces whose writer relies on the bytes
    spoiled,        \* what was last given up because a file operation failed
    torn,           \* a kill or a failure came between two writes of the root
    refused,        \* an owner was refused the root
    crashes, faults

rootVars == <<root, torn, refused>>
workVars == <<dir, manifest, bytes, lease>>
ownVars == <<active, drawn, held>>
limits == <<crashes, faults>>
vars == <<rootVars, workVars, stray, pc, at, todo, saw, ownVars, closing, spoiled, limits>>

Init ==
    /\ root = "absent" /\ torn = FALSE /\ refused = FALSE
    /\ dir = {} /\ bytes = {} /\ stray = {}
    /\ manifest = [w \in Work |-> "none"] /\ lease = [w \in Work |-> Nobody]
    /\ pc = [o \in Owner |-> "out"] /\ at = [o \in Owner |-> Nothing]
    /\ todo = [o \in Owner |-> {}] /\ saw = {}
    /\ active = [o \in Owner |-> {}] /\ drawn = {} /\ held = {}
    /\ closing = {} /\ spoiled = {} /\ crashes = 0 /\ faults = 0

Goto(o, step) == pc' = [pc EXCEPT ![o] = step]
Step(o, from, to) == pc[o] = from /\ Goto(o, to)

\* Where _remove returns to: release() ends, recover() goes on.
Returned(o) == IF todo[o] = {} THEN "idle" ELSE "walk"

\* Mirrors run one after the other; an earlier one may still be closing.
Alone(o) == \A p \in Owner \ {o} : pc[p] = "out" \/ p \in closing

Fault == faults < Faults /\ faults' = faults + 1 /\ UNCHANGED crashes

-----------------------------------------------------------------------------
(* __init__: the root, then recover() *)

Listing(o) == dir \ active[o]
Enter(o) ==
    /\ todo' = [todo EXCEPT ![o] = Listing(o)]
    /\ Goto(o, IF Listing(o) = {} THEN "idle" ELSE "walk")

Open(o) ==
    /\ pc[o] = "out" /\ Alone(o)
    /\ CASE root = "absent" -> /\ root' = "bare" /\ Goto(o, "mark")
                               /\ UNCHANGED <<todo, refused>>
         [] root = "owned"  -> Enter(o) /\ UNCHANGED <<root, refused>>
         [] root = "bare"   -> refused' = TRUE /\ UNCHANGED <<root, pc, todo>>
    /\ UNCHANGED <<torn, workVars, stray, at, saw, ownVars, closing, spoiled, limits>>

Mark(o) ==
    /\ pc[o] = "mark" /\ root' = "owned"
    /\ Enter(o)
    /\ UNCHANGED <<torn, refused, workVars, stray, at, saw, ownVars, closing, spoiled, limits>>

MarkFails(o) ==
    /\ Step(o, "mark", "out") /\ Fault /\ torn' = TRUE
    /\ UNCHANGED <<root, refused, workVars, stray, at, todo, saw, ownVars, closing, spoiled>>

\* cleanup_stale_chunks: an owner may recover again, its own work excepted.
RecoverAgain(o) ==
    /\ pc[o] = "idle" /\ o \notin closing /\ Listing(o) # {}
    /\ Enter(o)
    /\ UNCHANGED <<rootVars, workVars, stray, at, saw, ownVars, closing, spoiled, limits>>

-----------------------------------------------------------------------------
(* create: directory, manifest file, lease, manifest *)

Make(o, w) ==
    /\ Step(o, "idle", "lease") /\ o \notin closing /\ w \notin drawn
    /\ at' = [at EXCEPT ![o] = w]
    /\ drawn' = drawn \union {w} /\ dir' = dir \union {w}
    /\ manifest' = [manifest EXCEPT ![w] = "empty"]
    /\ UNCHANGED <<rootVars, bytes, lease, stray, todo, saw, active, held, closing, spoiled, limits>>

MakeFails(o, w) ==      \* mkdir succeeds, open does not
    /\ pc[o] = "idle" /\ o \notin closing /\ w \notin drawn /\ Fault
    /\ drawn' = drawn \union {w} /\ dir' = dir \union {w}
    /\ UNCHANGED <<rootVars, manifest, bytes, lease, stray, pc, at, todo, saw, active, held,
                   closing, spoiled>>

\* A recovery that just looks at the manifest holds the lock: create fails.
Lease(o) ==
    /\ pc[o] = "lease"
    /\ IF lease[at[o]] = Nobody
       THEN Goto(o, "fill") /\ lease' = [lease EXCEPT ![at[o]] = o]
       ELSE Goto(o, "idle") /\ UNCHANGED lease
    /\ UNCHANGED <<rootVars, dir, manifest, bytes, stray, at, todo, saw, ownVars, closing,
                   spoiled, limits>>

Fill(o) ==
    LET w == at[o] IN
    /\ Step(o, "fill", "idle")
    /\ manifest' = [manifest EXCEPT ![w] = "ours"]
    /\ active' = [active EXCEPT ![o] = @ \union {w}]
    /\ UNCHANGED <<rootVars, dir, bytes, lease, stray, at, todo, saw, drawn, held, closing,
                   spoiled, limits>>

\* The write or its fsync fails: the lease is dropped, the manifest may be there.
FillFails(o) ==
    LET w == at[o] IN
    /\ Step(o, "fill", "idle") /\ Fault
    /\ \E m \in {"empty", "ours"} : manifest' = [manifest EXCEPT ![w] = m]
    /\ lease' = [lease EXCEPT ![w] = Nobody]
    /\ spoiled' = spoiled \union {w}
    /\ UNCHANGED <<rootVars, dir, bytes, stray, at, todo, saw, ownVars, closing>>

\* Transfers write in their workspace; a published file leaves it.
Write(o, w) ==
    /\ w \in active[o] /\ w \notin held
    /\ bytes' = bytes \union ({w} \intersect dir) /\ held' = held \union {w}
    /\ UNCHANGED <<rootVars, dir, manifest, lease, stray, pc, at, todo, saw, active, drawn,
                   closing, spoiled, limits>>

Published(o, w) ==
    /\ w \in active[o] /\ w \in held
    /\ bytes' = bytes \ {w} /\ held' = held \ {w}
    /\ UNCHANGED <<rootVars, dir, manifest, lease, stray, pc, at, todo, saw, active, drawn,
                   closing, spoiled, limits>>

-----------------------------------------------------------------------------
(* _remove, of release() and of recover() *)

\* After IO, also while the owner closes: the lease goes, then _remove takes it anew.
Release(o, w) ==
    /\ Step(o, "idle", "probe") /\ w \in active[o]
    /\ active' = [active EXCEPT ![o] = @ \ {w}]
    /\ lease' = [lease EXCEPT ![w] = Nobody]
    /\ held' = held \ {w} /\ spoiled' = spoiled \ {w}
    /\ at' = [at EXCEPT ![o] = w]
    /\ UNCHANGED <<rootVars, dir, manifest, bytes, stray, todo, saw, drawn, closing, limits>>

Visit(o, w) ==
    /\ Step(o, "walk", "probe") /\ w \in todo[o]
    /\ at' = [at EXCEPT ![o] = w]
    /\ todo' = [todo EXCEPT ![o] = @ \ {w}]
    /\ spoiled' = spoiled \ {w}
    /\ UNCHANGED <<rootVars, workVars, stray, saw, ownVars, closing, limits>>

\* Variant: the manifest is read without its lock.
ProbeUnlocked(o) ==
    LET w == at[o] IN
    /\ pc[o] = "probe"
    /\ Goto(o, IF w \in dir /\ manifest[w] # "none" THEN "read" ELSE Returned(o))
    /\ UNCHANGED <<rootVars, workVars, stray, at, todo, saw, ownVars, closing, spoiled, limits>>

\* A missing manifest, a lease of somebody: preserved.
Probe(o) ==
    LET w == at[o] IN
    /\ pc[o] = "probe"
    /\ IF w \in dir /\ manifest[w] # "none" /\ lease[w] = Nobody
       THEN Goto(o, "read") /\ lease' = [lease EXCEPT ![w] = o]
       ELSE Goto(o, Returned(o)) /\ UNCHANGED lease
    /\ UNCHANGED <<rootVars, dir, manifest, bytes, stray, at, todo, saw, ownVars, closing,
                   spoiled, limits>>

\* Closing the manifest gives the lease back; then the entries are examined.
Read(o) ==
    LET w == at[o] IN
    /\ pc[o] = "read"
    /\ lease' = [lease EXCEPT ![w] = Nobody]
    /\ Goto(o, IF manifest[w] = "ours" THEN "list" ELSE Returned(o))
    /\ UNCHANGED <<rootVars, dir, manifest, bytes, stray, at, todo, saw, ownVars, closing,
                   spoiled, limits>>

List(o) ==
    LET w == at[o] IN
    /\ pc[o] = "list"
    /\ IF w \in dir /\ w \notin stray
       THEN /\ saw' = IF w \in bytes THEN saw \union {o} ELSE saw \ {o}
            /\ Goto(o, "purge")
       ELSE Goto(o, Returned(o)) /\ UNCHANGED saw
    /\ UNCHANGED <<rootVars, workVars, stray, at, todo, ownVars, closing, spoiled, limits>>

\* What another remover has already deleted raises, and ends this removal.
Purge(o) ==
    LET w == at[o] IN
    /\ pc[o] = "purge"
    /\ Goto(o, IF o \in saw /\ w \notin bytes THEN Returned(o) ELSE "unmark")
    /\ bytes' = bytes \ {w}
    /\ UNCHANGED <<rootVars, dir, manifest, lease, stray, at, todo, saw, ownVars, closing,
                   spoiled, limits>>

Unmark(o) ==
    LET w == at[o] IN
    /\ pc[o] = "unmark"
    /\ Goto(o, IF manifest[w] = "none" THEN Returned(o) ELSE "rmdir")
    /\ manifest' = [manifest EXCEPT ![w] = "none"]
    /\ UNCHANGED <<rootVars, dir, bytes, lease, stray, at, todo, saw, ownVars, closing,
                   spoiled, limits>>

Rmdir(o) ==
    LET w == at[o] IN
    /\ pc[o] = "rmdir" /\ Goto(o, Returned(o))
    /\ dir' = IF w \in stray \union bytes THEN dir ELSE dir \ {w}
    /\ UNCHANGED <<rootVars, manifest, bytes, lease, stray, at, todo, saw, ownVars, closing,
                   spoiled, limits>>

\* An operation on the workspace fails: logged, and recover() goes on.
RemoveFails(o) ==
    LET w == at[o] IN
    /\ pc[o] \in {"probe", "read", "list", "purge", "unmark", "rmdir"} /\ Fault
    /\ Goto(o, Returned(o))
    /\ lease' = [lease EXCEPT ![w] = IF @ = o THEN Nobody ELSE @]
    /\ spoiled' = spoiled \union {w}
    /\ UNCHANGED <<rootVars, dir, manifest, bytes, stray, at, todo, saw, ownVars, closing>>

-----------------------------------------------------------------------------
(* Shutdown: bounded, so that work may still be active; and the empty root *)

Close(o) ==
    /\ pc[o] # "out" /\ o \notin closing
    /\ closing' = closing \union {o}
    /\ UNCHANGED <<rootVars, workVars, stray, pc, at, todo, saw, ownVars, spoiled, limits>>

Leave(o) ==
    /\ Step(o, "idle", "out") /\ o \in closing /\ active[o] = {}
    /\ closing' = closing \ {o}
    /\ UNCHANGED <<rootVars, workVars, stray, at, todo, saw, ownVars, spoiled, limits>>

\* cleanup_empty_state, when nobody else has an operation.
Retire(o) ==
    /\ Step(o, "idle", "retire") /\ o \in closing /\ active[o] = {}
    /\ \A p \in Owner \ {o} : pc[p] \in {"out", "idle"}
    /\ root = "owned" /\ dir = {} /\ Root \notin stray
    /\ root' = "bare"
    /\ UNCHANGED <<torn, refused, workVars, stray, at, todo, saw, ownVars, closing, spoiled, limits>>

\* An entry that arrived keeps the directory, and the marker is written again.
Retired(o) ==
    /\ Step(o, "retire", "idle")
    /\ root' = IF Root \in stray \/ dir # {} THEN "owned" ELSE "absent"
    /\ UNCHANGED <<torn, refused, workVars, stray, at, todo, saw, ownVars, closing, spoiled, limits>>

RetireFails(o) ==
    /\ Step(o, "retire", "idle") /\ Fault /\ torn' = TRUE
    /\ UNCHANGED <<root, refused, workVars, stray, at, todo, saw, ownVars, closing, spoiled>>

-----------------------------------------------------------------------------
(* The world *)

StrayArrives(p) ==
    /\ Cardinality(stray) < Strays /\ p \notin stray
    /\ IF p = Root THEN root # "absent" ELSE p \in dir
    /\ stray' = stray \union {p}
    /\ UNCHANGED <<rootVars, workVars, pc, at, todo, saw, ownVars, closing, spoiled, limits>>

\* The system takes the leases of a killed process back.
Crash ==
    /\ crashes < Crashes /\ crashes' = crashes + 1 /\ UNCHANGED faults
    /\ pc' = [o \in Owner |-> "out"] /\ at' = [o \in Owner |-> Nothing]
    /\ todo' = [o \in Owner |-> {}] /\ active' = [o \in Owner |-> {}]
    /\ lease' = [w \in Work |-> Nobody]
    /\ closing' = {} /\ held' = {} /\ saw' = {}
    /\ torn' = (torn \/ root = "bare")
    /\ UNCHANGED <<root, refused, dir, manifest, bytes, stray, drawn, spoiled>>

Removal(o) ==
    Probe(o) \/ Read(o) \/ List(o) \/ Purge(o) \/ Unmark(o) \/ Rmdir(o) \/ RemoveFails(o)

Opening(o) == Open(o) \/ Mark(o) \/ MarkFails(o)

Creation(o) == Lease(o) \/ Fill(o) \/ FillFails(o)

Next ==
    \/ \E o \in Owner :
        \/ Opening(o) \/ Creation(o) \/ Removal(o) \/ RecoverAgain(o)
        \/ Close(o) \/ Leave(o) \/ Retire(o) \/ Retired(o) \/ RetireFails(o)
        \/ \E w \in Work :
            Make(o, w) \/ MakeFails(o, w) \/ Write(o, w) \/ Published(o, w)
              \/ Release(o, w) \/ Visit(o, w)
    \/ \E p \in Work \union {Root} : StrayArrives(p)
    \/ Crash

\* A thread goes on with the call it is in; that a transfer ever ends is not
\* assumed: a server may keep it waiting.
Fairness ==
    \A o \in Owner :
        /\ WF_vars(Mark(o)) /\ WF_vars(Creation(o)) /\ WF_vars(Removal(o))
        /\ WF_vars(\E w \in Work : Visit(o, w))

Spec == Init /\ [][Next]_vars /\ Fairness

-----------------------------------------------------------------------------
(* Properties *)

TypeOK ==
    /\ root \in {"absent", "bare", "owned"} /\ dir \subseteq drawn /\ bytes \subseteq dir
    /\ manifest \in [Work -> {"none", "empty", "ours"}]
    /\ lease \in [Work -> Owner \union {Nobody}]
    /\ stray \subseteq Work \union {Root} /\ drawn \subseteq Work
    /\ held \subseteq UNION {active[o] : o \in Owner}
    /\ at \in [Owner -> Work \union {Nothing}] /\ todo \in [Owner -> SUBSET Work]
    /\ crashes <= Crashes /\ faults <= Faults

\* "Current work is excluded from recovery even when a bounded shutdown leaves
\* a writer alive" (scratch.py:26, 84): what a transfer works in keeps its
\* directory, its manifest, its lease and the bytes written, whatever other
\* owners recover meanwhile.
LiveWorkKept ==
    \A o \in Owner : \A w \in active[o] :
        /\ w \in dir /\ manifest[w] = "ours" /\ lease[w] = o
        /\ w \in held => w \in bytes

\* "A manifest is written before transfer bytes" and kept "until transfer-byte
\* deletion succeeds" (scratch.py:25, 161): bytes always lie beside a readable
\* manifest, also after a kill, so that a later owner can reclaim them.
BytesHaveManifest ==
    \A w \in bytes : manifest[w] = "ours"

\* "The next owner reclaims recorded abandoned work" (USER_GUIDE.md:975): when
\* no call is in progress and an owner is in, the only recorded workspaces
\* left are in a writer's hands, hold an entry of somebody else, or had a file
\* operation fail in the last attempt.
AbandonedWorkReclaimed ==
    (\A o \in Owner : pc[o] \in {"out", "idle"}) /\ (\E o \in Owner : pc[o] = "idle") =>
        \A w \in dir : manifest[w] = "ours" =>
            w \in stray \union spoiled \union UNION {active[o] : o \in Owner}

\* _remove_empty_root (scratch.py:219-236): a root that stays keeps a valid
\* marker, also when an entry arrives between the unlink and the rmdir; only
\* a kill or a failed write in between leaves a bare one.
RootKeepsMarker ==
    root = "bare" => torn \/ \E o \in Owner : pc[o] \in {"mark", "retire"}
=============================================================================
