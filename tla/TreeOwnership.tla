---------------------------- MODULE TreeOwnership ----------------------------
(***************************************************************************)
(* What destination_lock.py promises to the rest of the program, without   *)
(* lock files, mutexes or lease counters: an owner (one run, or one mirror *)
(* used without a run) holds directory trees; two owners never hold trees  *)
(* one of which contains the other; a tree is given back only when none of *)
(* the owner's workers writes in it; and only the owner's workers write.   *)
(* A killed process gives everything back at once, with its writers.       *)
(***************************************************************************)
CONSTANTS
    Owner,      \* the guards that hold lock files
    Worker,     \* the threads that write
    Path,       \* the resolved, normalised directory names
    Above,      \* Above[p]: the proper ancestors of p
    NoPath      \* "this worker is not writing"

VARIABLES
    owned,      \* owned[o]: the trees o has reserved
    writes      \* writes[w]: <<owner, tree>> w is writing in, or NoPath

vars == <<owned, writes>>

Overlap(p, q) == p = q \/ p \in Above[q] \/ q \in Above[p]

WritesIn(o, p) == \E w \in Worker : writes[w] = <<o, p>>

Init ==
    /\ owned = [o \in Owner |-> {}]
    /\ writes = [w \in Worker |-> NoPath]

Claim(o, p) ==
    /\ \A other \in Owner \ {o} : \A q \in owned[other] : ~Overlap(p, q)
    /\ owned' = [owned EXCEPT ![o] = @ \union {p}]
    /\ UNCHANGED writes

\* A failed reservation or the owner's last leave gives trees back.
GiveBack(o, trees) ==
    /\ trees \subseteq owned[o]
    /\ \A p \in trees : ~WritesIn(o, p)
    /\ owned' = [owned EXCEPT ![o] = @ \ trees]
    /\ UNCHANGED writes

StartWrite(w, o, p) ==
    /\ writes[w] = NoPath
    /\ p \in owned[o]
    /\ writes' = [writes EXCEPT ![w] = <<o, p>>]
    /\ UNCHANGED owned

StopWrite(w) ==
    /\ writes[w] # NoPath
    /\ writes' = [writes EXCEPT ![w] = NoPath]
    /\ UNCHANGED owned

\* The kernel drops the locks of a dead process; its threads die with it.
Die(owners, workers) ==
    /\ \A w \in Worker : \A o \in owners, p \in Path :
          writes[w] = <<o, p>> => w \in workers
    /\ owned' = [o \in Owner |-> IF o \in owners THEN {} ELSE owned[o]]
    /\ writes' = [w \in Worker |-> IF w \in workers THEN NoPath ELSE writes[w]]

Next ==
    \/ \E o \in Owner, p \in Path : Claim(o, p)
    \/ \E o \in Owner, trees \in SUBSET Path : GiveBack(o, trees)
    \/ \E w \in Worker, o \in Owner, p \in Path : StartWrite(w, o, p)
    \/ \E w \in Worker : StopWrite(w)
    \/ \E owners \in SUBSET Owner, workers \in SUBSET Worker : Die(owners, workers)

Spec == Init /\ [][Next]_vars
=============================================================================
