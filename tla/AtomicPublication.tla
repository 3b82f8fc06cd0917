-------------------------- MODULE AtomicPublication --------------------------
(***************************************************************************)
(* What a whole-file download promises about the destination file: it      *)
(* changes only from one complete file to another, in one step. The new    *)
(* content is one representation the server offered, never a mix of two    *)
(* and never a cut one (a body whose length was not announced excepted),   *)
(* and it never replaces what somebody else put there after the download   *)
(* looked at the destination.                                              *)
(***************************************************************************)
EXTENDS Naturals, Sequences

CONSTANTS
    Version,        \* the representations that exist in the servers' history
    Size,           \* Size[v]: blocks of v
    Announced,      \* versions served with a Content-Length
    UserFile,       \* what other programs put at the destination
    NoFile

VARIABLES
    dest,           \* the destination: NoFile, a user's file, or blocks
    offered,        \* versions some server has offered so far
    seen            \* what the current download found at the destination

vars == <<dest, offered, seen>>

Blocks(v, n) == [i \in 1..n |-> v]
Whole(v) == Blocks(v, Size[v])
Publishable(v) == {Whole(v)} \union
                  (IF v \in Announced THEN {} ELSE {Blocks(v, n) : n \in 0..Size[v]})

Init ==
    /\ dest \in UserFile \union {NoFile}
    /\ offered \subseteq Version
    /\ seen = dest

Offer(v) ==
    /\ offered' = offered \union {v}
    /\ UNCHANGED <<dest, seen>>

Look ==
    /\ seen' = dest
    /\ UNCHANGED <<dest, offered>>

Publish(v) ==
    /\ v \in offered
    /\ dest = seen
    /\ dest' \in Publishable(v)
    /\ UNCHANGED <<offered, seen>>

UserEdit(file) ==
    /\ dest' = file
    /\ UNCHANGED <<offered, seen>>

Next ==
    \/ \E v \in Version : Offer(v) \/ Publish(v)
    \/ Look
    \/ \E file \in UserFile \union {NoFile} : UserEdit(file)

Spec == Init /\ [][Next]_vars
=============================================================================
