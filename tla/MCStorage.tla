------------------------------ MODULE MCStorage ------------------------------
(* Storage on a small instance: two owners and workspaces, two contents of  *)
(* which other programs write one, and three jobs on a disk of three blocks. *)
EXTENDS Storage, TLC

CONSTANTS o1, o2, w1, w2, a, b, j1, j2, j3

MCOwner == {o1, o2}
MCWork == {w1, w2}

\* b is a content the server has at times and other programs write at times.
MCRemote == {a, b}
MCForeign == {b}
OneSize == [c \in {a, b} |-> 1]
MCSized == [stamped |-> OneSize, hashed |-> OneSize,
            late |-> [c \in {a, b} |-> IF c = a THEN 1 ELSE 2]]
MCWritten == [stamped |-> 3, late |-> 2, hashed |-> 3]

MCJob == {j1, j2, j3}
MCHint == [j \in MCJob |-> IF j = j1 THEN 2 ELSE 0]

Alike == Permutations(MCOwner) \union Permutations(MCWork)
==============================================================================
