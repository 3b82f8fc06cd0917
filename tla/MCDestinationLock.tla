-------------------------- MODULE MCDestinationLock --------------------------
(* DestinationLock on small instances: a run with a mirror in it and two    *)
(* threads (m1 with parent run1), and a competing process.                  *)
EXTENDS DestinationLock

CONSTANTS p1, p2, t1, t2, t3, run1, m1, run2, top, left, right

\* left and right are directories below top.
MCPath == {top, left, right}
MCAbove == [p \in MCPath |-> IF p = top THEN {} ELSE {top}]
MCRank == [p \in MCPath |-> IF p = top THEN 0 ELSE IF p = left THEN 1 ELSE 2]

MCThreadProc == [t \in Thread |-> IF t = t3 THEN p2 ELSE p1]
MCGuardProc == [g \in Guard |-> IF g = run2 THEN p2 ELSE p1]
MCParent == [g \in Guard |-> IF g = m1 THEN run1 ELSE NoGuard]

\* A directory and its parent.
OverlapRequests == {{left}, {top}}
OneRequest == {{left}}
==============================================================================
