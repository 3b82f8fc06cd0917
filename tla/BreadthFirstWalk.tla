--------------------------- MODULE BreadthFirstWalk ---------------------------
(***************************************************************************)
(* What directory discovery promises: the directories are visited one      *)
(* after the other in breadth-first order, each at most once, none deeper  *)
(* than the limit, whatever the order in which their pages were fetched    *)
(* ("consume it in deterministic BFS order"). A visit names some set of    *)
(* directories, which are put at the end of the queue in page order; the   *)
(* directory is found, or set aside as protected.                          *)
(***************************************************************************)
EXTENDS Naturals, Sequences

CONSTANTS Dir, Root, MaxDepth, InPageOrder(_)

VARIABLES queue, processed, found, protected

vars == <<queue, processed, found, protected>>

Init == queue = <<>> /\ processed = {} /\ found = <<>> /\ protected = {}

Begin ==
    /\ queue = <<>>
    /\ queue' \in {<<>>, <<[dir |-> Root, depth |-> 0]>>}
    /\ processed' = {} /\ found' = <<>>
    /\ protected' \subseteq {Root}

Drop ==
    /\ queue # <<>>
    /\ Head(queue).dir \in processed \/ Head(queue).depth > MaxDepth
    /\ queue' = Tail(queue)
    /\ UNCHANGED <<processed, found, protected>>

Visit ==
    /\ queue # <<>>
    /\ LET d == Head(queue).dir
           k == Head(queue).depth
       IN  /\ d \notin processed /\ k <= MaxDepth
           /\ processed' = processed \union {d}
           /\ \/ \E children \in SUBSET (Dir \ processed') :
                    /\ k = MaxDepth => children = {}
                    /\ queue' = Tail(queue) \o
                                [i \in 1..Len(InPageOrder(children)) |->
                                    [dir |-> InPageOrder(children)[i], depth |-> k + 1]]
                    /\ found' = Append(found, d)
                    /\ UNCHANGED protected
              \/ /\ queue' = Tail(queue)
                 /\ protected' = protected \union {d}
                 /\ UNCHANGED found

GiveUp == queue' = <<>> /\ UNCHANGED <<processed, found, protected>>

Next == Begin \/ Drop \/ Visit \/ GiveUp

Spec == Init /\ [][Next]_vars
=============================================================================
