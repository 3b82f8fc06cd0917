----------------------------- MODULE MCMirroring -----------------------------
(***************************************************************************)
(* Mirroring on small instances: runs with the policies delete and move,   *)
(* as a dry run and as a survey of links; a parallel walk and a walk with  *)
(* links; checks adaptive and plain; and, to follow them to their end, a   *)
(* run with clashing names, a walk through links in circles, and checks    *)
(* without deadlines.                                                      *)
(***************************************************************************)
EXTENDS Mirroring, SequencesExt

InOrder(sequence) ==
    [S \in SUBSET ToSet(sequence) |-> SelectSeq(sequence, LAMBDA d : d \in S)]

(* A tree with two branches. The page of a names a file or a subdirectory. *)

TreeDir == {"root", "a", "b", "a/c"}
TreeAbove == [d \in TreeDir |-> IF d = "a/c" THEN {"root", "a", d} ELSE {"root", d}]
TreeFile == {"a/f", "a/h", "b/f", "a/c/g"}
TreeHome == [f \in TreeFile |->
                CASE f \in {"a/f", "a/h"} -> "a" [] f = "b/f" -> "b" [] f = "a/c/g" -> "a/c"]
\* a/f and b/f have the same name, so that a and b may look alike.
TreeName == [x \in TreeDir \union TreeFile |->
                CASE x \in {"a/f", "b/f"} -> "f" [] x = "a/c" -> "c" [] OTHER -> x]
TreePages == [d \in TreeDir |-> CASE d = "root" -> {{"a", "b"}, {"a"}}
                                  [] d = "a" -> {{"a/f"}, {"a/c", "a/h"}}
                                  [] d = "b" -> {{"b/f"}}
                                  [] d = "a/c" -> {{"a/c/g"}}]
UnfilteredPages == [d \in TreeDir |-> CASE d = "root" -> {{"a", "b"}}
                                        [] d = "a" -> {{"a/h"}, {"a/c"}}
                                        [] d = "b" -> {{"b/f"}}
                                        [] d = "a/c" -> {{"a/c/g"}}]

Deleting ==
    [Dir |-> TreeDir, File |-> TreeFile, Root |-> "root", Above |-> TreeAbove, Home |-> TreeHome,
     Name |-> TreeName, DirOrder |-> InOrder(<<"root", "b", "a", "a/c">>), Pages |-> TreePages,
     Excluded |-> {}, MaxDepth |-> 2, Workers |-> 1, LinkMode |-> "skip", MaxLinks |-> 1,
     Caching |-> FALSE, Filtered |-> {}, Clashing |-> {}, Policy |-> "delete", DryRun |-> FALSE,
     Method |-> "pool", MaxParallel |-> 2]

Moving == [Deleting EXCEPT
    !.Pages = UnfilteredPages, !.Excluded = {"b"}, !.MaxDepth = 1, !.LinkMode = "off",
    !.Filtered = {"a/f"}, !.Policy = "move", !.Method = "sequential"]

FewDir == {"root", "a", "b"}
FewFile == {"a/f", "a/h", "b/f"}
Few == [Deleting EXCEPT
    !.Dir = FewDir, !.File = FewFile, !.LinkMode = "off", !.DirOrder = InOrder(<<"root", "b", "a">>),
    !.Above = [d \in FewDir |-> TreeAbove[d]], !.Home = [f \in FewFile |-> TreeHome[f]],
    !.Pages = [d \in FewDir |-> CASE d = "root" -> {{"a", "b"}, {"a"}}
                                  [] d = "a" -> {{"a/f"}, {"a/h"}} [] d = "b" -> {{"b/f"}}]]

\* a and b may name files that clash.
Syncing == [Few EXCEPT
    !.MaxDepth = 1, !.Clashing = {{"a/f", "b/f"}},
    !.Name = [x \in FewDir \union FewFile |-> x],
    !.Pages = [d \in FewDir |-> CASE d = "root" -> {{"a", "b"}, {"a"}}
                                  [] d = "a" -> {{"a/f", "a/h"}} [] d = "b" -> {{"b/f"}}]]

\* Links in circles: the page of b names its own parent.
Walking == [Few EXCEPT
    !.File = {}, !.Home = <<>>, !.Name = [d \in FewDir |-> d], !.Workers = 2,
    !.LinkMode = "follow", !.Caching = TRUE, !.Policy = "safe",
    !.Pages = [d \in FewDir |-> CASE d = "root" -> {{"a", "b"}} [] d = "a" -> {{}, {"b"}}
                                  [] d = "b" -> {{"root", "a"}}]]

(* A chain of subdirectories a, b, c, to which other pages link as well;   *)
(* pages also link upwards and sideways, and those of twins look alike.    *)

ChainDir == {"root", "a", "b", "c"}
ChainFile == {"a/f", "c/f"}
Parallel == [Deleting EXCEPT
    !.Dir = ChainDir, !.File = ChainFile, !.MaxDepth = 3, !.Workers = 2, !.LinkMode = "off",
    !.Policy = "safe", !.DirOrder = InOrder(<<"root", "a", "b", "c">>),
    !.Above = [d \in ChainDir |-> CASE d = "root" -> {"root"} [] d = "a" -> {"root", "a"}
                                    [] d = "b" -> {"root", "a", "b"} [] d = "c" -> ChainDir],
    !.Home = [f \in ChainFile |-> IF f = "a/f" THEN "a" ELSE "c"],
    !.Name = [x \in ChainDir \union ChainFile |-> IF x \in ChainFile THEN "f" ELSE x],
    !.Pages = [d \in ChainDir |-> CASE d = "root" -> {{"a", "b"}, {"b"}}
                                    [] d = "a" -> {{"c", "a/f"}, {"root", "b", "c"}}
                                    [] d = "b" -> {{"c"}}
                                    [] d = "c" -> {{"c/f"}, {"a"}}]]

Twins == [Parallel EXCEPT
    !.MaxDepth = 2, !.Workers = 1, !.LinkMode = "skip", !.Caching = TRUE,
    !.Pages = [d \in ChainDir |-> CASE d = "root" -> {{"a", "b"}}
                                    [] d = "c" -> {{"c/f"}}
                                    [] OTHER -> {{"c"}}]]

MCSetting ==
    [deleting |-> Deleting, moving |-> Moving, dry |-> [Few EXCEPT !.DryRun = TRUE],
     survey |-> [Few EXCEPT !.LinkMode = "detect"], syncing |-> Syncing,
     parallel |-> Parallel, twins |-> Twins, walking |-> Walking]

(* Checks of three files in batches of two. *)

Scaling ==
    [Files |-> 3, BatchSize |-> 2, Absent |-> {}, Unasked |-> {1}, Adaptive |-> TRUE,
     Deadlines |-> TRUE, Retries |-> 1, StartAt |-> 2, MaxAt |-> 3, Threads |-> 1,
     Outages |-> 1, FailureThreshold |-> 2, HalfOpenLimit |-> 2]

MCHeadSetting ==
    [scaling |-> Scaling,
     plain |-> [Scaling EXCEPT !.Absent = {3}, !.Unasked = {}, !.Adaptive = FALSE,
                               !.StartAt = 1, !.MaxAt = 1, !.Outages = 3],
     checking |-> [Scaling EXCEPT !.Unasked = {}, !.Deadlines = FALSE, !.StartAt = 1,
                                  !.MaxAt = 2]]
=============================================================================
