---------------------------- MODULE MCMirrorSync ----------------------------
(* The page of a links sideways to b, which the root does not name, so that *)
(* a directory is reached through a page that is not its parent's.          *)
EXTENDS MirrorSync

MCDir == {"root", "a", "b", "b/c"}
MCAbove == [d \in MCDir |-> IF d = "b/c" THEN {"root", "b", d} ELSE {"root", d}]
MCFile == {"b/c/g"}
MCHome == [f \in MCFile |-> "b/c"]
MCName == [x \in MCDir \union MCFile |-> x]
MCOrder == [S \in SUBSET MCDir |->
               SelectSeq(<<"root", "a", "b", "b/c">>, LAMBDA d : d \in S)]
MCPages == [d \in MCDir |-> CASE d = "root" -> {{"a"}} [] d = "a" -> {{"b"}}
                              [] d = "b" -> {{"b/c"}} [] d = "b/c" -> {{"b/c/g"}}]
=============================================================================
