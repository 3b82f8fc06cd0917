----------------------------- MODULE MCTransfers -----------------------------
(* Transfers on a small instance: up to four representations of two blocks at *)
(* two URLs, of which two have equal ETags and one has none; a file of two    *)
(* chunks; and two URLs to keep and two to overwrite, one of them in chunks.  *)
EXTENDS Transfers, TLC

CONSTANTS u1, u2, v1, v2, v3, w, tagA, tagB, mine, f1, f2, OverwritingJobs

MCUrl == {u1, u2}
MCVersionUrl == [v \in Version |-> IF v = v3 THEN u2 ELSE u1]
MCTag == [v \in Version |-> CASE v = v2 -> tagB [] v = w -> NoTag [] OTHER -> tagA]
MCSize == [v \in Version |-> 2]
MCAnnounced == Version \ {w}
MCUserFile == {mine}

MCListed == [kept |-> {f1, f2}, overwritten |-> MCUrl]
MCRanged == [kept |-> {}, overwritten |-> {u2}]
MCWidth == [kept |-> 2, overwritten |-> 1]
MCListRetries == [kept |-> 1, overwritten |-> 1]
MCMeddled == [kept |-> {"between", "fetching"}, overwritten |-> {"between"}]
MCListJobs == [kept |-> 2, overwritten |-> OverwritingJobs]
MCWritten == [kept |-> 4, overwritten |-> OverwritingJobs + 1]

Alike == Permutations(MCListed["kept"])
==============================================================================
