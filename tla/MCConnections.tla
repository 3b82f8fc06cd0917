---------------------------- MODULE MCConnections ----------------------------
(* Connections on a small instance: two threads and processes, three        *)
(* callers and checks, three origins.                                       *)
EXTENDS Connections, TLC

CONSTANTS t1, t2, t3, o1, o2, o3

Two == {t1, t2}
Three == {t1, t2, t3}
MCOrigin == {o1, o2, o3}
MCHost == {o1, o2}
MCAddress == {o1}

MCCalls == [held |-> 5, reserved |-> 5, spent |-> 4]
MCUntil == [held |-> 14, reserved |-> 17, spent |-> 15]

Alike == Permutations(Two)
==============================================================================
