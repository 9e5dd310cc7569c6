-------------------------- MODULE MCPayloadQuota --------------------------
(* Two processes; the bodies o1 and o2 publish are the same, o3 is longer.  *)
EXTENDS PayloadQuota
CONSTANTS p1, p2, o1, o2, o3, short, long
Two == {p1, p2}
Three == {o1, o2, o3}
Bodies == {short, long}
Body == [o \in Three |-> IF o = o3 THEN long ELSE short]
Length == [x \in Bodies |-> IF x = long THEN 2 ELSE 1]
(* Each operation is ingested, again after a crash, by one process.         *)
Apart == [p \in Two |-> IF p = p1 THEN {o1, o3} ELSE {o2}]
(* Both processes may come to ingest every event.                           *)
Shared == [p \in Two |-> Three]
===========================================================================
