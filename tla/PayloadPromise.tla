--------------------------- MODULE PayloadPromise ---------------------------
(***************************************************************************)
(* What the payload storage of the observability store promises a reader,  *)
(* without leases, generations, runs or processes: a payload row that is   *)
(* readable names a body that is stored, a body is dropped only when no    *)
(* readable row names it, and a row moves one way, from readable to lapsed *)
(* (its retention is over) to retired (its file key is cleared).           *)
(*                                                                         *)
(* PayloadFence implements this specification under the mapping given      *)
(* there.  An object is whatever the implementation names a body by; the   *)
(* actions quantify over the objects they change, so that the set of all   *)
(* objects may be infinite.                                                *)
(***************************************************************************)
VARIABLES
    bodies,     \* objects whose body is stored
    readable,   \* objects a row promises to a reader
    lapsed,     \* objects whose row is past its retention
    retired     \* objects whose row no longer names the body

vars == <<bodies, readable, lapsed, retired>>

Init == bodies = {} /\ readable = {} /\ lapsed = {} /\ retired = {}

Store ==
    /\ \E o \in bodies' : bodies' = bodies \cup {o}
    /\ UNCHANGED <<readable, lapsed, retired>>

(* A row is created once for an object, and only over a stored body. *)
Promise ==
    /\ \E o \in bodies \ (lapsed \cup retired) : readable' = readable \cup {o}
    /\ UNCHANGED <<bodies, lapsed, retired>>

Lapse ==
    /\ \E o \in readable : readable' = readable \ {o} /\ lapsed' = lapsed \cup {o}
    /\ UNCHANGED <<bodies, retired>>

Drop ==
    /\ \E o \in bodies \ readable : bodies' = bodies \ {o}
    /\ UNCHANGED <<readable, lapsed, retired>>

Retire ==
    /\ \E o \in lapsed : lapsed' = lapsed \ {o} /\ retired' = retired \cup {o}
    /\ UNCHANGED <<bodies, readable>>

Next == Store \/ Promise \/ Lapse \/ Drop \/ Retire

Spec == Init /\ [][Next]_vars
=============================================================================
