---------------------------- MODULE PayloadQuota ----------------------------
(***************************************************************************)
(* The logical byte budget of payload bodies, and the publication it gates:*)
(*   call-observability-payload-quota.ts                reserve, settle    *)
(*   call-observability-payload-publication-intent.ts   reserve            *)
(*   call-observability.store.ts                        the quota callbacks*)
(*   call-observability-payload.store.ts                prepare, publish   *)
(*   call-observability-payload-recovery-hold.ts        hold               *)
(*                                                                         *)
(* A process publishes one body at a time (its lane is serial), so the     *)
(* actors are processes.  A reservation and a settlement are transactions, *)
(* everything between them is file I/O of one process while others go on.  *)
(* The state starts where the baseline has been confirmed, and stays in one*)
(* storage generation: collection moves on to another one, whose           *)
(* operations are different.  A batch is taken to hold one body.           *)
(*                                                                         *)
(* An operation is one event publishing one payload (operationId); the     *)
(* payload names the final path, the operation the temporary one.  A       *)
(* temporary counts with its full size, a partial write is shorter.        *)
(*                                                                         *)
(* Operators that precede a definition and that nothing uses are slips of  *)
(* that definition: substituted for it, each makes a property fail.        *)
(***************************************************************************)
EXTENDS Integers, FiniteSets, FiniteSetsExt

CONSTANTS
    Procs,      \* processes that ingest bodies into one payload root
    Ops,        \* publication operations
    Payloads,   \* payload ids
    PayloadOf,  \* the payload an operation publishes
    Size,       \* storedBytes of a payload
    Feeds,      \* operations a process may come to ingest
    Quota, High, Low,   \* quotaBytes and the watermarks
    Baseline,   \* bytes the confirmed inventory found
    MaxFaults   \* bound: crashes, lapsed leases, failed writes and transactions

ASSUME QuotaAssumption ==
    /\ Ops # {}
    /\ PayloadOf \in [Ops -> Payloads]
    /\ Size \in [Payloads -> Nat \ {0}]
    /\ Feeds \in [Procs -> SUBSET Ops]
    /\ Quota \in Nat /\ High \in Nat /\ Low \in Nat /\ Baseline \in Nat
    /\ Low < High /\ High < Quota
    /\ MaxFaults \in Nat

VARIABLES
    ledger,     \* the ledger row
    res,        \* reservation rows, by operation
    final,      \* payloads whose final path exists
    temps,      \* operations whose temporary path exists
    rows,       \* payloads with a committed captured row
    job,        \* what a process is publishing, and how far it is
    lease,      \* the process holds a live writer lease
    faults      \* bound: faults so far

vars == <<ledger, res, final, temps, rows, job, lease, faults>>

LedgerStates == {"ready", "limited", "degraded"}
ReservationStates == {"none", "reserved", "uncertain", "settled"}
Steps == {"idle", "verify", "look", "open", "link", "unlink", "settle", "unknown", "commit"}

B(o) == Size[PayloadOf[o]]
Total(l) == l.committed + l.reserved

(* Typing: ledger and reservations keep the fields their validation asks for; *)
(* no settlement takes the reserved bytes below zero.                         *)
TypeOK ==
    /\ ledger \in [state : LedgerStates, committed : Nat, reserved : Nat]
    /\ res \in [Ops -> [state : ReservationStates, committed : Nat]]
    /\ final \subseteq Payloads /\ temps \subseteq Ops /\ rows \subseteq Payloads
    /\ job \in [Procs -> [step : Steps, op : Ops, replayed : BOOLEAN,
                          created : BOOLEAN, failed : BOOLEAN]]
    /\ lease \in [Procs -> BOOLEAN]
    /\ faults \in Nat

(* state(): degraded stays until settle lifts it, limited until the low mark. *)
StateFor(state, total) ==
    IF state = "degraded" THEN "degraded"
    ELSE IF total >= High \/ (state = "limited" /\ total > Low) THEN "limited" ELSE "ready"

Init ==
    /\ ledger = [state |-> StateFor("ready", Baseline), committed |-> Baseline, reserved |-> 0]
    /\ res = [o \in Ops |-> [state |-> "none", committed |-> 0]]
    /\ final = {} /\ temps = {} /\ rows = {}
    /\ job = [p \in Procs |-> [step |-> "idle", op |-> CHOOSE o \in Ops : TRUE,
                              replayed |-> FALSE, created |-> FALSE, failed |-> FALSE]]
    /\ lease = [p \in Procs |-> FALSE]
    /\ faults = 0

At(p, step) == job[p].step = step
Goto(p, step) == job' = [job EXCEPT ![p].step = step]
Fault == faults < MaxFaults /\ faults' = faults + 1

-----------------------------------------------------------------------------
(* The transactions on the ledger. *)

AdmitsOneCopy(o) ==
    ledger.state = "ready" /\ Total(ledger) < High /\ Total(ledger) + B(o) <= Quota
Admits(o) ==
    /\ ledger.state = "ready"
    /\ Total(ledger) < High
    /\ Total(ledger) + 2 * B(o) <= Quota

Reserved(o) ==
    [state |-> StateFor(ledger.state, Total(ledger) + 2 * B(o)),
     committed |-> ledger.committed, reserved |-> ledger.reserved + 2 * B(o)]

(* A process takes the writer lease and reserves 2B for a new operation; a    *)
(* replay finds the reservation of the operation as it is.  Refused bodies    *)
(* and pending ones are omitted and change nothing here.                      *)
Begin(p, o, replayed, step) ==
    /\ At(p, "idle") /\ o \in Feeds[p]
    /\ lease' = [lease EXCEPT ![p] = TRUE]
    /\ job' = [job EXCEPT ![p] = [step |-> step, op |-> o, replayed |-> replayed,
                                  created |-> FALSE, failed |-> FALSE]]
    /\ UNCHANGED <<final, temps, rows, faults>>

Reserve(p, o) ==
    /\ res[o].state = "none" /\ Admits(o)
    /\ ledger' = Reserved(o)
    /\ res' = [res EXCEPT ![o].state = "reserved"]
    /\ Begin(p, o, FALSE, "open")

ReplayReserved(p, o) ==
    /\ res[o].state = "reserved"
    /\ Begin(p, o, TRUE, "look")
    /\ UNCHANGED <<ledger, res>>

ReplaySettled(p, o) ==
    /\ res[o].state = "settled"
    /\ Begin(p, o, TRUE, "verify")
    /\ UNCHANGED <<ledger, res>>

(* settle: a confirmed result returns the reservation and charges what the    *)
(* publication created; degraded is lifted with the last uncertain operation. *)
OthersCertain(o) == \A q \in Ops \ {o} : res[q].state # "uncertain"

Settled(o, bytes) ==
    LET total == Total(ledger) - 2 * B(o) + bytes
        state == IF ledger.state = "degraded" /\ OthersCertain(o) THEN "limited" ELSE ledger.state
    IN [state |-> StateFor(state, total), committed |-> ledger.committed + bytes,
        reserved |-> ledger.reserved - 2 * B(o)]

Unsettled(o) == res[o].state \in {"reserved", "uncertain"}

Charge(p) == IF job[p].created THEN B(job[p].op) ELSE 0

SettleConfirmed(p) ==
    LET o == job[p].op IN
    /\ At(p, "settle")
    /\ IF lease[p] /\ Unsettled(o) /\ ledger.reserved >= 2 * B(o)
       THEN /\ ledger' = Settled(o, Charge(p))
            /\ res' = [res EXCEPT ![o] = [state |-> "settled", committed |-> Charge(p)]]
            /\ Goto(p, "commit")
       ELSE /\ Goto(p, "unknown")
            /\ UNCHANGED <<ledger, res>>
    /\ UNCHANGED <<final, temps, rows, lease, faults>>

Uncertain(o) ==
    /\ ledger' = [ledger EXCEPT !.state = "degraded"]
    /\ res' = [res EXCEPT ![o].state = "uncertain"]

(* settle({reason: 'unknown'}), whose own failure is swallowed: the body is   *)
(* omitted either way.                                                        *)
SettleUnknown(p) ==
    LET o == job[p].op IN
    /\ At(p, "unknown")
    /\ IF lease[p] /\ res[o].state = "reserved" THEN Uncertain(o) ELSE UNCHANGED <<ledger, res>>
    /\ Goto(p, "idle")
    /\ UNCHANGED <<final, temps, rows, lease, faults>>

(* A settlement whose transaction fails: unknown is tried, then given up.     *)
SettleFails(p) ==
    /\ job[p].step \in {"settle", "unknown"}
    /\ Fault
    /\ Goto(p, IF At(p, "settle") THEN "unknown" ELSE "idle")
    /\ UNCHANGED <<ledger, res, final, temps, rows, lease>>

-----------------------------------------------------------------------------
(* File I/O of one publication. *)

VerifyExisting(p) ==
    /\ At(p, "verify")
    /\ Goto(p, IF PayloadOf[job[p].op] \in final THEN "commit" ELSE "idle")
    /\ UNCHANGED <<ledger, res, final, temps, rows, lease, faults>>

LookForFinal(p) ==
    /\ At(p, "look")
    /\ Goto(p, IF PayloadOf[job[p].op] \in final THEN "unknown" ELSE "open")
    /\ UNCHANGED <<ledger, res, final, temps, rows, lease, faults>>

(* open(temporary, 'wx'): a temporary left behind stops the publication. *)
OpenTemporary(p) ==
    LET o == job[p].op IN
    /\ At(p, "open")
    /\ IF o \in temps THEN Goto(p, "unknown") /\ UNCHANGED temps
                      ELSE Goto(p, "link") /\ temps' = temps \cup {o}
    /\ UNCHANGED <<ledger, res, final, rows, lease, faults>>

(* link(temporary, final): EEXIST means that the body is there already. *)
Link(p) ==
    LET b == PayloadOf[job[p].op] IN
    /\ At(p, "link")
    /\ final' = final \cup {b}
    /\ \/ job' = [job EXCEPT ![p].step = "unlink", ![p].created = b \notin final]
          /\ UNCHANGED faults
       \/ /\ Fault      \* the directory does not sync
          /\ job' = [job EXCEPT ![p].step = "unlink", ![p].created = b \notin final,
                                ![p].failed = TRUE]
    /\ UNCHANGED <<ledger, res, temps, rows, lease>>

WriteErrorLost(p) ==
    /\ At(p, "link") /\ Fault /\ Goto(p, "unlink")
    /\ UNCHANGED <<ledger, res, final, temps, rows, lease>>
WriteFails(p) ==
    /\ At(p, "link")
    /\ Fault
    /\ job' = [job EXCEPT ![p].step = "unlink", ![p].failed = TRUE]
    /\ UNCHANGED <<ledger, res, final, temps, rows, lease>>

(* The final file cannot be read, or the temporary not be opened. *)
OpenFails(p) ==
    /\ job[p].step \in {"look", "open"}
    /\ Fault
    /\ Goto(p, "unknown")
    /\ UNCHANGED <<ledger, res, final, temps, rows, lease>>

(* unlink(temporary); only a body whose temporary is gone is confirmed, and   *)
(* a replay never confirms one.                                               *)
ConfirmsAnyway(p, absent) == ~job[p].failed
Confirms(p, absent) == absent /\ ~job[p].failed /\ ~job[p].replayed

UnlinkTemporary(p) ==
    /\ At(p, "unlink")
    /\ \/ /\ temps' = temps \ {job[p].op}
          /\ Goto(p, IF Confirms(p, TRUE) THEN "settle" ELSE "unknown")
          /\ UNCHANGED faults
       \/ /\ Fault
          /\ Goto(p, IF Confirms(p, FALSE) THEN "settle" ELSE "unknown")
          /\ UNCHANGED temps
    /\ UNCHANGED <<ledger, res, final, rows, lease>>

(* The fact transaction of the batch: without the lease, or for an event that *)
(* has its receipt, it inserts nothing.                                       *)
CommitRow(p) ==
    /\ At(p, "commit")
    /\ rows' = rows \/ (lease[p] /\ rows' = rows \cup {PayloadOf[job[p].op]})
    /\ lease' = [lease EXCEPT ![p] = FALSE]
    /\ Goto(p, "idle")
    /\ UNCHANGED <<ledger, res, final, temps, faults>>

-----------------------------------------------------------------------------
(* Faults and recovery. *)

(* The process dies; what it has on disk and its lease stay. *)
Crash(p) ==
    /\ ~At(p, "idle")
    /\ Fault
    /\ Goto(p, "idle")
    /\ UNCHANGED <<ledger, res, final, temps, rows, lease>>

(* A lease runs out under a process that stalls or is dead, or an idle one    *)
(* releases it.                                                               *)
LeaseLapses(p) ==
    /\ lease[p]
    /\ lease' = [lease EXCEPT ![p] = FALSE]
    /\ IF At(p, "idle") THEN UNCHANGED faults ELSE Fault
    /\ UNCHANGED <<ledger, res, final, temps, rows, job>>

(* hold(): under the inventory fence, which excludes live writers.  It never  *)
(* releases bytes.                                                            *)
Hold(o) ==
    /\ \A p \in Procs : ~lease[p]
    /\ res[o].state = "reserved" /\ ledger.reserved >= 2 * B(o)
    /\ Uncertain(o)
    /\ UNCHANGED <<final, temps, rows, job, lease, faults>>

-----------------------------------------------------------------------------
ProcStep(p) ==
    \/ \E o \in Ops : Reserve(p, o) \/ ReplayReserved(p, o) \/ ReplaySettled(p, o)
    \/ VerifyExisting(p) \/ LookForFinal(p) \/ OpenTemporary(p) \/ Link(p) \/ UnlinkTemporary(p)
    \/ SettleConfirmed(p) \/ SettleUnknown(p) \/ CommitRow(p)

Next ==
    \/ \E p \in Procs :
          \/ ProcStep(p) \/ SettleFails(p) \/ OpenFails(p) \/ WriteFails(p)
          \/ Crash(p) \/ LeaseLapses(p)
    \/ \E o \in Ops : Hold(o)

Spec == Init /\ [][Next]_vars

-----------------------------------------------------------------------------
(* Properties. *)

OnDisk == Baseline + MapThenSumSet(LAMBDA b : Size[b], final) + MapThenSumSet(B, temps)

(* Every byte on disk is charged or reserved: final paths and temporaries     *)
(* that crashes, lapsed leases and failed settlements leave behind included.  *)
OccupancyCovered == OnDisk <= Total(ledger)

(* A file that exists stays charged: its final path is covered by a           *)
(* reservation that is not settled, or by a settlement that charged it.       *)
FinalCharged ==
    \A b \in final : \E o \in Ops :
        PayloadOf[o] = b /\ (Unsettled(o) \/ res[o].committed > 0)

(* The budget never exceeds the quota, or the inventory if that was more.     *)
BudgetHeld == Total(ledger) <= IF Baseline > Quota THEN Baseline ELSE Quota

(* While the outcome of any operation is unknown the ledger is degraded, so   *)
(* that nothing new is admitted on top of it; settling another operation does *)
(* not lift this.                                                             *)
UncertainDegrades == (\E o \in Ops : res[o].state = "uncertain") => ledger.state = "degraded"

(* A captured row always has its file, and so has a settled operation.        *)
CapturedHasFile ==
    /\ rows \subseteq final
    /\ \A o \in Ops : res[o].state = "settled" => PayloadOf[o] \in final
=============================================================================
