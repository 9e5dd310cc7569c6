------------------------- MODULE PayloadQuota_proofs -------------------------
(***************************************************************************)
(* What holds of the payload budget for every set of processes, operations *)
(* and payloads, every quota and every number of faults, also when several *)
(* processes publish the same operation.  Only what the charges say of the *)
(* files on disk needs each operation to be ingested by one process.       *)
(***************************************************************************)
EXTENDS PayloadQuota, FiniteSetTheorems, WellFoundedInduction, TLAPS

Job == [step : Steps, op : Ops, replayed : BOOLEAN, created : BOOLEAN, failed : BOOLEAN]
LedgerRow == [state : LedgerStates, committed : Nat, reserved : Nat]
ReservationRow == [state : ReservationStates, committed : Nat]

-----------------------------------------------------------------------------
(* Updates of the rows keep their types. *)

LEMMA StateForTyped ==
    ASSUME NEW s \in LedgerStates, NEW n
    PROVE  StateFor(s, n) \in LedgerStates
BY DEF StateFor, LedgerStates

LEMMA SizeOf == ASSUME NEW o \in Ops PROVE B(o) \in Nat /\ B(o) > 0
BY QuotaAssumption DEF B

LEMMA StepTyped ==
    ASSUME job \in [Procs -> Job], NEW p \in Procs, NEW s \in Steps,
           job' = [job EXCEPT ![p].step = s]
    PROVE  job' \in [Procs -> Job]
<1> DEFINE r == [job[p] EXCEPT !.step = s]
<1>1. r \in Job
  BY DEF Job
<1>2. job' = [job EXCEPT ![p] = r]
  OBVIOUS
<1> QED BY <1>1, <1>2

LEMMA ResStateTyped ==
    ASSUME res \in [Ops -> ReservationRow], NEW o \in Ops, NEW s \in ReservationStates,
           res' = [res EXCEPT ![o].state = s]
    PROVE  /\ res' \in [Ops -> ReservationRow]
           /\ res'[o].state = s
           /\ \A q \in Ops \ {o} : res'[q] = res[q]
<1> DEFINE r == [res[o] EXCEPT !.state = s]
<1>1. r \in ReservationRow /\ r.state = s
  BY DEF ReservationRow
<1>2. res' = [res EXCEPT ![o] = r]
  OBVIOUS
<1> QED BY <1>1, <1>2

-----------------------------------------------------------------------------
(* Type correctness *)

LEMMA InitTyped == Init => TypeOK
<1> SUFFICES ASSUME Init PROVE TypeOK
  OBVIOUS
<1>1. ledger \in LedgerRow
  BY StateForTyped, QuotaAssumption DEF Init, LedgerRow, LedgerStates
<1>2. (CHOOSE o \in Ops : TRUE) \in Ops
  BY QuotaAssumption
<1>3. job \in [Procs -> Job]
  BY <1>2 DEF Init, Job, Steps
<1> QED BY <1>1, <1>3 DEF Init, TypeOK, LedgerRow, Job, ReservationStates

LEMMA BeginTyped ==
    ASSUME TypeOK, NEW p \in Procs, NEW o \in Ops, NEW replayed \in BOOLEAN,
           NEW step \in Steps, Begin(p, o, replayed, step)
    PROVE  /\ job' \in [Procs -> Job] /\ lease' \in [Procs -> BOOLEAN]
           /\ job'[p] = [step |-> step, op |-> o, replayed |-> replayed,
                         created |-> FALSE, failed |-> FALSE]
           /\ \A q \in Procs \ {p} : job'[q] = job[q]
<1> DEFINE r == [step |-> step, op |-> o, replayed |-> replayed,
                 created |-> FALSE, failed |-> FALSE]
<1>1. r \in Job
  BY DEF Job
<1>2. job \in [Procs -> Job] /\ job' = [job EXCEPT ![p] = r]
  BY DEF TypeOK, Begin, Job
<1>3. lease' \in [Procs -> BOOLEAN]
  BY DEF TypeOK, Begin
<1> QED BY <1>1, <1>2, <1>3

LEMMA SettledTyped ==
    ASSUME TypeOK, NEW o \in Ops, NEW bytes \in Nat, bytes <= B(o), ledger.reserved >= 2 * B(o)
    PROVE  Settled(o, bytes) \in LedgerRow /\ Total(Settled(o, bytes)) <= Total(ledger)
<1>1. B(o) \in Nat
  BY SizeOf
<1>2. ledger.state \in LedgerStates /\ ledger.committed \in Nat /\ ledger.reserved \in Nat
  BY DEF TypeOK
<1>3. ledger.reserved - 2 * B(o) \in Nat /\ ledger.committed + bytes \in Nat
  BY <1>1, <1>2
<1> DEFINE state == IF ledger.state = "degraded" /\ OthersCertain(o) THEN "limited" ELSE ledger.state
           total == Total(ledger) - 2 * B(o) + bytes
<1>4. state \in LedgerStates
  BY <1>2 DEF LedgerStates
<1>5. StateFor(state, total) \in LedgerStates
  BY <1>4, StateForTyped
<1>6. Settled(o, bytes) = [state |-> StateFor(state, total), committed |-> ledger.committed + bytes,
                           reserved |-> ledger.reserved - 2 * B(o)]
  BY DEF Settled
<1> HIDE DEF state, total
<1>7. Settled(o, bytes) \in LedgerRow
  BY <1>3, <1>5, <1>6 DEF LedgerRow
<1>8. Total(Settled(o, bytes)) = ledger.committed + bytes + (ledger.reserved - 2 * B(o))
  BY <1>6 DEF Total
<1>9. Total(Settled(o, bytes)) <= Total(ledger)
  BY <1>1, <1>2, <1>8 DEF Total
<1> QED BY <1>7, <1>9

LEMMA ChargeBound ==
    ASSUME TypeOK, NEW p \in Procs
    PROVE  Charge(p) \in Nat /\ Charge(p) <= B(job[p].op)
<1>1. job[p].op \in Ops
  BY DEF TypeOK
<1> QED BY <1>1, SizeOf DEF Charge

LEMMA NextTyped == TypeOK /\ [Next]_vars => TypeOK'
<1> SUFFICES ASSUME TypeOK, [Next]_vars PROVE TypeOK'
  OBVIOUS
<1> DEFINE Rest == /\ final' \subseteq Payloads /\ temps' \subseteq Ops /\ rows' \subseteq Payloads
                   /\ lease' \in [Procs -> BOOLEAN] /\ faults' \in Nat
           Ledgers == ledger' \in LedgerRow /\ res' \in [Ops -> ReservationRow]
           Jobs == job' \in [Procs -> Job]
<1>0. /\ job \in [Procs -> Job] /\ ledger \in LedgerRow /\ res \in [Ops -> ReservationRow]
      /\ \A p \in Procs : job[p].op \in Ops /\ PayloadOf[job[p].op] \in Payloads
  BY QuotaAssumption DEF TypeOK, Job, LedgerRow, ReservationRow
<1>q. Rest /\ Ledgers /\ Jobs => TypeOK'
  BY DEF TypeOK, Job, LedgerRow, ReservationRow
<1>1. ASSUME NEW p \in Procs, NEW o \in Ops, Reserve(p, o) PROVE TypeOK'
  <2>1. Jobs /\ Rest
    BY <1>1, BeginTyped DEF Reserve, Begin, TypeOK, Steps
  <2>2. ledger' \in LedgerRow
    <3>1. B(o) \in Nat
      BY SizeOf
    <3>2. StateFor(ledger.state, Total(ledger) + 2 * B(o)) \in LedgerStates
      BY <1>0, StateForTyped DEF LedgerRow
    <3> QED BY <1>0, <1>1, <3>1, <3>2 DEF Reserve, Reserved, LedgerRow
  <2>3. res' \in [Ops -> ReservationRow]
    BY <1>0, <1>1, ResStateTyped DEF Reserve, ReservationStates
  <2> QED BY <1>q, <2>1, <2>2, <2>3
<1>2. ASSUME NEW p \in Procs, NEW o \in Ops, ReplayReserved(p, o) \/ ReplaySettled(p, o)
      PROVE  TypeOK'
  <2>1. PICK step \in {"look", "verify"} : Begin(p, o, TRUE, step) /\ UNCHANGED <<ledger, res>>
    BY <1>2 DEF ReplayReserved, ReplaySettled
  <2>2. Jobs /\ Rest
    BY <2>1, BeginTyped DEF Begin, TypeOK, Steps
  <2> QED BY <1>0, <1>q, <2>1, <2>2
<1>3. ASSUME NEW p \in Procs, SettleConfirmed(p) PROVE TypeOK'
  <2>1. Rest
    BY <1>3 DEF SettleConfirmed, TypeOK
  <2>2. Jobs
    BY <1>0, <1>3, StepTyped DEF SettleConfirmed, Goto, Steps
  <2>3. Ledgers
    <3> DEFINE o == job[p].op
    <3>1. CASE UNCHANGED <<ledger, res>>
      BY <1>0, <3>1
    <3>2. CASE /\ ledger.reserved >= 2 * B(o) /\ ledger' = Settled(o, Charge(p))
               /\ res' = [res EXCEPT ![o] = [state |-> "settled", committed |-> Charge(p)]]
      <4>1. Charge(p) \in Nat /\ Charge(p) <= B(o)
        BY ChargeBound
      <4>2. o \in Ops
        BY <1>0
      <4>3. ledger' \in LedgerRow
        BY <3>2, <4>1, <4>2, SettledTyped
      <4>4. [state |-> "settled", committed |-> Charge(p)] \in ReservationRow
        BY <4>1 DEF ReservationRow, ReservationStates
      <4> QED BY <1>0, <3>2, <4>3, <4>4
    <3> QED BY <1>3, <3>1, <3>2 DEF SettleConfirmed
  <2> QED BY <1>q, <2>1, <2>2, <2>3
<1>4. ASSUME NEW o \in Ops, Uncertain(o) PROVE Ledgers
  <2>1. ledger' \in LedgerRow
    BY <1>0, <1>4 DEF Uncertain, LedgerRow, LedgerStates
  <2> QED BY <1>0, <1>4, <2>1, ResStateTyped DEF Uncertain, ReservationStates
<1>5. ASSUME NEW p \in Procs, SettleUnknown(p) PROVE TypeOK'
  <2>1. Rest
    BY <1>5 DEF SettleUnknown, TypeOK
  <2>2. Jobs
    BY <1>0, <1>5, StepTyped DEF SettleUnknown, Goto, Steps
  <2>3. Ledgers
    BY <1>0, <1>4, <1>5 DEF SettleUnknown
  <2> QED BY <1>q, <2>1, <2>2, <2>3
<1>6. ASSUME NEW p \in Procs,
             \/ SettleFails(p) \/ VerifyExisting(p) \/ LookForFinal(p) \/ OpenTemporary(p)
             \/ UnlinkTemporary(p) \/ CommitRow(p) \/ Crash(p) \/ OpenFails(p)
      PROVE  TypeOK'
  <2>1. PICK s \in Steps : Goto(p, s)
    BY <1>6 DEF SettleFails, VerifyExisting, LookForFinal, OpenTemporary, UnlinkTemporary,
                CommitRow, Crash, OpenFails, Steps
  <2>2. Jobs
    BY <1>0, <2>1, StepTyped DEF Goto
  <2>3. Rest
    <3>1. /\ temps' \in {temps, temps \cup {job[p].op}, temps \ {job[p].op}}
          /\ faults' \in {faults, faults + 1} /\ final' = final
      BY <1>6 DEF SettleFails, VerifyExisting, LookForFinal, OpenTemporary, UnlinkTemporary,
                  CommitRow, Crash, OpenFails, Fault
    <3>2. rows' \in {rows, rows \cup {PayloadOf[job[p].op]}}
      BY <1>6 DEF SettleFails, VerifyExisting, LookForFinal, OpenTemporary, UnlinkTemporary,
                  CommitRow, Crash, OpenFails
    <3>3. lease' = lease \/ lease' = [lease EXCEPT ![p] = FALSE]
      BY <1>6 DEF SettleFails, VerifyExisting, LookForFinal, OpenTemporary, UnlinkTemporary,
                  CommitRow, Crash, OpenFails
    <3>4. final' \subseteq Payloads /\ temps' \subseteq Ops /\ rows' \subseteq Payloads
      BY <1>0, <3>1, <3>2 DEF TypeOK
    <3>5. lease' \in [Procs -> BOOLEAN]
      BY <3>3 DEF TypeOK
    <3>6. faults' \in Nat
      BY <3>1 DEF TypeOK
    <3> QED BY <3>4, <3>5, <3>6
  <2>4. UNCHANGED <<ledger, res>>
    BY <1>6 DEF SettleFails, VerifyExisting, LookForFinal, OpenTemporary, UnlinkTemporary,
                CommitRow, Crash, OpenFails
  <2> QED BY <1>0, <1>q, <2>2, <2>3, <2>4
<1>7. ASSUME NEW p \in Procs, Link(p) \/ WriteFails(p) PROVE TypeOK'
  <2>1. Jobs
    BY <1>0, <1>7 DEF Link, WriteFails, Job, Steps
  <2>2. Rest /\ UNCHANGED <<ledger, res>>
    BY <1>0, <1>7 DEF Link, WriteFails, Fault, TypeOK
  <2> QED BY <1>0, <1>q, <2>1, <2>2
<1>8. ASSUME NEW p \in Procs, LeaseLapses(p) PROVE TypeOK'
  BY <1>0, <1>q, <1>8 DEF LeaseLapses, Fault, TypeOK
<1>9. ASSUME NEW o \in Ops, Hold(o) PROVE TypeOK'
  BY <1>0, <1>q, <1>4, <1>9 DEF Hold, TypeOK
<1>10. CASE UNCHANGED vars
  BY <1>10 DEF vars, TypeOK
<1> QED
  BY <1>1, <1>2, <1>3, <1>5, <1>6, <1>7, <1>8, <1>9, <1>10 DEF Next, ProcStep

(* Every reachable state of the quota is well typed; in particular a          *)
(* settlement never takes the reserved bytes below zero.                      *)
THEOREM TypeCorrect == Spec => []TypeOK
BY InitTyped, NextTyped, PTL DEF Spec

-----------------------------------------------------------------------------
(* The budget *)

LEMMA NextBudget == TypeOK /\ BudgetHeld /\ [Next]_vars => BudgetHeld'
<1> SUFFICES ASSUME TypeOK, BudgetHeld, [Next]_vars PROVE BudgetHeld'
  OBVIOUS
<1>0. /\ ledger \in LedgerRow
      /\ \A p \in Procs : job[p].op \in Ops
  BY DEF TypeOK, LedgerRow
<1>1. ASSUME NEW o \in Ops, Admits(o), ledger' = Reserved(o) PROVE BudgetHeld'
  <2>1. B(o) \in Nat
    BY SizeOf
  <2>2. Total(ledger') = Total(ledger) + 2 * B(o)
    BY <1>0, <1>1, <2>1 DEF Total, Reserved, LedgerRow
  <2>3. Total(ledger) \in Nat
    BY <1>0 DEF Total, LedgerRow
  <2> QED BY <1>1, <2>1, <2>2, <2>3, QuotaAssumption DEF Admits, BudgetHeld
<1>2. ASSUME Total(ledger') <= Total(ledger), ledger' \in LedgerRow PROVE BudgetHeld'
  <2>1. Total(ledger) \in Nat /\ Total(ledger') \in Nat
    BY <1>0, <1>2 DEF Total, LedgerRow
  <2> QED BY <1>2, <2>1, QuotaAssumption DEF BudgetHeld
<1>3. ASSUME NEW p \in Procs, SettleConfirmed(p) PROVE BudgetHeld'
  <2> DEFINE o == job[p].op
  <2>1. CASE UNCHANGED ledger
    BY <2>1 DEF BudgetHeld
  <2>2. CASE ledger.reserved >= 2 * B(o) /\ ledger' = Settled(o, Charge(p))
    BY <1>0, <1>2, <2>2, ChargeBound, SettledTyped
  <2> QED BY <1>3, <2>1, <2>2 DEF SettleConfirmed
<1>4. ASSUME NEW o \in Ops, Uncertain(o) PROVE BudgetHeld'
  <2>1. Total(ledger') = Total(ledger)
    BY <1>0, <1>4 DEF Uncertain, Total, LedgerRow
  <2> QED BY <2>1 DEF BudgetHeld
<1>5. ASSUME UNCHANGED ledger PROVE BudgetHeld'
  BY <1>5 DEF BudgetHeld
<1>6. ASSUME NEW p \in Procs, ProcStep(p) PROVE BudgetHeld'
  BY <1>0, <1>1, <1>3, <1>4, <1>5, <1>6
     DEF ProcStep, Reserve, ReplayReserved, ReplaySettled, VerifyExisting, LookForFinal,
         OpenTemporary, Link, UnlinkTemporary, SettleUnknown, CommitRow
<1>7. ASSUME NEW p \in Procs,
             SettleFails(p) \/ OpenFails(p) \/ WriteFails(p) \/ Crash(p) \/ LeaseLapses(p)
      PROVE  BudgetHeld'
  BY <1>5, <1>7 DEF SettleFails, OpenFails, WriteFails, Crash, LeaseLapses
<1>8. ASSUME NEW o \in Ops, Hold(o) PROVE BudgetHeld'
  BY <1>4, <1>8 DEF Hold
<1>9. CASE UNCHANGED vars
  BY <1>5, <1>9 DEF vars
<1> QED BY <1>6, <1>7, <1>8, <1>9 DEF Next

(* Committed and reserved bytes together never pass the quota (or what the    *)
(* inventory found, if that was more), however many processes reserve.        *)
THEOREM BudgetHeldHolds == Spec => []BudgetHeld
<1>1. Init => BudgetHeld
  BY QuotaAssumption DEF Init, BudgetHeld, Total
<1>2. TypeOK /\ BudgetHeld /\ [Next]_vars => BudgetHeld'
  BY NextBudget
<1> QED BY <1>1, <1>2, TypeCorrect, PTL DEF Spec

-----------------------------------------------------------------------------
(* Degradation *)

LEMMA NextDegrades == TypeOK /\ UncertainDegrades /\ [Next]_vars => UncertainDegrades'
<1> SUFFICES ASSUME TypeOK, UncertainDegrades, [Next]_vars PROVE UncertainDegrades'
  OBVIOUS
<1>0. /\ ledger \in LedgerRow /\ res \in [Ops -> ReservationRow]
      /\ \A p \in Procs : job[p].op \in Ops
  BY DEF TypeOK, LedgerRow, ReservationRow
<1>1. ASSUME NEW p \in Procs, NEW o \in Ops, Reserve(p, o) PROVE UncertainDegrades'
  <2>1. \A q \in Ops : res[q].state # "uncertain"
    BY <1>1 DEF Reserve, Admits, UncertainDegrades
  <2>2. res'[o].state = "reserved" /\ \A q \in Ops \ {o} : res'[q] = res[q]
    BY <1>0, <1>1, ResStateTyped DEF Reserve, ReservationStates
  <2> QED BY <2>1, <2>2 DEF UncertainDegrades
<1>2. ASSUME NEW p \in Procs, SettleConfirmed(p) PROVE UncertainDegrades'
  <2> DEFINE o == job[p].op
             settled == [state |-> "settled", committed |-> Charge(p)]
  <2>1. CASE UNCHANGED <<ledger, res>>
    BY <2>1 DEF UncertainDegrades
  <2>2. CASE ledger' = Settled(o, Charge(p)) /\ res' = [res EXCEPT ![o] = settled]
    <3>1. res'[o].state # "uncertain" /\ \A q \in Ops \ {o} : res'[q] = res[q]
      BY <1>0, <2>2
    <3>2. SUFFICES ASSUME NEW q \in Ops, res'[q].state = "uncertain"
                   PROVE  ledger'.state = "degraded"
      BY DEF UncertainDegrades
    <3>3. q # o /\ res[q].state = "uncertain"
      BY <3>1, <3>2
    <3>4. ledger.state = "degraded" /\ ~OthersCertain(o)
      BY <3>3 DEF UncertainDegrades, OthersCertain
    <3> QED BY <2>2, <3>4 DEF Settled, StateFor
  <2> QED BY <1>2, <2>1, <2>2 DEF SettleConfirmed
<1>3. ASSUME NEW o \in Ops, Uncertain(o) PROVE UncertainDegrades'
  BY <1>0, <1>3 DEF Uncertain, UncertainDegrades, LedgerRow
<1>4. ASSUME UNCHANGED <<ledger, res>> PROVE UncertainDegrades'
  BY <1>4 DEF UncertainDegrades
<1>5. ASSUME NEW p \in Procs, ProcStep(p) PROVE UncertainDegrades'
  BY <1>0, <1>1, <1>2, <1>3, <1>4, <1>5
     DEF ProcStep, ReplayReserved, ReplaySettled, VerifyExisting, LookForFinal,
         OpenTemporary, Link, UnlinkTemporary, SettleUnknown, CommitRow
<1>6. ASSUME NEW p \in Procs,
             SettleFails(p) \/ OpenFails(p) \/ WriteFails(p) \/ Crash(p) \/ LeaseLapses(p)
      PROVE  UncertainDegrades'
  BY <1>4, <1>6 DEF SettleFails, OpenFails, WriteFails, Crash, LeaseLapses
<1>7. ASSUME NEW o \in Ops, Hold(o) PROVE UncertainDegrades'
  BY <1>3, <1>7 DEF Hold
<1>8. CASE UNCHANGED vars
  BY <1>4, <1>8 DEF vars
<1> QED BY <1>5, <1>6, <1>7, <1>8 DEF Next

(* While any outcome is unknown the ledger is degraded and admits nothing.    *)
THEOREM UncertainDegradesHolds == Spec => []UncertainDegrades
<1>1. Init => UncertainDegrades
  BY DEF Init, UncertainDegrades
<1>2. TypeOK /\ UncertainDegrades /\ [Next]_vars => UncertainDegrades'
  BY NextDegrades
<1> QED BY <1>1, <1>2, TypeCorrect, PTL DEF Spec

-----------------------------------------------------------------------------
(* Files.  The strengthening: a process that settles or commits has seen its  *)
(* body on disk, and so has one that unlinks without a failure.               *)

Seen(p) ==
    \/ job[p].step \in {"settle", "commit"}
    \/ job[p].step = "unlink" /\ ~job[p].failed
SeenHasFile == \A p \in Procs : Seen(p) => PayloadOf[job[p].op] \in final

LEMMA JobAfterStep ==
    ASSUME TypeOK, NEW p \in Procs, NEW s \in Steps, Goto(p, s)
    PROVE  /\ job'[p].step = s /\ job'[p].op = job[p].op /\ job'[p].failed = job[p].failed
           /\ \A q \in Procs \ {p} : job'[q] = job[q]
BY DEF TypeOK, Goto

LEMMA NextSeen == TypeOK /\ SeenHasFile /\ CapturedHasFile /\ [Next]_vars
                    => SeenHasFile' /\ CapturedHasFile'
<1> SUFFICES ASSUME TypeOK, SeenHasFile, CapturedHasFile, [Next]_vars
             PROVE  SeenHasFile' /\ CapturedHasFile'
  OBVIOUS
<1> DEFINE body(p) == PayloadOf[job[p].op]
<1>0. /\ job \in [Procs -> Job] /\ res \in [Ops -> ReservationRow]
      /\ \A p \in Procs : job[p].op \in Ops
  BY DEF TypeOK, Job, ReservationRow
<1>s. ASSUME NEW p \in Procs, final \subseteq final',
             \A q \in Procs \ {p} : job'[q] = job[q],
             Seen(p)' => PayloadOf[job'[p].op] \in final'
      PROVE  SeenHasFile'
  BY <1>s DEF SeenHasFile, Seen
<1>c. ASSUME final \subseteq final', rows' \subseteq final',
             \A o \in Ops : res'[o].state = "settled" =>
                 res[o].state = "settled" \/ PayloadOf[o] \in final'
      PROVE  CapturedHasFile'
  BY <1>c DEF CapturedHasFile
<1>k. ASSUME final \subseteq final', UNCHANGED <<rows, res>> PROVE CapturedHasFile'
  BY <1>k DEF CapturedHasFile
<1>1. ASSUME NEW p \in Procs, NEW o \in Ops,
             Reserve(p, o) \/ ReplayReserved(p, o) \/ ReplaySettled(p, o)
      PROVE  SeenHasFile' /\ CapturedHasFile'
  <2>1. PICK replayed \in BOOLEAN, step \in {"open", "look", "verify"} :
            Begin(p, o, replayed, step)
    BY <1>1 DEF Reserve, ReplayReserved, ReplaySettled
  <2>7. step \in Steps
    BY DEF Steps
  <2>8. /\ job'[p] = [step |-> step, op |-> o, replayed |-> replayed,
                      created |-> FALSE, failed |-> FALSE]
        /\ \A q \in Procs \ {p} : job'[q] = job[q]
    BY <2>1, <2>7, BeginTyped
  <2>2. job'[p].step = step /\ \A q \in Procs \ {p} : job'[q] = job[q]
    BY <2>8
  <2>6. ~Seen(p)'
    BY <2>2 DEF Seen
  <2>3. UNCHANGED <<final, rows>>
    BY <2>1 DEF Begin
  <2>4. \A q \in Ops : res'[q].state = "settled" => res[q].state = "settled"
    BY <1>0, <1>1, ResStateTyped DEF Reserve, ReplayReserved, ReplaySettled, ReservationStates
  <2>5. CapturedHasFile'
    BY <2>3, <2>4 DEF CapturedHasFile
  <2> QED BY <1>s, <2>2, <2>3, <2>5, <2>6
<1>2. ASSUME NEW p \in Procs, SettleConfirmed(p) PROVE SeenHasFile' /\ CapturedHasFile'
  <2>1. body(p) \in final /\ UNCHANGED <<final, rows>>
    BY <1>2 DEF SettleConfirmed, At, SeenHasFile, Seen
  <2>2. PICK s \in Steps : Goto(p, s)
    BY <1>2 DEF SettleConfirmed, Steps
  <2>3. SeenHasFile'
    BY <1>s, <2>1, <2>2, JobAfterStep
  <2>4. \A o \in Ops : res'[o].state = "settled" => res[o].state = "settled" \/ o = job[p].op
    BY <1>0, <1>2 DEF SettleConfirmed
  <2>5. CapturedHasFile'
    BY <2>1, <2>4 DEF CapturedHasFile
  <2> QED BY <2>3, <2>5
<1>3. ASSUME NEW o \in Ops, Uncertain(o)
      PROVE  \A q \in Ops : res'[q].state = "settled" => res[q].state = "settled"
  BY <1>0, <1>3, ResStateTyped DEF Uncertain, ReservationStates
<1>4. ASSUME NEW p \in Procs, SettleUnknown(p) PROVE SeenHasFile' /\ CapturedHasFile'
  <2>1. Goto(p, "idle") /\ UNCHANGED <<final, rows>>
    BY <1>4 DEF SettleUnknown
  <2>2. \A q \in Ops : res'[q].state = "settled" => res[q].state = "settled"
    BY <1>0, <1>3, <1>4 DEF SettleUnknown
  <2>3. SeenHasFile'
    BY <1>s, <2>1, JobAfterStep DEF Seen, Steps
  <2>4. CapturedHasFile'
    BY <2>1, <2>2 DEF CapturedHasFile
  <2> QED BY <2>3, <2>4
<1>5. ASSUME NEW p \in Procs,
             \/ SettleFails(p) \/ VerifyExisting(p) \/ LookForFinal(p) \/ OpenTemporary(p)
             \/ OpenFails(p) \/ Crash(p)
      PROVE  SeenHasFile' /\ CapturedHasFile'
  <2>1. PICK s \in {"unknown", "idle", "commit", "open", "link"} :
            Goto(p, s) /\ (s = "commit" => body(p) \in final)
    BY <1>5 DEF SettleFails, VerifyExisting, LookForFinal, OpenTemporary, OpenFails, Crash
  <2>2. UNCHANGED <<final, rows, res>>
    BY <1>5 DEF SettleFails, VerifyExisting, LookForFinal, OpenTemporary, OpenFails, Crash
  <2>3. SeenHasFile'
    BY <1>s, <2>1, <2>2, JobAfterStep DEF Seen, Steps
  <2> QED BY <1>k, <2>2, <2>3
<1>6. ASSUME NEW p \in Procs, UnlinkTemporary(p) PROVE SeenHasFile' /\ CapturedHasFile'
  <2>1. PICK s \in {"settle", "unknown"} : Goto(p, s) /\ (s = "settle" => ~job[p].failed)
    BY <1>6 DEF UnlinkTemporary, Confirms
  <2>2. UNCHANGED <<final, rows, res>> /\ job[p].step = "unlink"
    BY <1>6 DEF UnlinkTemporary, At
  <2>3. s = "settle" => body(p) \in final
    BY <2>1, <2>2 DEF SeenHasFile, Seen
  <2>4. SeenHasFile'
    BY <1>s, <2>1, <2>2, <2>3, JobAfterStep DEF Seen, Steps
  <2> QED BY <1>k, <2>2, <2>4
<1>7. ASSUME NEW p \in Procs, Link(p) PROVE SeenHasFile' /\ CapturedHasFile'
  <2>1. final' = final \cup {body(p)} /\ UNCHANGED <<rows, res>>
    BY <1>7 DEF Link
  <2>2. job'[p].op = job[p].op /\ \A q \in Procs \ {p} : job'[q] = job[q]
    BY <1>0, <1>7 DEF Link, Job
  <2>3. SeenHasFile'
    BY <1>s, <2>1, <2>2
  <2> QED BY <1>k, <2>1, <2>3
<1>8. ASSUME NEW p \in Procs, WriteFails(p) PROVE SeenHasFile' /\ CapturedHasFile'
  <2>1. UNCHANGED <<final, rows, res>>
    BY <1>8 DEF WriteFails
  <2>2. /\ job'[p].step = "unlink" /\ job'[p].failed
        /\ \A q \in Procs \ {p} : job'[q] = job[q]
    BY <1>0, <1>8 DEF WriteFails, Job
  <2>3. SeenHasFile'
    BY <1>s, <2>1, <2>2 DEF Seen
  <2> QED BY <1>k, <2>1, <2>3
<1>9. ASSUME NEW p \in Procs, CommitRow(p) PROVE SeenHasFile' /\ CapturedHasFile'
  <2>1. body(p) \in final /\ UNCHANGED <<final, res>>
    BY <1>9 DEF CommitRow, At, SeenHasFile, Seen
  <2>2. Goto(p, "idle") /\ rows' \in {rows, rows \cup {body(p)}}
    BY <1>9 DEF CommitRow
  <2>3. SeenHasFile'
    BY <1>s, <2>1, <2>2, JobAfterStep DEF Seen, Steps
  <2>4. CapturedHasFile'
    BY <2>1, <2>2 DEF CapturedHasFile
  <2> QED BY <2>3, <2>4
<1>10. ASSUME UNCHANGED <<job, final, rows, res>> PROVE SeenHasFile' /\ CapturedHasFile'
  BY <1>10 DEF SeenHasFile, Seen, CapturedHasFile
<1>11. ASSUME NEW o \in Ops, Hold(o) PROVE SeenHasFile' /\ CapturedHasFile'
  <2>1. UNCHANGED <<job, final, rows>>
    BY <1>11 DEF Hold
  <2>2. \A q \in Ops : res'[q].state = "settled" => res[q].state = "settled"
    BY <1>3, <1>11 DEF Hold
  <2> QED BY <2>1, <2>2 DEF SeenHasFile, Seen, CapturedHasFile
<1> QED
  <2>1. CASE \E p \in Procs : ProcStep(p)
    BY <1>1, <1>2, <1>4, <1>5, <1>6, <1>7, <1>9, <2>1 DEF ProcStep
  <2>2. CASE \E p \in Procs : SettleFails(p) \/ OpenFails(p) \/ WriteFails(p) \/ Crash(p) \/ LeaseLapses(p)
    BY <1>5, <1>8, <1>10, <2>2 DEF LeaseLapses
  <2>3. CASE \E o \in Ops : Hold(o)
    BY <1>11, <2>3
  <2>4. CASE UNCHANGED vars
    BY <1>10, <2>4 DEF vars
  <2> QED BY <2>1, <2>2, <2>3, <2>4 DEF Next

(* Every captured row and every settled operation has its file, whatever      *)
(* crashes, lapsed leases, failed writes and concurrent replays leave behind. *)
THEOREM CapturedHasFileHolds == Spec => []CapturedHasFile
<1>1. Init => SeenHasFile /\ CapturedHasFile
  BY DEF Init, SeenHasFile, Seen, CapturedHasFile
<1>2. TypeOK /\ SeenHasFile /\ CapturedHasFile /\ [Next]_vars => SeenHasFile' /\ CapturedHasFile'
  BY NextSeen
<1> QED BY <1>1, <1>2, TypeCorrect, PTL DEF Spec

-----------------------------------------------------------------------------
(* Sums over finite sets.  Each lemma that goes by the size of a set takes the *)
(* smallest counterexample: its remainder is none.                             *)

(* A family of subsets of a finite set has a smallest member. *)
LEMMA SmallestMember ==
    ASSUME NEW S, IsFiniteSet(S), NEW F \in SUBSET (SUBSET S), F # {}
    PROVE  \E T \in F : \A U \in F : U \subseteq T => U = T
<1>1. IsWellFoundedOn(StrictSubsetOrdering(S), SUBSET S)
  BY FS_StrictSubsetOrderingWellFounded, FS_FiniteSubsetsOfFinite
<1>2. PICK T \in F : \A U \in F : ~ (<<U, T>> \in StrictSubsetOrdering(S))
  BY <1>1, WFMin
<1> QED BY <1>2 DEF StrictSubsetOrdering

(* The sum of a function over a finite set, as the fold computes it: the      *)
(* recursive function on the subsets takes out one chosen element at a time.  *)
First(T) == CHOOSE x \in T : TRUE
Rest(T) == T \ {First(T)}

IsSum(f, S, g) == g = [T \in SUBSET S |-> IF T = {} THEN 0 ELSE f[First(T)] + g[Rest(T)]]

Partial(f, S) == CHOOSE g : IsSum(f, S, g)

SumOf(f, S) == MapThenSumSet(LAMBDA x : f[x], S)

(* The fold is the recursive function. *)
LEMMA SumUnfolds ==
    ASSUME NEW f, NEW S
    PROVE  SumOf(f, S) = Partial(f, S)[S]
BY DEF SumOf, MapThenSumSet, MapThenFoldSet, Partial, IsSum, First, Rest

(* What the recursive function returns. *)
LEMMA IsSumValue ==
    ASSUME NEW f, NEW S, NEW g, IsSum(f, S, g)
    PROVE  /\ g[{}] = 0
           /\ \A T \in SUBSET S : T # {} => g[T] = f[First(T)] + g[Rest(T)]
BY DEF IsSum

(* Two sum functions agree where both are defined. *)
LEMMA SumsAgree ==
    ASSUME NEW f, NEW S, IsFiniteSet(S), NEW R, NEW g, NEW h, R \subseteq S,
           IsSum(f, S, g), IsSum(f, R, h)
    PROVE  \A T \in SUBSET R : g[T] = h[T]
<1> DEFINE F == {T \in SUBSET R : g[T] # h[T]}
<1>1. SUFFICES ASSUME F # {} PROVE FALSE
  OBVIOUS
<1>2. F \in SUBSET (SUBSET S)
  OBVIOUS
<1>3. PICK T \in F : \A U \in F : U \subseteq T => U = T
  <2> HIDE DEF F
  <2> QED BY <1>1, <1>2, SmallestMember
<1>4. T # {}
  BY IsSumValue
<1>5. Rest(T) \in SUBSET R /\ Rest(T) \subseteq T /\ Rest(T) # T
  BY <1>4 DEF First, Rest
<1>6. g[Rest(T)] = h[Rest(T)]
  BY <1>3, <1>5
<1>7. g[T] = f[First(T)] + g[Rest(T)] /\ h[T] = f[First(T)] + h[Rest(T)]
  BY <1>4, IsSumValue
<1> QED BY <1>6, <1>7

(* Over a finite set the sum function exists. *)
LEMMA SumExists ==
    ASSUME NEW f, NEW S, IsFiniteSet(S)
    PROVE  IsSum(f, S, Partial(f, S))
<1> DEFINE F == {T \in SUBSET S : ~IsSum(f, T, Partial(f, T))}
<1>1. SUFFICES ASSUME F # {} PROVE FALSE
  OBVIOUS
<1>0. F \in SUBSET (SUBSET S)
  OBVIOUS
<1>2. PICK T \in F : \A U \in F : U \subseteq T => U = T
  <2> HIDE DEF F
  <2> QED BY <1>0, <1>1, SmallestMember
<1>3. \A U \in SUBSET T : U # T => IsSum(f, U, Partial(f, U))
  BY <1>2
<1> DEFINE below(U) == Partial(f, Rest(U))[Rest(U)]
           g == [U \in SUBSET T |-> IF U = {} THEN 0 ELSE f[First(U)] + below(U)]
<1>4. ASSUME NEW U \in SUBSET T, U # {}
      PROVE  g[Rest(U)] = below(U)
  <2> DEFINE V == Rest(U)
  <2>1. V \in SUBSET T /\ V # T
    BY <1>4 DEF First, Rest
  <2>2. IsSum(f, V, Partial(f, V))
    BY <1>3, <2>1
  <2>3. CASE V = {}
    <3>1. g[V] = 0
      BY <2>1, <2>3
    <3>2. Partial(f, V)[V] = 0
      BY <2>2, <2>3, IsSumValue
    <3> QED BY <3>1, <3>2
  <2>4. CASE V # {}
    <3> DEFINE W == Rest(V)
    <3>1. W \in SUBSET T /\ W # T /\ W \subseteq V
      BY <2>1, <2>4 DEF First, Rest
    <3>2. IsSum(f, W, Partial(f, W))
      BY <1>3, <3>1
    <3>3. IsFiniteSet(V)
      BY <2>1, FS_Subset
    <3>4. Partial(f, V)[W] = Partial(f, W)[W]
      BY <2>2, <3>1, <3>2, <3>3, SumsAgree
    <3>5. Partial(f, V)[V] = f[First(V)] + Partial(f, V)[W]
      <4> HIDE DEF V, W
      <4> QED BY <2>2, <2>4, IsSumValue DEF W
    <3>6. g[V] = f[First(V)] + Partial(f, W)[W]
      BY <2>1, <2>4
    <3> QED BY <3>4, <3>5, <3>6
  <2> QED BY <2>3, <2>4
<1>5. g = [U \in SUBSET T |-> IF U = {} THEN 0 ELSE f[First(U)] + g[Rest(U)]]
  <2> DEFINE h == [U \in SUBSET T |-> IF U = {} THEN 0 ELSE f[First(U)] + g[Rest(U)]]
  <2>1. \A U \in SUBSET T : h[U] = IF U = {} THEN 0 ELSE f[First(U)] + g[Rest(U)]
    OBVIOUS
  <2>2. \A U \in SUBSET T : g[U] = IF U = {} THEN 0 ELSE f[First(U)] + below(U)
    OBVIOUS
  <2>3. g = [U \in SUBSET T |-> g[U]] /\ h = [U \in SUBSET T |-> h[U]]
    OBVIOUS
  <2> HIDE DEF g, h, below
  <2>4. \A U \in SUBSET T : g[U] = h[U]
    BY <1>4, <2>1, <2>2
  <2>5. g = h
    BY <2>3, <2>4
  <2> QED BY <2>5 DEF h
<1>6. IsSum(f, T, g)
  <2> HIDE DEF g
  <2> QED BY <1>5 DEF IsSum
<1>7. IsSum(f, T, Partial(f, T))
  <2> HIDE DEF g
  <2> QED BY <1>6 DEF Partial
<1> QED BY <1>2, <1>7

(* A sum unfolds at the element that the fold chooses. *)
LEMMA SumUnfoldsAtFirst ==
    ASSUME NEW f, NEW S, IsFiniteSet(S)
    PROVE  /\ SumOf(f, {}) = 0
           /\ S # {} => SumOf(f, S) = f[First(S)] + SumOf(f, Rest(S))
<1>1. SumOf(f, {}) = 0
  BY SumUnfolds, SumExists, IsSumValue, FS_EmptySet
<1>2. ASSUME S # {} PROVE SumOf(f, S) = f[First(S)] + SumOf(f, Rest(S))
  <2>1. Rest(S) \subseteq S /\ IsFiniteSet(Rest(S))
    BY FS_Subset DEF Rest
  <2>2. IsSum(f, S, Partial(f, S)) /\ IsSum(f, Rest(S), Partial(f, Rest(S)))
    BY <2>1, SumExists
  <2>3. Partial(f, S)[Rest(S)] = Partial(f, Rest(S))[Rest(S)]
    BY <2>1, <2>2, SumsAgree
  <2>4. Partial(f, S)[S] = f[First(S)] + Partial(f, S)[Rest(S)]
    BY <1>2, <2>2, IsSumValue
  <2> QED BY <2>3, <2>4, SumUnfolds
<1> QED BY <1>1, <1>2

(* A sum of naturals is a natural, and unfolds at any element. *)
LEMMA SumSplits ==
    ASSUME NEW U, NEW f \in [U -> Nat], NEW S \in SUBSET U, IsFiniteSet(S)
    PROVE  /\ SumOf(f, S) \in Nat
           /\ \A x \in S : SumOf(f, S) = f[x] + SumOf(f, S \ {x})
<1> DEFINE Good(T) == /\ SumOf(f, T) \in Nat
                      /\ \A x \in T : SumOf(f, T) = f[x] + SumOf(f, T \ {x})
           F == {T \in SUBSET S : ~Good(T)}
<1>1. SUFFICES ASSUME F # {} PROVE FALSE
  OBVIOUS
<1>2. PICK T \in F : \A V \in F : V \subseteq T => V = T
  <2>1. F \in SUBSET (SUBSET S)
    OBVIOUS
  <2> HIDE DEF F
  <2> QED BY <1>1, <2>1, SmallestMember
<1>3. ASSUME NEW V \in SUBSET T, V # T PROVE Good(V)
  BY <1>2, <1>3
<1>4. IsFiniteSet(T) /\ T \subseteq U /\ ~Good(T)
  BY FS_Subset
<1>5. T # {}
  <2> SUFFICES ASSUME T = {} PROVE FALSE
    OBVIOUS
  <2>1. SumOf(f, T) = 0
    BY <1>4, SumUnfoldsAtFirst
  <2> QED BY <1>4, <2>1
<1> DEFINE c == First(T)
           R == Rest(T)
<1>6. c \in T /\ R = T \ {c}
  BY <1>5 DEF First, Rest
<1>7. SumOf(f, T) = f[c] + SumOf(f, R)
  BY <1>4, <1>5, SumUnfoldsAtFirst
<1> HIDE DEF Good, c, R
<1>8. \A x \in T : f[x] \in Nat
  BY <1>4
<1>9. Good(R)
  BY <1>3, <1>6
<1>10. SumOf(f, T) \in Nat
  BY <1>6, <1>7, <1>8, <1>9 DEF Good
<1>11. ASSUME NEW x \in T PROVE SumOf(f, T) = f[x] + SumOf(f, T \ {x})
  <2>1. CASE x = c
    BY <1>6, <1>7, <2>1
  <2>2. CASE x # c
    <3> DEFINE Q == R \ {x}
    <3>1. x \in R /\ c \in T \ {x} /\ (T \ {x}) \ {c} = Q
      BY <1>6, <2>2
    <3>2. SumOf(f, R) = f[x] + SumOf(f, Q)
      BY <1>9, <3>1 DEF Good
    <3>3. Good(T \ {x})
      BY <1>3
    <3>4. SumOf(f, T \ {x}) = f[c] + SumOf(f, Q)
      BY <3>1, <3>3 DEF Good
    <3>5. Good(Q)
      BY <1>3, <1>6, <3>1
    <3>6. SumOf(f, Q) \in Nat /\ f[x] \in Nat /\ f[c] \in Nat
      BY <1>6, <1>8, <3>5 DEF Good
    <3> HIDE DEF Q
    <3> QED BY <1>7, <3>2, <3>4, <3>6
  <2> QED BY <2>1, <2>2
<1> QED BY <1>4, <1>10, <1>11 DEF Good

(* Sums of functions that agree on a set are equal. *)
LEMMA SumsOfSame ==
    ASSUME NEW f, NEW g, NEW S, IsFiniteSet(S), \A x \in S : f[x] = g[x]
    PROVE  SumOf(f, S) = SumOf(g, S)
<1> DEFINE F == {T \in SUBSET S : SumOf(f, T) # SumOf(g, T)}
<1>1. SUFFICES ASSUME F # {} PROVE FALSE
  OBVIOUS
<1>2. PICK T \in F : \A V \in F : V \subseteq T => V = T
  <2>1. F \in SUBSET (SUBSET S)
    OBVIOUS
  <2> HIDE DEF F
  <2> QED BY <1>1, <2>1, SmallestMember
<1>3. IsFiniteSet(T)
  BY FS_Subset
<1>4. T # {}
  BY <1>3, SumUnfoldsAtFirst
<1>5. First(T) \in T /\ Rest(T) \in SUBSET S /\ Rest(T) \subseteq T /\ Rest(T) # T
  BY <1>4 DEF First, Rest
<1>6. SumOf(f, Rest(T)) = SumOf(g, Rest(T))
  BY <1>2, <1>5
<1> QED BY <1>3, <1>4, <1>5, <1>6, SumUnfoldsAtFirst

-----------------------------------------------------------------------------
(* Occupancy *)

(* What a temporary counts with. *)
Bytes == [o \in Ops |-> B(o)]

LEMMA BytesTyped == Bytes \in [Ops -> Nat] /\ Size \in [Payloads -> Nat]
BY SizeOf, QuotaAssumption DEF Bytes

(* A sum over all operations, after one of them changed. *)
LEMMA SumUpdated ==
    ASSUME IsFiniteSet(Ops), NEW f \in [Ops -> Nat], NEW g \in [Ops -> Nat], NEW o \in Ops,
           \A q \in Ops \ {o} : g[q] = f[q]
    PROVE  /\ SumOf(f, Ops) \in Nat /\ SumOf(g, Ops) \in Nat
           /\ SumOf(g, Ops) = SumOf(f, Ops) - f[o] + g[o]
<1>1. /\ SumOf(f, Ops) = f[o] + SumOf(f, Ops \ {o})
      /\ SumOf(g, Ops) = g[o] + SumOf(g, Ops \ {o})
  BY SumSplits
<1>2. IsFiniteSet(Ops \ {o})
  BY FS_Subset
<1>3. SumOf(g, Ops \ {o}) = SumOf(f, Ops \ {o})
  BY <1>2, SumsOfSame
<1>4. SumOf(f, Ops) \in Nat /\ SumOf(g, Ops) \in Nat /\ SumOf(f, Ops \ {o}) \in Nat
  BY <1>2, SumSplits
<1> QED BY <1>1, <1>3, <1>4

(* Files cost no more than the operations that keep them and their            *)
(* temporaries weigh.                                                         *)
LEMMA FilesCovered ==
    ASSUME IsFiniteSet(Ops), NEW w \in [Ops -> Nat],
           NEW K \in SUBSET Ops, NEW U \in SUBSET Ops,
           \A o \in K : w[o] >= B(o), \A o \in U : w[o] >= 2 * B(o),
           NEW G \in SUBSET Payloads, IsFiniteSet(G), NEW T \in SUBSET U,
           \A b \in G : \E o \in K : PayloadOf[o] = b
    PROVE  SumOf(Size, G) + SumOf(Bytes, T) <= SumOf(w, Ops)
<1> DEFINE Good(O) ==
        \A F \in SUBSET G : \A V \in SUBSET (U \cap O) :
            (\A b \in F : \E o \in K \cap O : PayloadOf[o] = b)
                => SumOf(Size, F) + SumOf(Bytes, V) <= SumOf(w, O)
           Bad == {O \in SUBSET Ops : ~Good(O)}
<1>1. SUFFICES ASSUME Bad # {} PROVE FALSE
  <2>1. SUFFICES Good(Ops)
    OBVIOUS
  <2> QED BY <1>1
<1>2. PICK O \in Bad : \A R \in Bad : R \subseteq O => R = O
  <2>1. Bad \in SUBSET (SUBSET Ops)
    OBVIOUS
  <2> HIDE DEF Bad
  <2> QED BY <1>1, <2>1, SmallestMember
<1>3. O \subseteq Ops /\ IsFiniteSet(O) /\ ~Good(O)
  BY FS_Subset
<1>4. PICK F \in SUBSET G, V \in SUBSET (U \cap O) :
          /\ \A b \in F : \E o \in K \cap O : PayloadOf[o] = b
          /\ ~(SumOf(Size, F) + SumOf(Bytes, V) <= SumOf(w, O))
  BY <1>3
<1>5. /\ SumOf(Size, {}) = 0 /\ SumOf(Bytes, {}) = 0 /\ SumOf(w, {}) = 0
  BY SumUnfoldsAtFirst, FS_EmptySet
<1>6. O # {}
  <2> SUFFICES ASSUME O = {} PROVE FALSE
    OBVIOUS
  <2>1. F = {} /\ V = {}
    BY <1>4
  <2> QED BY <1>4, <1>5, <2>1
<1>7. PICK o \in O : TRUE
  BY <1>6
<1> DEFINE R == O \ {o}
           b == PayloadOf[o]
           F1 == IF o \in K THEN F \ {b} ELSE F
           V1 == V \ {o}
<1>8. Good(R)
  <2>1. R \in SUBSET Ops /\ R \subseteq O /\ R # O
    BY <1>3, <1>7
  <2> QED BY <1>2, <2>1
<1>9. SumOf(Size, F1) + SumOf(Bytes, V1) <= SumOf(w, R)
  <2>1. F1 \in SUBSET G /\ V1 \in SUBSET (U \cap R)
    BY <1>4
  <2>2. \A c \in F1 : \E q \in K \cap R : PayloadOf[q] = c
    BY <1>4
  <2> HIDE DEF F1, V1, R
  <2> QED BY <1>8, <2>1, <2>2
<1>10. IsFiniteSet(F) /\ IsFiniteSet(V) /\ F \subseteq Payloads /\ V \subseteq Ops
  BY <1>3, <1>4, FS_Subset
<1>11. w[o] \in Nat /\ B(o) \in Nat /\ Size[b] = B(o) /\ Bytes[o] = B(o)
  BY <1>3, SizeOf DEF B, Bytes
<1>12. SumOf(w, O) = w[o] + SumOf(w, R)
  BY <1>3, <1>7, SumSplits
<1>13. SumOf(Bytes, V) = (IF o \in V THEN B(o) ELSE 0) + SumOf(Bytes, V1)
  <2>1. SumOf(Bytes, V) \in Nat /\ (o \in V => SumOf(Bytes, V) = Bytes[o] + SumOf(Bytes, V1))
    BY <1>10, BytesTyped, SumSplits
  <2>2. o \notin V => V1 = V
    OBVIOUS
  <2> HIDE DEF V1
  <2> QED BY <1>11, <2>1, <2>2
<1>14. \/ SumOf(Size, F) = SumOf(Size, F1)
       \/ o \in K /\ SumOf(Size, F) = B(o) + SumOf(Size, F1)
  <2>1. b \in F => SumOf(Size, F) = Size[b] + SumOf(Size, F \ {b})
    BY <1>10, BytesTyped, SumSplits
  <2>2. CASE o \in K /\ b \in F
    BY <1>11, <2>1, <2>2
  <2>3. CASE ~(o \in K /\ b \in F)
    BY <2>3
  <2> QED BY <2>2, <2>3
<1>15. /\ SumOf(w, R) \in Nat /\ SumOf(Bytes, V1) \in Nat /\ SumOf(Size, F1) \in Nat
  <2>1. R \in SUBSET Ops /\ IsFiniteSet(R) /\ V1 \in SUBSET Ops /\ IsFiniteSet(V1)
        /\ F1 \in SUBSET Payloads /\ IsFiniteSet(F1)
    BY <1>3, <1>10, FS_Subset
  <2> HIDE DEF R, V1, F1
  <2> QED BY <2>1, BytesTyped, SumSplits
<1>16. (o \in V => w[o] >= 2 * B(o)) /\ (o \in K => w[o] >= B(o))
  BY <1>4
<1> HIDE DEF F1, V1, R, b
<1>17. SumOf(Size, F) + SumOf(Bytes, V) <= SumOf(w, O)
  BY <1>9, <1>11, <1>12, <1>13, <1>14, <1>15, <1>16
<1> QED BY <1>4, <1>17

(* A process works on a reservation; its body is fresh as long as it may      *)
(* still settle it as one that it did not create.                             *)
Working == {"look", "open", "link", "unlink", "settle"}
Fresh(p) == job[p].step \in Working /\ ~job[p].replayed /\ ~job[p].created

(* An operation keeps the file of its payload: it was settled with the full   *)
(* charge, or it is open and nobody is about to settle it without one.        *)
Keeps(o) ==
    \/ res[o].state = "settled" /\ res[o].committed = B(o)
    \/ Unsettled(o) /\ \A p \in Procs : job[p].op = o => ~Fresh(p)

(* What the ledger holds for an operation. *)
Weight(o) ==
    IF Unsettled(o) THEN 2 * B(o) ELSE IF res[o].state = "settled" THEN res[o].committed ELSE 0
Weights == [o \in Ops |-> Weight(o)]

(* The strengthening.  What a process works on is its own and is reserved; a  *)
(* body that is about to settle has no temporary and is no replay; every      *)
(* temporary belongs to an open operation, every file to one that keeps it;   *)
(* and the ledger is the baseline and the weights of the operations.          *)
Fed == \A p \in Procs : ~At(p, "idle") => job[p].op \in Feeds[p]
Held == \A p \in Procs : job[p].step \in Working => Unsettled(job[p].op)
Uncreated == \A p \in Procs : job[p].step \in {"look", "open", "link"} => ~job[p].created
Settles == \A p \in Procs : At(p, "settle") => job[p].op \notin temps /\ ~job[p].replayed
TempsHeld == \A o \in temps : Unsettled(o)
Kept == \A b \in final : \E o \in Ops : PayloadOf[o] = b /\ Keeps(o)
Accounted == Total(ledger) = Baseline + SumOf(Weights, Ops)

Jobs == Fed /\ Held /\ Uncreated /\ Settles
Covered == Jobs /\ TempsHeld /\ Kept /\ Accounted

(* Each operation is ingested by one process. *)
OwnFeeds == \A p, q \in Procs : p # q => Feeds[p] \cap Feeds[q] = {}

(* No other process works on the operation of a busy one. *)
LEMMA Alone ==
    ASSUME OwnFeeds, Fed, NEW p \in Procs, NEW q \in Procs, p # q,
           ~At(p, "idle"), job[q].op = job[p].op
    PROVE  At(q, "idle")
BY DEF OwnFeeds, Fed

LEMMA WeightsTyped == ASSUME TypeOK PROVE Weights \in [Ops -> Nat]
BY SizeOf DEF TypeOK, Weights, Weight

LEMMA WeightsTypedNext == ASSUME TypeOK' PROVE Weights' \in [Ops -> Nat]
BY SizeOf DEF TypeOK, Weights, Weight, B, Unsettled

(* Reservations that are kept as unsettled as they are, or changed not at all *)
SameRows == \A o \in Ops : res'[o] = res[o] \/ (Unsettled(o) /\ Unsettled(o)')

(* The account is kept by steps that keep the reservations and the total,     *)
(* and by steps that move the weight of one operation and the total alike.    *)
LEMMA AccountSame ==
    ASSUME Accounted, SameRows, Total(ledger') = Total(ledger)
    PROVE  Accounted'
<1>1. \A o \in Ops : Weight(o)' = Weight(o)
  BY DEF SameRows, Weight, Unsettled, B
<1>2. Weights' = Weights
  BY <1>1 DEF Weights
<1>3. Total(ledger') = Baseline + SumOf(Weights', Ops)
  BY <1>2 DEF Accounted
<1> QED BY <1>3 DEF Accounted

LEMMA AccountMoves ==
    ASSUME TypeOK, TypeOK', IsFiniteSet(Ops), Accounted, NEW o \in Ops,
           \A q \in Ops \ {o} : res'[q] = res[q],
           Total(ledger') = Total(ledger) - Weight(o) + Weight(o)'
    PROVE  Accounted'
<1>1. \A q \in Ops \ {o} : Weights'[q] = Weights[q]
  BY DEF Weights, Weight, Unsettled, B
<1>2. Weights[o] = Weight(o) /\ Weights'[o] = Weight(o)'
  BY DEF Weights
<1>3. /\ SumOf(Weights, Ops) \in Nat
      /\ SumOf(Weights', Ops) = SumOf(Weights, Ops) - Weight(o) + Weight(o)'
  BY <1>1, <1>2, WeightsTyped, WeightsTypedNext, SumUpdated
<1>4. Weight(o) \in Nat /\ Weight(o)' \in Nat
  BY <1>2, WeightsTyped, WeightsTypedNext
<1>5. Total(ledger') = Baseline + SumOf(Weights', Ops)
  BY <1>3, <1>4, QuotaAssumption DEF Accounted
<1> QED BY <1>5 DEF Accounted

(* One process moves on; what it works on stays. *)
MovesOn(p) ==
    /\ ~At(p, "idle")
    /\ \A q \in Procs \ {p} : job'[q] = job[q]
    /\ job'[p].op = job[p].op /\ job'[p].replayed = job[p].replayed
    /\ job'[p].step \in Working => job[p].step \in Working

LEMMA JobsMove ==
    ASSUME OwnFeeds, Jobs, NEW p \in Procs, MovesOn(p), SameRows, TypeOK,
           temps' \subseteq temps \cup {job[p].op},
           job'[p].step \in {"look", "open", "link"} => ~job'[p].created,
           job'[p].step = "settle" => job[p].op \notin temps' /\ ~job[p].replayed
    PROVE  Jobs'
<1>0. job[p].op \in Ops /\ \A q \in Procs : job[q].op \in Ops
  BY DEF TypeOK
<1>1. Fed'
  BY DEF Jobs, Fed, MovesOn, At
<1>2. \A o \in Ops : Unsettled(o) => Unsettled(o)'
  BY DEF SameRows, Unsettled
<1>3. Held'
  <2> SUFFICES ASSUME NEW q \in Procs, job'[q].step \in Working
               PROVE  Unsettled(job[q].op)' /\ job'[q].op = job[q].op
    BY DEF Held, Unsettled
  <2>1. job[q].step \in Working /\ job'[q].op = job[q].op
    BY DEF MovesOn
  <2>2. Unsettled(job[q].op)
    BY <2>1 DEF Jobs, Held
  <2>3. res'[job[q].op].state \in {"reserved", "uncertain"}
    BY <1>0, <1>2, <2>2 DEF Unsettled
  <2> QED BY <2>1, <2>3 DEF Unsettled
<1>4. Uncreated'
  BY DEF Jobs, Uncreated, MovesOn
<1>5. Settles'
  <2> SUFFICES ASSUME NEW q \in Procs, job'[q].step = "settle"
               PROVE  job'[q].op \notin temps' /\ ~job'[q].replayed
    BY DEF Settles, At
  <2>1. CASE q = p
    BY <2>1 DEF MovesOn
  <2>2. CASE q # p
    <3>1. job'[q] = job[q] /\ ~At(p, "idle")
      BY <2>2 DEF MovesOn
    <3>2. job[q].op # job[p].op
      BY <2>2, <3>1, Alone DEF At, Jobs
    <3> QED BY <3>1, <3>2 DEF Jobs, Settles, At
  <2> QED BY <2>1, <2>2
<1> QED BY <1>1, <1>3, <1>4, <1>5 DEF Jobs

LEMMA KeptMoves ==
    ASSUME Kept, SameRows, final' = final,
           \A p \in Procs : job'[p].op = job[p].op /\ (Fresh(p)' => Fresh(p))
    PROVE  Kept'
<1>1. ASSUME NEW o \in Ops, Keeps(o) PROVE Keeps(o)'
  <2>1. CASE Unsettled(o) /\ \A p \in Procs : job[p].op = o => ~Fresh(p)
    <3>1. Unsettled(o)'
      BY <2>1 DEF SameRows, Unsettled
    <3>2. \A p \in Procs : job'[p].op = o => ~Fresh(p)'
      BY <2>1
    <3> QED BY <3>1, <3>2 DEF Keeps
  <2>2. CASE res[o].state = "settled" /\ res[o].committed = B(o)
    BY <2>2 DEF SameRows, Unsettled, Keeps, B
  <2> QED BY <1>1, <2>1, <2>2 DEF Keeps
<1> QED BY <1>1 DEF Kept

LEMMA TempsMove ==
    ASSUME TempsHeld, Held, SameRows, TypeOK, NEW p \in Procs,
           temps' \subseteq temps \/ (temps' \subseteq temps \cup {job[p].op} /\ job[p].step \in Working)
    PROVE  TempsHeld'
<1>1. job[p].op \in Ops /\ temps \subseteq Ops
  BY DEF TypeOK
<1>2. \A o \in temps' : o \in Ops /\ Unsettled(o)
  BY <1>1 DEF TempsHeld, Held
<1> QED BY <1>2 DEF TempsHeld, SameRows, Unsettled

LEMMA CoveredMoves ==
    ASSUME OwnFeeds, Covered, NEW p \in Procs, MovesOn(p), SameRows, TypeOK,
           final' = final, Total(ledger') = Total(ledger), Fresh(p)' => Fresh(p),
           temps' \subseteq temps \/ (temps' \subseteq temps \cup {job[p].op} /\ job[p].step \in Working),
           job'[p].step \in {"look", "open", "link"} => ~job'[p].created,
           job'[p].step = "settle" => job[p].op \notin temps' /\ ~job[p].replayed
    PROVE  Covered'
<1>1. Jobs'
  BY JobsMove DEF Covered
<1>2. TempsHeld'
  BY TempsMove DEF Covered, Jobs
<1>3. Accounted'
  BY AccountSame DEF Covered
<1>4. \A q \in Procs : job'[q].op = job[q].op /\ (Fresh(q)' => Fresh(q))
  BY DEF MovesOn, Fresh
<1>5. Kept'
  BY <1>4, KeptMoves DEF Covered
<1> QED BY <1>1, <1>2, <1>3, <1>5 DEF Covered

LEMMA StepMoves ==
    ASSUME TypeOK, NEW p \in Procs, ~At(p, "idle"), NEW s \in Steps, Goto(p, s),
           s \in Working => job[p].step \in Working
    PROVE  /\ MovesOn(p) /\ job'[p].step = s /\ job'[p].created = job[p].created
           /\ Fresh(p)' => Fresh(p)
<1>1. /\ job'[p].step = s /\ job'[p].op = job[p].op /\ job'[p].replayed = job[p].replayed
      /\ job'[p].created = job[p].created
      /\ \A q \in Procs \ {p} : job'[q] = job[q]
  BY DEF TypeOK, Goto
<1> QED BY <1>1 DEF MovesOn, Fresh

LEMMA UncertainRows ==
    ASSUME TypeOK, NEW o \in Ops, res[o].state = "reserved", Uncertain(o)
    PROVE  SameRows /\ Total(ledger') = Total(ledger)
<1>1. res \in [Ops -> ReservationRow] /\ ledger \in LedgerRow
  BY DEF TypeOK, ReservationRow, LedgerRow
<1>2. SameRows
  BY <1>1, ResStateTyped DEF Uncertain, SameRows, Unsettled, ReservationStates
<1>3. Total(ledger') = Total(ledger)
  BY <1>1 DEF Uncertain, Total, LedgerRow
<1> QED BY <1>2, <1>3

LEMMA UnchangedRows ==
    ASSUME UNCHANGED <<ledger, res>>
    PROVE  SameRows /\ Total(ledger') = Total(ledger)
BY DEF SameRows

(* Steps that leave the ledger, the final paths and what is known of the body *)
LEMMA PlainMove ==
    ASSUME OwnFeeds, Covered, TypeOK, NEW p \in Procs,
           \/ SettleFails(p) \/ VerifyExisting(p) \/ LookForFinal(p) \/ OpenTemporary(p)
           \/ UnlinkTemporary(p) \/ OpenFails(p) \/ Crash(p) \/ CommitRow(p)
    PROVE  Covered'
<1>1. UNCHANGED <<ledger, res, final>> /\ ~At(p, "idle")
  BY DEF SettleFails, VerifyExisting, LookForFinal, OpenTemporary, UnlinkTemporary, OpenFails,
         Crash, CommitRow, At
<1>2. SameRows /\ Total(ledger') = Total(ledger)
  BY <1>1, UnchangedRows
<1>3. ASSUME NEW s \in Steps, Goto(p, s), s \in Working => job[p].step \in Working,
             temps' \subseteq temps \/ (temps' \subseteq temps \cup {job[p].op} /\ job[p].step \in Working),
             s \in {"look", "open", "link"} => job[p].step \in {"look", "open", "link"},
             s = "settle" => job[p].op \notin temps' /\ ~job[p].replayed
      PROVE  Covered'
  <2>1. /\ MovesOn(p) /\ job'[p].step = s /\ job'[p].created = job[p].created
        /\ Fresh(p)' => Fresh(p)
    BY <1>1, <1>3, StepMoves
  <2>2. job[p].step \in {"look", "open", "link"} => ~job[p].created
    BY DEF Covered, Jobs, Uncreated
  <2> QED BY <1>1, <1>2, <1>3, <2>1, <2>2, CoveredMoves
<1>4. CASE SettleFails(p) \/ VerifyExisting(p) \/ OpenFails(p) \/ Crash(p) \/ CommitRow(p)
  <2>1. PICK s \in {"unknown", "idle", "commit"} : Goto(p, s)
    BY <1>4 DEF SettleFails, VerifyExisting, OpenFails, Crash, CommitRow
  <2>2. temps' = temps
    BY <1>4 DEF SettleFails, VerifyExisting, OpenFails, Crash, CommitRow
  <2> QED BY <1>3, <2>1, <2>2 DEF Steps, Working
<1>5. CASE LookForFinal(p) \/ OpenTemporary(p)
  <2>1. PICK s \in {"unknown", "open", "link"} : Goto(p, s)
    BY <1>5 DEF LookForFinal, OpenTemporary
  <2>2. job[p].step \in {"look", "open"} /\ temps' \subseteq temps \cup {job[p].op}
    BY <1>5 DEF LookForFinal, OpenTemporary, At
  <2> QED BY <1>3, <2>1, <2>2 DEF Steps, Working
<1>6. CASE UnlinkTemporary(p)
  <2>1. /\ job[p].step = "unlink" /\ temps' \subseteq temps
        /\ \E s \in {"settle", "unknown"} : Goto(p, s) /\
              (s = "settle" => job[p].op \notin temps' /\ ~job[p].replayed)
    BY <1>6 DEF UnlinkTemporary, Confirms, At
  <2> QED BY <1>3, <2>1 DEF Steps, Working
<1> QED BY <1>4, <1>5, <1>6

LEMMA UnknownMove ==
    ASSUME OwnFeeds, Covered, TypeOK, NEW p \in Procs, SettleUnknown(p)
    PROVE  Covered'
<1>1. /\ ~At(p, "idle") /\ Goto(p, "idle") /\ UNCHANGED <<final, temps>>
      /\ job[p].op \in Ops
  BY DEF SettleUnknown, At, TypeOK
<1>2. SameRows /\ Total(ledger') = Total(ledger)
  BY <1>1, UncertainRows, UnchangedRows DEF SettleUnknown
<1>3. MovesOn(p) /\ job'[p].step = "idle" /\ (Fresh(p)' => Fresh(p))
  BY <1>1, StepMoves DEF Steps, Working
<1> QED BY <1>1, <1>2, <1>3, CoveredMoves

LEMMA FailedWriteMove ==
    ASSUME OwnFeeds, Covered, TypeOK, NEW p \in Procs, WriteFails(p)
    PROVE  Covered'
<1>1. UNCHANGED <<ledger, res, final, temps>> /\ job[p].step = "link"
  BY DEF WriteFails, At
<1>2. /\ job'[p].step = "unlink" /\ job'[p].op = job[p].op /\ job'[p].replayed = job[p].replayed
      /\ job'[p].created = job[p].created
      /\ \A q \in Procs \ {p} : job'[q] = job[q]
  BY DEF TypeOK, WriteFails
<1>3. MovesOn(p) /\ (Fresh(p)' => Fresh(p))
  BY <1>1, <1>2 DEF MovesOn, Fresh, Working, At
<1> QED BY <1>1, <1>2, <1>3, UnchangedRows, CoveredMoves

(* The body reaches its final path: what the process creates it keeps. *)
LEMMA LinkMove ==
    ASSUME OwnFeeds, Covered, TypeOK, NEW p \in Procs, Link(p)
    PROVE  Covered'
<1>0. PICK o \in Ops : job[p].op = o
  BY DEF TypeOK
<1> DEFINE b == PayloadOf[o]
<1>1. UNCHANGED <<ledger, res, temps>> /\ job[p].step = "link" /\ final' = final \cup {b}
  BY <1>0 DEF Link, At
<1>2. /\ job'[p].step = "unlink" /\ job'[p].op = job[p].op /\ job'[p].replayed = job[p].replayed
      /\ job'[p].created = (PayloadOf[job[p].op] \notin final)
      /\ \A q \in Procs \ {p} : job'[q] = job[q]
  BY DEF TypeOK, Link
<1>3. ~job[p].created
  BY <1>1 DEF Covered, Jobs, Uncreated
<1>4. MovesOn(p) /\ (Fresh(p)' => Fresh(p)) /\ job[p].step \in Working
  BY <1>1, <1>2, <1>3 DEF MovesOn, Fresh, Working, At
<1>5. SameRows /\ Total(ledger') = Total(ledger)
  BY <1>1, UnchangedRows
<1>6. Jobs'
  BY <1>0, <1>1, <1>2, <1>4, <1>5, JobsMove DEF Covered
<1>7. TempsHeld' /\ Accounted'
  BY <1>0, <1>1, <1>5, TempsMove, AccountSame DEF Covered, Jobs
<1>8. \A q \in Procs : job'[q].op = job[q].op /\ (Fresh(q)' => Fresh(q))
  BY <1>0, <1>2, <1>4 DEF Fresh
<1>9. \A q \in Ops : Keeps(q) => Keeps(q)'
  BY <1>1, <1>8 DEF Keeps, Unsettled, B
<1>10. b \notin final => Keeps(o)'
  <2> SUFFICES ASSUME b \notin final PROVE Keeps(o)'
    OBVIOUS
  <2>1. ~Fresh(p)'
    BY <1>0, <1>2 DEF Fresh
  <2>2. Unsettled(o)'
    BY <1>0, <1>1, <1>4 DEF Covered, Jobs, Held, Unsettled
  <2>3. ASSUME NEW q \in Procs, q # p, job[q].op = o PROVE ~Fresh(q)
    <3>1. At(q, "idle")
      BY <1>0, <1>1, <2>3, Alone DEF Covered, Jobs, At
    <3> QED BY <3>1 DEF Fresh, Working, At
  <2>4. \A q \in Procs : job'[q].op = o => ~Fresh(q)'
    BY <1>8, <2>1, <2>3
  <2> QED BY <2>2, <2>4 DEF Keeps
<1>11. Kept'
  BY <1>1, <1>9, <1>10 DEF Covered, Kept
<1> QED BY <1>6, <1>7, <1>11 DEF Covered

(* A settlement gives the reservation back and charges what it created. *)
LEMMA SettleMove ==
    ASSUME IsFiniteSet(Ops), OwnFeeds, Covered, TypeOK, TypeOK', NEW p \in Procs, SettleConfirmed(p)
    PROVE  Covered'
<1>0. PICK o \in Ops : job[p].op = o
  BY DEF TypeOK
<1>1. /\ job[p].step = "settle" /\ ~At(p, "idle") /\ UNCHANGED <<final, temps>>
      /\ Goto(p, "commit") \/ Goto(p, "unknown")
  BY DEF SettleConfirmed, At
<1>2. /\ MovesOn(p) /\ job'[p].step \in {"commit", "unknown"}
      /\ (Fresh(p)' => Fresh(p))
  BY <1>1, StepMoves DEF Steps, Working
<1>3. CASE UNCHANGED <<ledger, res>>
  BY <1>1, <1>2, <1>3, UnchangedRows, CoveredMoves
<1>4. CASE /\ Unsettled(o) /\ ledger.reserved >= 2 * B(o)
           /\ ledger' = Settled(o, Charge(p))
           /\ res' = [res EXCEPT ![o] = [state |-> "settled", committed |-> Charge(p)]]
  <2>1. Charge(p) \in Nat /\ (Charge(p) = IF job[p].created THEN B(o) ELSE 0)
    BY <1>0, ChargeBound DEF Charge
  <2>2. /\ res'[o] = [state |-> "settled", committed |-> Charge(p)]
        /\ \A q \in Ops \ {o} : res'[q] = res[q]
    BY <1>4 DEF TypeOK
  <2>3. Total(ledger') = Total(ledger) - Weight(o) + Weight(o)'
    <3>1. Weight(o) = 2 * B(o) /\ Weight(o)' = Charge(p)
      BY <1>4, <2>2 DEF Weight, Unsettled
    <3>2. /\ ledger'.committed = ledger.committed + Charge(p)
          /\ ledger'.reserved = ledger.reserved - 2 * B(o)
      BY <1>4 DEF Settled
    <3>3. ledger.committed \in Nat /\ ledger.reserved \in Nat /\ B(o) \in Nat
      BY SizeOf DEF TypeOK
    <3> QED BY <2>1, <3>1, <3>2, <3>3 DEF Total
  <2>4. Accounted'
    BY <2>2, <2>3, AccountMoves DEF Covered
  <2>5. ASSUME NEW q \in Procs, q # p, ~At(q, "idle") PROVE job[q].op # o
    BY <1>0, <1>1, <2>5, Alone DEF Covered, Jobs
  <2>6. \A q \in Ops \ {o} : Unsettled(q) => Unsettled(q)'
    BY <2>2 DEF Unsettled
  <2>7. TempsHeld'
    <3>1. o \notin temps /\ temps \subseteq Ops
      BY <1>0, <1>1 DEF Covered, Jobs, Settles, At, TypeOK
    <3>2. \A q \in temps : q \in Ops \ {o} /\ Unsettled(q)'
      BY <2>6, <3>1 DEF Covered, TempsHeld
    <3>3. temps' = temps
      BY <1>1
    <3> QED BY <3>2, <3>3 DEF TempsHeld, Unsettled
  <2>8. Held'
    <3> SUFFICES ASSUME NEW q \in Procs, job'[q].step \in Working
                 PROVE  Unsettled(job[q].op)'
      BY DEF Held
    <3>1. q # p /\ job'[q] = job[q] /\ job[q].step \in Working
      BY <1>2 DEF MovesOn, Working
    <3>4. job'[q].op = job[q].op
      BY <3>1
    <3>2. ~At(q, "idle") /\ Unsettled(job[q].op) /\ job[q].op \in Ops
      BY <3>1 DEF Covered, Jobs, Held, Working, At, TypeOK
    <3>3. job[q].op \in Ops \ {o}
      BY <2>5, <3>1, <3>2
    <3> QED BY <2>2, <3>2, <3>3, <3>4 DEF Unsettled
  <2>9. Fed' /\ Uncreated' /\ Settles'
    BY <1>1, <1>2 DEF Covered, Jobs, Fed, Uncreated, Settles, MovesOn, At
  <2>10. Keeps(o) => Keeps(o)'
    <3> SUFFICES ASSUME Keeps(o) PROVE Keeps(o)'
      OBVIOUS
    <3>1. ~Fresh(p)
      BY <1>0, <1>4 DEF Keeps, Unsettled
    <3>2. job[p].created
      BY <1>1, <3>1 DEF Fresh, Working, Covered, Jobs, Settles, At
    <3> QED BY <2>1, <2>2, <3>2 DEF Keeps, B
  <2>11. \A q \in Procs : job'[q].op = job[q].op /\ (Fresh(q)' => Fresh(q))
    BY <1>2 DEF MovesOn, Fresh
  <2>12. ASSUME NEW q \in Ops \ {o}, Keeps(q) PROVE Keeps(q)'
    BY <2>2, <2>6, <2>11, <2>12 DEF Keeps, B, Unsettled
  <2>13. Kept'
    BY <1>1, <2>10, <2>12 DEF Covered, Kept
  <2> QED BY <2>4, <2>7, <2>8, <2>9, <2>13 DEF Covered, Jobs
<1> QED BY <1>0, <1>3, <1>4 DEF SettleConfirmed

(* A process begins on an operation of its own. *)
LEMMA BeginMove ==
    ASSUME IsFiniteSet(Ops), OwnFeeds, Covered, TypeOK, TypeOK', NEW p \in Procs, NEW o \in Ops,
           Reserve(p, o) \/ ReplayReserved(p, o) \/ ReplaySettled(p, o)
    PROVE  Covered'
<1>1. PICK replayed \in BOOLEAN, step \in {"open", "look", "verify"} :
          /\ Begin(p, o, replayed, step)
          /\ step \in Working => Unsettled(o)'
          /\ ~replayed => Reserve(p, o)
  <2>1. CASE Reserve(p, o)
    <3>1. res'[o].state = "reserved" /\ Begin(p, o, FALSE, "open")
      BY <2>1, ResStateTyped DEF Reserve, TypeOK, ReservationRow, ReservationStates
    <3> QED BY <2>1, <3>1 DEF Unsettled
  <2>2. CASE ReplayReserved(p, o)
    BY <2>2 DEF ReplayReserved, Unsettled
  <2>3. CASE ReplaySettled(p, o)
    BY <2>3 DEF ReplaySettled, Working
  <2> QED BY <2>1, <2>2, <2>3
<1>2. /\ job'[p] = [step |-> step, op |-> o, replayed |-> replayed,
                    created |-> FALSE, failed |-> FALSE]
      /\ \A q \in Procs \ {p} : job'[q] = job[q]
  <2>1. step \in Steps
    BY DEF Steps
  <2> QED BY <1>1, <2>1, BeginTyped
<1>3. /\ job'[p].step = step /\ job'[p].op = o /\ job'[p].replayed = replayed /\ ~job'[p].created
      /\ o \in Feeds[p] /\ UNCHANGED <<final, temps>>
  BY <1>1, <1>2 DEF Begin
<1>4. \A q \in Ops \ {o} : res'[q] = res[q]
  BY DEF Reserve, ReplayReserved, ReplaySettled, TypeOK
<1>5. Unsettled(o) => Unsettled(o)'
  BY DEF Reserve, ReplayReserved, ReplaySettled, Unsettled
<1>6. \A q \in Ops : Unsettled(q) => Unsettled(q)'
  BY <1>4, <1>5 DEF Unsettled
<1>7. TempsHeld'
  BY <1>3, <1>6 DEF Covered, TempsHeld, TypeOK
<1>8. Fed'
  BY <1>2, <1>3 DEF Covered, Jobs, Fed, At
<1>9. Held'
  <2> SUFFICES ASSUME NEW q \in Procs, job'[q].step \in Working
               PROVE  Unsettled(job[q].op)'
    BY DEF Held
  <2>1. CASE q = p
    <3>1. step \in Working /\ job'[q].op = o
      BY <1>3, <2>1
    <3> QED BY <1>1, <3>1 DEF Unsettled
  <2>2. CASE q # p
    <3>1. job'[q] = job[q] /\ job[q].op \in Ops /\ Unsettled(job[q].op)
      BY <1>2, <2>2 DEF Covered, Jobs, Held, TypeOK
    <3>2. job'[q].op = job[q].op /\ res'[job[q].op].state \in {"reserved", "uncertain"}
      BY <1>6, <3>1 DEF Unsettled
    <3> QED BY <3>2 DEF Unsettled
  <2> QED BY <2>1, <2>2
<1>10. Uncreated' /\ Settles'
  BY <1>2, <1>3 DEF Covered, Jobs, Uncreated, Settles, At
<1>11. ASSUME NEW q \in Ops, Keeps(q) PROVE Keeps(q)'
  <2>1. CASE Reserve(p, o)
    <3>1. q # o
      BY <1>11, <2>1 DEF Reserve, Keeps, Unsettled
    <3>2. \A r \in Procs : job'[r].op = q => job'[r] = job[r]
      BY <1>2, <1>3, <3>1
    <3>3. res'[q] = res[q]
      BY <1>4, <3>1
    <3> QED BY <1>11, <3>2, <3>3 DEF Keeps, Unsettled, Fresh, B
  <2>2. CASE ~Reserve(p, o)
    <3>1. replayed /\ res' = res
      BY <1>1, <2>2 DEF ReplayReserved, ReplaySettled
    <3>2. ~Fresh(p)'
      BY <1>3, <3>1 DEF Fresh
    <3>3. \A r \in Procs \ {p} : job'[r] = job[r]
      BY <1>2
    <3>4. Unsettled(q)' <=> Unsettled(q)
      BY <3>1 DEF Unsettled
    <3>5. ASSUME NEW r \in Procs, job'[r].op = q, Fresh(r)' PROVE job[r].op = q /\ Fresh(r)
      <4>1. r # p
        BY <3>2, <3>5
      <4> QED BY <3>3, <3>5, <4>1 DEF Fresh
    <3> QED BY <1>11, <3>1, <3>4, <3>5 DEF Keeps, B
  <2> QED BY <2>1, <2>2
<1>12. Kept'
  BY <1>3, <1>11 DEF Covered, Kept
<1>13. Accounted'
  <2>1. CASE UNCHANGED <<ledger, res>>
    BY <2>1, UnchangedRows, AccountSame DEF Covered
  <2>2. CASE Reserve(p, o)
    <3>1. res'[o].state = "reserved" /\ res[o].state = "none"
      BY <2>2, ResStateTyped DEF Reserve, TypeOK, ReservationRow, ReservationStates
    <3>2. Weight(o) = 0 /\ Weight(o)' = 2 * B(o)
      BY <3>1 DEF Weight, Unsettled, B
    <3>3. ledger.committed \in Nat /\ ledger.reserved \in Nat /\ B(o) \in Nat
      BY SizeOf DEF TypeOK
    <3>4. ledger'.committed = ledger.committed /\ ledger'.reserved = ledger.reserved + 2 * B(o)
      BY <2>2 DEF Reserve, Reserved
    <3>5. Total(ledger') = Total(ledger) - Weight(o) + Weight(o)'
      BY <3>2, <3>3, <3>4 DEF Total
    <3> QED BY <1>4, <3>5, AccountMoves DEF Covered
  <2> QED BY <2>1, <2>2 DEF ReplayReserved, ReplaySettled
<1> QED BY <1>7, <1>8, <1>9, <1>10, <1>12, <1>13 DEF Covered, Jobs

(* Steps that leave the processes and the files. *)
LEMMA RowsMove ==
    ASSUME Covered, TypeOK, UNCHANGED <<job, final, temps>>, SameRows,
           Total(ledger') = Total(ledger)
    PROVE  Covered'
<1>1. \A o \in Ops : Unsettled(o) => Unsettled(o)'
  BY DEF SameRows, Unsettled
<1>2. Jobs'
  <2>1. Held'
    <3>1. \A p \in Procs : job[p].op \in Ops
      BY DEF TypeOK
    <3> QED BY <1>1, <3>1 DEF Covered, Jobs, Held, Unsettled
  <2> QED BY <2>1 DEF Covered, Jobs, Fed, Uncreated, Settles, At
<1>3. TempsHeld'
  BY <1>1 DEF Covered, TempsHeld, TypeOK
<1>4. Kept' /\ Accounted'
  BY KeptMoves, AccountSame DEF Covered, Fresh
<1> QED BY <1>2, <1>3, <1>4 DEF Covered

(* Every step keeps the invariant, and it holds at the start. *)
LEMMA NextCovered ==
    ASSUME IsFiniteSet(Ops), OwnFeeds
    PROVE  TypeOK /\ TypeOK' /\ Covered /\ [Next]_vars => Covered'
<1> SUFFICES ASSUME TypeOK, TypeOK', Covered, [Next]_vars PROVE Covered'
  OBVIOUS
<1>1. CASE \E p \in Procs : ProcStep(p)
  BY <1>1, BeginMove, PlainMove, LinkMove, SettleMove, UnknownMove DEF ProcStep
<1>2. CASE \E p \in Procs : SettleFails(p) \/ OpenFails(p) \/ WriteFails(p) \/ Crash(p)
  BY <1>2, PlainMove, FailedWriteMove
<1>3. CASE \E p \in Procs : LeaseLapses(p)
  BY <1>3, UnchangedRows, RowsMove DEF LeaseLapses
<1>4. CASE \E o \in Ops : Hold(o)
  BY <1>4, UncertainRows, RowsMove DEF Hold
<1>5. CASE UNCHANGED vars
  BY <1>5, UnchangedRows, RowsMove DEF vars
<1> QED BY <1>1, <1>2, <1>3, <1>4, <1>5 DEF Next

LEMMA InitCovered == ASSUME IsFiniteSet(Ops), Init PROVE Covered
<1>1. Jobs /\ TempsHeld /\ Kept
  BY DEF Init, Jobs, Fed, Held, Uncreated, Settles, TempsHeld, Kept, At, Working
<1>2. \A o \in Ops : Weights[o] = 0
  BY DEF Init, Weights, Weight, Unsettled
<1>3. SumOf(Weights, Ops) = 0
  <2> DEFINE Bad == {S \in SUBSET Ops : SumOf(Weights, S) # 0}
  <2>1. SUFFICES ASSUME Bad # {} PROVE FALSE
    OBVIOUS
  <2>2. PICK S \in Bad : \A R \in Bad : R \subseteq S => R = S
    <3>1. Bad \in SUBSET (SUBSET Ops)
      OBVIOUS
    <3> HIDE DEF Bad
    <3> QED BY <2>1, <3>1, SmallestMember
  <2>3. IsFiniteSet(S) /\ S \subseteq Ops
    BY FS_Subset
  <2>4. S # {}
    BY <2>3, SumUnfoldsAtFirst
  <2>5. First(S) \in S /\ Rest(S) \subseteq S /\ Rest(S) # S
    BY <2>4 DEF First, Rest
  <2>6. SumOf(Weights, Rest(S)) = 0
    BY <2>2, <2>3, <2>5
  <2>7. SumOf(Weights, S) = Weights[First(S)] + SumOf(Weights, Rest(S))
    BY <2>3, <2>4, SumUnfoldsAtFirst
  <2> QED BY <1>2, <2>3, <2>5, <2>6, <2>7
<1>4. Accounted
  BY <1>3, QuotaAssumption DEF Init, Accounted, Total
<1> QED BY <1>1, <1>4 DEF Covered

(* The bytes of the temporaries, summed by an operator, are the sum of a      *)
(* function.                                                                  *)
IsSumB(S, g) == g = [T \in SUBSET S |-> IF T = {} THEN 0 ELSE B(First(T)) + g[Rest(T)]]

LEMMA TempBytes ==
    ASSUME NEW S \in SUBSET Ops
    PROVE  MapThenSumSet(B, S) = SumOf(Bytes, S)
<1>1. MapThenSumSet(B, S) = (CHOOSE g : IsSumB(S, g))[S]
  BY DEF MapThenSumSet, MapThenFoldSet, IsSumB, First, Rest
<1>2. \A T \in SUBSET S : T # {} => B(First(T)) = Bytes[First(T)]
  BY DEF First, Bytes
<1>3. \A g : IsSumB(S, g) <=> IsSum(Bytes, S, g)
  BY <1>2 DEF IsSumB, IsSum
<1>4. (CHOOSE g : IsSumB(S, g)) = Partial(Bytes, S)
  BY <1>3 DEF Partial
<1> QED BY <1>1, <1>4, SumUnfolds

(* The invariant implies the property. *)
LEMMA CoveredFits ==
    ASSUME IsFiniteSet(Ops), TypeOK, Covered PROVE OccupancyCovered
<1> DEFINE K == {o \in Ops : Keeps(o)}
           U == {o \in Ops : Unsettled(o)}
<1>1. /\ \A o \in K : Weights[o] >= B(o)
      /\ \A o \in U : Weights[o] >= 2 * B(o)
  <2>1. \A o \in Ops : B(o) \in Nat
    BY SizeOf
  <2> QED BY <2>1 DEF Keeps, Weights, Weight, Unsettled
<1>2. temps \in SUBSET U /\ final \in SUBSET Payloads /\ temps \in SUBSET Ops
  BY DEF TypeOK, Covered, TempsHeld
<1>3. \A b \in final : \E o \in K : PayloadOf[o] = b
  BY DEF Covered, Kept
<1>4. IsFiniteSet(final)
  <2> DEFINE Image == {PayloadOf[o] : o \in Ops}
  <2>1. PayloadOf \in [Ops -> Image]
    BY QuotaAssumption
  <2>2. PayloadOf \in Surjection(Ops, Image)
    BY <2>1 DEF Surjection
  <2>3. final \subseteq Image
    BY <1>3
  <2>4. IsFiniteSet(Image)
    BY <2>2, FS_Surjection
  <2> QED BY <2>3, <2>4, FS_Subset
<1>5. SumOf(Size, final) + SumOf(Bytes, temps) <= SumOf(Weights, Ops)
  <2>1. K \in SUBSET Ops /\ U \in SUBSET Ops /\ Weights \in [Ops -> Nat]
    BY WeightsTyped
  <2> HIDE DEF K, U
  <2> QED BY <1>1, <1>2, <1>3, <1>4, <2>1, FilesCovered
<1>6. OnDisk = Baseline + SumOf(Size, final) + SumOf(Bytes, temps)
  BY <1>2, TempBytes DEF OnDisk, SumOf
<1>7. /\ SumOf(Size, final) \in Nat /\ SumOf(Bytes, temps) \in Nat /\ SumOf(Weights, Ops) \in Nat
      /\ Baseline \in Nat
  <2>1. IsFiniteSet(temps)
    BY <1>2, FS_Subset
  <2> QED BY <1>2, <1>4, <2>1, BytesTyped, WeightsTyped, SumSplits, QuotaAssumption
<1> HIDE DEF K, U
<1> QED BY <1>5, <1>6, <1>7 DEF OccupancyCovered, Covered, Accounted

(* Every byte on disk is charged or reserved, for any number of processes,    *)
(* operations, payloads and faults, if each operation is ingested by one      *)
(* process: with two ingesting the same one it fails (MCPayloadQuotaReplay).  *)
THEOREM OccupancyCoveredHolds ==
    ASSUME IsFiniteSet(Ops), OwnFeeds
    PROVE  Spec => []OccupancyCovered
<1>1. Init => Covered
  BY InitCovered
<1>2. TypeOK /\ TypeOK' /\ Covered /\ [Next]_vars => Covered'
  BY NextCovered
<1>3. TypeOK /\ Covered => OccupancyCovered
  BY CoveredFits
<1> QED BY <1>1, <1>2, <1>3, TypeCorrect, PTL DEF Spec

(* Under the same hypothesis a file that exists stays charged: its payload    *)
(* has an operation that is still open or was settled with its bytes.         *)
THEOREM FinalChargedHolds ==
    ASSUME IsFiniteSet(Ops), OwnFeeds
    PROVE  Spec => []FinalCharged
<1>1. Init => Covered
  BY InitCovered
<1>2. TypeOK /\ TypeOK' /\ Covered /\ [Next]_vars => Covered'
  BY NextCovered
<1>3. TypeOK /\ Covered => FinalCharged
  BY SizeOf DEF Covered, Kept, Keeps, FinalCharged
<1> QED BY <1>1, <1>2, <1>3, TypeCorrect, PTL DEF Spec

=============================================================================
