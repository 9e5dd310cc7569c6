------------------------------ MODULE Ingestion ------------------------------
(***************************************************************************)
(* Ingestion of recorded calls: a producing process appends the records of *)
(* its calls to a file a day (runtime-call-audit.ts), the workers of the   *)
(* API processes scan the directory, read each file from its checkpoint    *)
(* (CallObservabilityWorker, CallObservabilityCollector), and the store    *)
(* makes receipts, invocation rows, in-flight deltas and checkpoints of    *)
(* the lines (CallObservabilityStore).                                     *)
(*                                                                         *)
(* A position is a line of a file; the fragment a failed append leaves at  *)
(* the end is one more position.  The store commits up to 16 lines in one  *)
(* transaction; here each line is a step, so that every state between two  *)
(* batches is one between two lines.  The process of the source, once      *)
(* dead, is never seen alive again.                                        *)
(***************************************************************************)
EXTENDS Integers, Sequences, FiniteSets

CONSTANTS Calls,        \* calls of the producing process
          NoCall,
          Workers,      \* API processes that collect
          Steady,       \* the one whose timer is relied upon
          LastDay,      \* bound: the days, and files, of the producer
          MaxProgress,  \* bound: progress records of a call
          MaxFaults     \* bound: lost records, failed passes, crashes of workers

ASSUME IngestionAssumption ==
    /\ NoCall \notin Calls
    /\ Steady \in Workers
    /\ LastDay \in Nat \ {0}
    /\ MaxProgress \in Nat
    /\ MaxFaults \in Nat

VARIABLES
    alive, day,       \* the producing process, and the file it writes to
    made,             \* [Calls -> record]: the last record the call has made
    log, torn,        \* per file: its complete lines, and a fragment after them
    checkpoint,       \* per file: the position up to which lines are handled
    receipts,         \* records with a receipt
    quarantined,      \* <<file, position>> that are set aside
    row,              \* the invocation rows
    members,          \* per call: the sum of the in-flight deltas emitted
    proof,            \* the exit of the producing process is recorded
    worker,           \* [Workers -> what the worker of a process holds]
    faults

source   == <<alive, day, made, log, torn>>
facts    == <<receipts, row, members>>
database == <<checkpoint, quarantined, facts, proof>>
vars     == <<source, database, worker, faults>>

Files   == 1..LastDay
Phases  == {"started", "progress", "finished"}
Line    == [call : Calls \cup {NoCall}, phase : Phases \cup {"none"}, version : Nat]
Garbled == [call |-> NoCall, phase |-> "none", version |-> 0]
Record  == {l \in Line : l.call \in Calls /\ l.phase # "none"}

Row   == [phase : Phases \cup {"none"}, source : Nat, revision : Nat,
          by : {"observed", "timeout", "exit"}]
NoRow == [phase |-> "none", source |-> 0, revision |-> 0, by |-> "observed"]

\* A worker between two scans.
Resting == [pc |-> "idle", todo |-> {}, clean |-> TRUE, cutoff |-> {},
            file |-> 0, read |-> 0, lines |-> 0, partial |-> FALSE,
            candidates |-> {}]
Worker  == [pc : {"idle", "scan", "reading", "sealed", "recover"},
            todo : SUBSET Files, clean : BOOLEAN, cutoff : SUBSET (Calls \X Nat), file : 0..LastDay, read : Nat, lines : Nat, partial : BOOLEAN, candidates : SUBSET (Calls \X Nat)]

TypeOK ==
    /\ alive \in BOOLEAN
    /\ day \in Files
    /\ made \in [Calls -> Line]
    /\ log \in [Files -> Seq(Line)]
    /\ torn \in [Files -> BOOLEAN]
    /\ checkpoint \in [Files -> Nat]
    /\ receipts \subseteq Record
    /\ quarantined \subseteq Files \X Nat
    /\ row \in [Calls -> Row]
    /\ members \in [Calls -> Int]
    /\ proof \in BOOLEAN
    /\ worker \in [Workers -> Worker]
    /\ faults \in 0..MaxFaults

Init ==
    /\ alive = TRUE
    /\ day = 1
    /\ made = [c \in Calls |-> Garbled]
    /\ log = [f \in Files |-> <<>>]
    /\ torn = [f \in Files |-> FALSE]
    /\ checkpoint = [f \in Files |-> 0]
    /\ receipts = {}
    /\ quarantined = {}
    /\ row = [c \in Calls |-> NoRow]
    /\ members = [c \in Calls |-> 0]
    /\ proof = FALSE
    /\ worker = [w \in Workers |-> Resting]
    /\ faults = 0

-----------------------------------------------------------------------------
(* The producer.                                                           *)

\* beginRuntimeCall, progress and finish: the next version of a call.
NextRecord(c, phase) ==
    /\ alive
    /\ phase = "started" => made[c] = Garbled
    /\ phase # "started" => made[c].phase \in {"started", "progress"}
    /\ phase = "progress" => made[c].version <= MaxProgress
    /\ made' = [made EXCEPT ![c] = [call |-> c, phase |-> phase, version |-> @.version + 1]]

\* The line reaches the file; after a fragment it only completes a garbled one.
Write(c, phase) ==
    /\ NextRecord(c, phase)
    /\ log' = [log EXCEPT ![day] = Append(@, IF torn[day] THEN Garbled ELSE made'[c])]
    /\ torn' = [torn EXCEPT ![day] = FALSE]
    /\ UNCHANGED <<alive, day, database, worker, faults>>

\* The queue or the memory budget is full, or the append fails: with nothing
\* written, or after a part of the line.
Drop(c, phase, part) ==
    /\ NextRecord(c, phase)
    /\ faults < MaxFaults
    /\ faults' = faults + 1
    /\ torn' = [torn EXCEPT ![day] = @ \/ part]
    /\ UNCHANGED <<alive, day, log, database, worker>>

Rotate ==
    /\ alive
    /\ day < LastDay
    /\ day' = day + 1
    /\ UNCHANGED <<alive, made, log, torn, database, worker, faults>>

Exit ==
    /\ alive
    /\ alive' = FALSE
    /\ UNCHANGED <<day, made, log, torn, database, worker, faults>>

-----------------------------------------------------------------------------
(* The store.                                                              *)

\* What the row becomes when record r of a call with row p is applied.
Observed(p, r) ==
    [phase |-> r.phase, source |-> r.version, revision |-> p.revision + 1, by |-> "observed"]

\* The version is the source's, not that of the row, which reconciliation raises.
StaleByRevision(p, r) == r.version <= p.revision
StaleUnlessHigher(p, r) == FALSE
Stale(p, r) == r.version <= p.source

\* Only an observed end takes back an inferred one.
KeepsInference(p, r) == p.by # "observed" /\ r.phase # "finished"

\* An observed end is not followed by anything.
Mutation(p, r) == p.phase = "finished" /\ p.by = "observed" /\ r.version > p.source

\* inFlightMembershipEvent: how the row of a call moves from p to q.
EndsAlways(p, q) ==
    IF p.phase = "none" /\ q.phase = "started" THEN 1
    ELSE IF q.phase = "finished" THEN -1 ELSE 0
Delta(p, q) ==
    IF p.phase = "none" /\ q.phase = "started" THEN 1
    ELSE IF p.phase = "started" /\ q.phase = "finished" THEN -1 ELSE 0

SetRow(c, q) ==
    /\ row' = [row EXCEPT ![c] = q]
    /\ members' = [members EXCEPT ![c] = @ + Delta(row[c], q)]

SetAside(f, i) == quarantined' = quarantined \cup {<<f, i>>}

\* A prepared record in its transaction: a duplicate, a mutation of an end, a
\* stale record, or a new revision of the row.
IngestRecord(f, i, r) ==
    LET p == row[r.call]
        known == r \in receipts
        mutates == ~ known /\ Mutation(p, r)
        applies == ~ known /\ ~ mutates /\ ~ Stale(p, r) /\ ~ KeepsInference(p, r)
    IN  /\ receipts' = IF mutates THEN receipts ELSE receipts \cup {r}
        /\ IF mutates THEN SetAside(f, i) ELSE UNCHANGED quarantined
        /\ IF applies THEN SetRow(r.call, Observed(p, r)) ELSE UNCHANGED <<row, members>>

\* checkpoint(): never back, and forward only from where the session began; a
\* conflict would undo the transaction.
InStep(f, from, to) == checkpoint[f] >= to \/ checkpoint[f] = from
SkipAhead(f, from, to) == checkpoint' = [checkpoint EXCEPT ![f] = to + 1]
Advance(f, from, to) ==
    checkpoint' = [checkpoint EXCEPT ![f] = IF @ >= to THEN @ ELSE to]

-----------------------------------------------------------------------------
(* The collector: one pass over one file.                                  *)

Exists(f) == log[f] # <<>> \/ torn[f]

\* The scan leaves the file behind; what it has left unread or set aside there
\* forbids conclusions about missing evidence.
Left(w, untroubled) ==
    [worker[w] EXCEPT !.pc = "scan", !.todo = @ \ {worker[w].file},
                      !.clean = @ /\ untroubled,
                      !.file = 0, !.read = 0, !.lines = 0, !.partial = FALSE]

HaveRead(w, i, untroubled) ==
    [worker[w] EXCEPT !.read = i, !.clean = @ /\ untroubled]

\* A file the scan has not visited yet, or the one a failed pass retains.
Open(w, f) ==
    /\ worker[w].pc = "scan"
    /\ worker[w].file \in {0, f}
    /\ f \in worker[w].todo
    /\ LET end == Len(log[f])
           past == checkpoint[f] > end
       IN  worker' = [worker EXCEPT ![w] = [worker[w] EXCEPT
               !.pc = "reading", !.file = f,
               !.read = checkpoint[f],
               !.lines = IF past THEN checkpoint[f] ELSE end,
               !.partial = torn[f] /\ ~ past]]
    /\ UNCHANGED <<source, database, faults>>

\* The next line with its checkpoint, in one transaction.  The hash of a line
\* that is no record is set aside.  The pass may have read its share with it, and
\* leaves the rest of the file for another.
IngestLine(w, share) ==
    LET f == worker[w].file
        i == worker[w].read + 1
        l == log[f][i]
    IN  /\ worker[w].pc = "reading"
        /\ i <= worker[w].lines
        /\ share => i < worker[w].lines
        /\ InStep(f, i - 1, i)
        /\ Advance(f, i - 1, i)
        /\ IF l = Garbled THEN SetAside(f, i) /\ UNCHANGED facts
                          ELSE IngestRecord(f, i, l)
        /\ worker' = [worker EXCEPT ![w] =
               IF share THEN Left(w, FALSE)
                        ELSE HaveRead(w, i, <<f, i>> \notin quarantined')]
        /\ UNCHANGED <<source, proof, faults>>

\* An error before the commit, or after it: the session is given up, the worker
\* retains the file, and this scan draws no conclusions.
Fail(w) ==
    /\ worker[w].pc \in {"reading", "sealed"}
    /\ faults < MaxFaults
    /\ faults' = faults + 1
    /\ worker' = [worker EXCEPT ![w] = [worker[w] EXCEPT
           !.pc = "scan", !.clean = FALSE, !.read = 0, !.lines = 0, !.partial = FALSE]]
    /\ UNCHANGED <<source, database>>

AtEnd(w) == worker[w].pc = "reading" /\ worker[w].read = worker[w].lines

\* observe(): the process is alive, or nobody can tell.
ObserveOpen(w) ==
    /\ AtEnd(w)
    /\ ~ proof
    /\ IF alive THEN UNCHANGED faults ELSE faults < MaxFaults /\ faults' = faults + 1
    /\ worker' = [worker EXCEPT ![w] = Left(w, ~ worker[w].partial)]
    /\ UNCHANGED <<source, database>>

\* The file has the size the pass began with.
SameSize(w) ==
    LET f == worker[w].file
    IN  \/ checkpoint[f] > Len(log[f])
        \/ worker[w].lines = Len(log[f]) /\ worker[w].partial = torn[f]

\* The exit is recorded, or has been, and the file gets no more lines.  What the
\* producer appended before is read by the next pass; else the file is sealed,
\* and a fragment has to be set aside.
ObserveClosed(w) ==
    /\ AtEnd(w)
    /\ proof \/ ~ alive
    /\ proof' = TRUE
    /\ worker' = [worker EXCEPT ![w] =
           IF SameSize(w) /\ @.partial THEN [worker[w] EXCEPT !.pc = "sealed"]
                                       ELSE Left(w, SameSize(w))]
    /\ UNCHANGED <<source, checkpoint, quarantined, facts, faults>>

RejectFragment(w) ==
    LET f == worker[w].file
        end == worker[w].lines + 1
    IN  /\ worker[w].pc = "sealed"
        /\ InStep(f, end - 1, end)
        /\ Advance(f, end - 1, end)
        /\ SetAside(f, end)
        /\ worker' = [worker EXCEPT ![w] = Left(w, FALSE)]
        /\ UNCHANGED <<source, facts, proof, faults>>

-----------------------------------------------------------------------------
(* The worker: scans, and the recovery of calls without an end.            *)

Unfinished == {c \in Calls : row[c].phase \in {"started", "progress"}}
Revisions(calls) == {<<c, row[c].revision>> : c \in calls}

\* A file that appears while the directory is listed is left to the next scan.
\* Some of the unfinished rows were written more than 45 s before.
BeginScan(w) ==
    /\ worker[w].pc = "idle"
    /\ \E old \in SUBSET Revisions(Unfinished) :
           worker' = [worker EXCEPT ![w] = [Resting EXCEPT
               !.pc = "scan", !.todo = {f \in Files : Exists(f)}, !.cutoff = old]]
    /\ UNCHANGED <<source, database, faults>>

Scanned(w) ==
    /\ worker[w].pc = "scan"
    /\ worker[w].file = 0
    /\ worker[w].todo = {}

\* Unfinished calls of a source that has exited, and those without a record for
\* long: only after a scan that has left nothing behind.
CleanScan(w) == worker[w].clean
Candidates(w) ==
    {p \in Revisions(Unfinished) : proof \/ p \in worker[w].cutoff}

EndScan(w) ==
    /\ Scanned(w)
    /\ worker' = [worker EXCEPT ![w] = IF CleanScan(w) /\ Candidates(w) # {}
                      THEN [Resting EXCEPT !.pc = "recover", !.candidates = Candidates(w)]
                      ELSE Resting]
    /\ UNCHANGED <<source, database, faults>>

\* reconcile(), against the revision the candidates were read with.
Inferred(p) ==
    [p EXCEPT !.phase = "finished", !.revision = @ + 1, !.by = IF proof THEN "exit" ELSE "timeout"]
Unchanged(c, revision) == row[c].revision = revision /\ row[c].phase # "finished"

Reconciled(w, p) == [worker[w] EXCEPT !.candidates = @ \ {p}]

Reconcile(w, c, revision) ==
    /\ worker[w].pc = "recover"
    /\ <<c, revision>> \in worker[w].candidates
    /\ IF Unchanged(c, revision) THEN SetRow(c, Inferred(row[c]))
                                 ELSE UNCHANGED <<row, members>>
    /\ worker' = [worker EXCEPT ![w] =
           IF @.candidates = {<<c, revision>>} THEN Resting
                                               ELSE Reconciled(w, <<c, revision>>)]
    /\ UNCHANGED <<source, checkpoint, quarantined, receipts, proof, faults>>

\* The process dies, or the recovery fails: nothing is kept but the database.
Crash(w) ==
    /\ worker[w].pc # "idle"
    /\ faults < MaxFaults
    /\ faults' = faults + 1
    /\ worker' = [worker EXCEPT ![w] = Resting]
    /\ UNCHANGED <<source, database>>

-----------------------------------------------------------------------------
Produce ==
    \/ \E c \in Calls, phase \in Phases :
           \/ Write(c, phase)
           \/ \E part \in BOOLEAN : Drop(c, phase, part)
    \/ Rotate
    \/ Exit

Collect(w) ==
    \/ \E f \in Files : Open(w, f)
    \/ \E share \in BOOLEAN : IngestLine(w, share)
    \/ ObserveOpen(w) \/ ObserveClosed(w)
    \/ RejectFragment(w)

Work(w) ==
    \/ Collect(w)
    \/ BeginScan(w) \/ EndScan(w)
    \/ \E p \in worker[w].candidates : Reconcile(w, p[1], p[2])

Next ==
    \/ Produce
    \/ \E w \in Workers : Work(w) \/ Fail(w) \/ Crash(w)

\* The timer of one worker always runs its next pass, and the pass goes on; the
\* others may stop anywhere.
Spec == Init /\ [][Next]_vars /\ WF_vars(Work(Steady))

-----------------------------------------------------------------------------
(* Properties.                                                             *)

Handled(f, i) ==
    \/ <<f, i>> \in quarantined
    \/ i <= Len(log[f]) /\ log[f][i] \in receipts

\* A line below the checkpoint is never lost: it has its receipt or is set
\* aside, through failures, crashes and two workers at the same file; nothing
\* else has a receipt.
EveryLineCounted ==
    /\ \A f \in Files : \A i \in 1..checkpoint[f] : Handled(f, i)
    /\ \A r \in receipts : \E f \in Files : \E i \in 1..checkpoint[f] :
           i <= Len(log[f]) /\ log[f][i] = r

Received(c) == {r \in receipts : r.call = c}

\* Whatever the order in which the files and workers bring the records of a
\* call, its row shows the one of the highest version; an inferred end yields to
\* an observed one and to nothing else.
LatestRecordShown ==
    \A c \in Calls :
        /\ row[c].phase = "none" <=> Received(c) = {}
        /\ \A r \in Received(c) :
               /\ r.phase = "finished" => row[c].by = "observed"
               /\ row[c].by = "observed" =>
                      r.version < row[c].source \/ (r.version = row[c].source /\ r.phase = row[c].phase)

\* An end that was observed stays, and an inferred one is revised only by it.
EndsStay ==
    [][\A c \in Calls : row[c].phase = "finished" /\ row'[c] # row[c] =>
           row[c].by # "observed" /\ row'[c].phase = "finished" /\ row'[c].by = "observed"]_vars

\* The deltas of a call put it among the calls in flight at most once and take
\* it out at most once, however often its end is inferred, observed or replayed.
MemberOnce ==
    \A c \in Calls : members[c] \in {0, 1} /\ (row[c].phase = "started" => members[c] = 1)

OnDisk(c) == \E f \in Files : \E i \in 1..Len(log[f]) :
                 log[f][i].call = c /\ log[f][i].phase = "finished"

\* The end of a call that is in a file reaches its row; and when the source has
\* exited, a call without one gets an inferred end, also behind a fragment that
\* is never completed.
Settled(c) ==
    IF OnDisk(c) THEN row[c].phase = "finished" /\ row[c].by = "observed"
                 ELSE row[c].phase \in {"none", "finished"}
EveryCallSettles == \A c \in Calls : (OnDisk(c) \/ ~ alive) ~> Settled(c)

\* The deltas of a call that has ended cancel out.
InFlightBalanced == \A c \in Calls : row[c].phase = "finished" => members[c] = 0

\* An end is inferred from an exit only when the files hold no evidence of it.
EvidenceLost == \A c \in Calls : row[c].by = "exit" => ~ OnDisk(c)
=============================================================================
