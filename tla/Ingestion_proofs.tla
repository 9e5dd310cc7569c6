-------------------------- MODULE Ingestion_proofs --------------------------
(***************************************************************************)
(* Proofs about Ingestion, for any calls, workers, files and faults.       *)
(*                                                                         *)
(* Three groups of facts carry the theorems: what the producer writes (a   *)
(* call has one record of each version, and none after its end), what a    *)
(* worker may hold of a file (it never reads past what the file has), and  *)
(* where the row of a call comes from (some record with a receipt has the  *)
(* version that the row shows).                                            *)
(***************************************************************************)
EXTENDS Ingestion, SequenceTheorems, TLAPS

\* Line i of file f.
At(f, i) == log[f][i]

\* Every complete line is a record or garbled.
Lines == \A f \in Files : \A i \in 1..Len(log[f]) : At(f, i) \in Record \cup {Garbled}

\* The records in the files.
Recorded == (UNION {{At(f, i) : i \in 1..Len(log[f])} : f \in Files}) \ {Garbled}

\* The last record of a call.
Made ==
    \A c \in Calls :
        made[c] # Garbled => made[c] \in Record /\ made[c].call = c /\ made[c].version >= 1

\* A record is one of the versions its call has made, the first if it is a
\* start, and the last if it is an end.
Story ==
    \A r \in Recorded :
        /\ 1 <= r.version /\ r.version <= made[r.call].version
        /\ r.version = made[r.call].version => r = made[r.call]
        /\ r.phase = "started" => r.version = 1
        /\ r.phase = "finished" => r.version = made[r.call].version

\* A call has one record of a version.
Unique ==
    \A r \in Recorded, s \in Recorded :
        r.call = s.call /\ r.version = s.version => r = s

\* What a worker has still to read of a file is there.
Sessions ==
    \A w \in Workers :
        /\ worker[w].pc \in {"reading", "sealed"} => worker[w].file \in Files
        /\ worker[w].pc = "reading" =>
               /\ worker[w].read <= worker[w].lines
               /\ worker[w].read < worker[w].lines =>
                      worker[w].lines <= Len(log[worker[w].file])

\* The row of a call shows the version of a record with a receipt; only an end
\* is inferred; a call without a row is not in flight.
Sourced ==
    \A c \in Calls :
        /\ row[c].phase = "none" => row[c] = NoRow /\ members[c] = 0
        /\ row[c].phase # "none" => \E r \in Received(c) : r.version = row[c].source
        /\ row[c].by # "observed" => row[c].phase = "finished"

\* A row has been written at least once, and so had those that are to be settled.
Revised ==
    /\ \A c \in Calls : row[c].phase # "none" => row[c].revision >= 1
    /\ \A w \in Workers : \A p \in worker[w].candidates : p[2] >= 1

IInv ==
    /\ TypeOK /\ Lines /\ Made /\ Story /\ Unique /\ Sessions /\ Revised
    /\ EveryLineCounted /\ Sourced /\ LatestRecordShown /\ MemberOnce

-----------------------------------------------------------------------------
(* Lemmas. *)

\* What it is to be in a file.
LEMMA RecordedIs ==
    \A r : r \in Recorded <=>
        r # Garbled /\ \E f \in Files : \E i \in 1..Len(log[f]) : At(f, i) = r
BY DEF Recorded

\* Garbled lines are not records.
LEMMA GarbledIsNone == Garbled \in Line /\ Garbled \notin Record
BY IngestionAssumption DEF Garbled, Line, Record

\* A record that is made is one of its call, with the next version.
LEMMA Makes ==
    ASSUME TypeOK, Made, NEW c \in Calls, NEW phase \in Phases, NextRecord(c, phase)
    PROVE  /\ made' \in [Calls -> Line]
           /\ made'[c] \in Record /\ made'[c].call = c /\ made'[c].phase = phase
           /\ made'[c].version = made[c].version + 1
           /\ made[c].version \in Nat
           /\ \A d \in Calls \ {c} : made'[d] = made[d]
<1>1. made \in [Calls -> Line] /\ made[c].version \in Nat
  BY DEF TypeOK, Line
<1>2. /\ made' = [made EXCEPT ![c] =
                     [call |-> c, phase |-> phase, version |-> made[c].version + 1]]
  BY DEF NextRecord
<1>3. [call |-> c, phase |-> phase, version |-> made[c].version + 1] \in Record
  BY <1>1, IngestionAssumption DEF Record, Line, Phases
<1>4. Record \subseteq Line
  BY DEF Record
<1> QED
  BY <1>1, <1>2, <1>3, <1>4 DEF Made

\* A write leaves every line where it is, and adds one at the end of a file.
LEMMA Appends ==
    ASSUME TypeOK, Made, NEW c \in Calls, NEW phase \in Phases, Write(c, phase)
    PROVE  /\ log' \in [Files -> Seq(Line)]
           /\ \A f \in Files : Len(log[f]) \in Nat /\ Len(log[f])' \in Nat
           /\ \A f \in Files : Len(log[f]) <= Len(log[f])'
           /\ \A f \in Files : \A i \in 1..Len(log[f]) : At(f, i)' = At(f, i)
           /\ \A f \in Files : \A i \in 1..Len(log[f])' :
                  i \in 1..Len(log[f]) \/ At(f, i)' \in {Garbled, made'[c]}
<1> DEFINE l == IF torn[day] THEN Garbled ELSE made'[c]
<1>1. l \in Line /\ l \in {Garbled, made'[c]}
  BY Makes, GarbledIsNone DEF Write, Record
<1>2. log' = [log EXCEPT ![day] = Append(log[day], l)] /\ day \in Files
      /\ log \in [Files -> Seq(Line)]
  BY DEF Write, TypeOK
<1> HIDE DEF l
<1>3. \A f \in Files : log[f] \in Seq(Line)
  BY <1>2
<1>4. /\ Append(log[day], l) \in Seq(Line)
      /\ Len(Append(log[day], l)) = Len(log[day]) + 1
      /\ \A i \in 1..Len(log[day]) : Append(log[day], l)[i] = log[day][i]
      /\ Append(log[day], l)[Len(log[day]) + 1] = l
  BY <1>1, <1>2, <1>3, AppendProperties
<1>5. \A f \in Files : Len(log[f]) \in Nat
  BY <1>3, LenProperties
<1>6. \A f \in Files : log'[f] = IF f = day THEN Append(log[day], l) ELSE log[f]
  BY <1>2
<1>7. log' \in [Files -> Seq(Line)]
  BY <1>2, <1>4
<1>8. \A f \in Files : Len(log'[f]) \in Nat /\ Len(log[f]) <= Len(log'[f])
  <2>1. \A f \in Files \ {day} : log'[f] = log[f]
    BY <1>6
  <2>2. log'[day] = Append(log[day], l)
    BY <1>2, <1>6
  <2> QED
    BY <1>2, <1>4, <1>5, <2>1, <2>2
<1>9. \A f \in Files : \A i \in 1..Len(log[f]) : log'[f][i] = log[f][i]
  BY <1>4, <1>6
<1>10. \A f \in Files : \A i \in 1..Len(log'[f]) :
          i \in 1..Len(log[f]) \/ log'[f][i] \in {Garbled, made'[c]}
  BY <1>1, <1>2, <1>4, <1>5, <1>6
<1> QED
  BY <1>5, <1>7, <1>8, <1>9, <1>10 DEF At

\* Only a write changes the files.
LEMMA LogSteps ==
    ASSUME [Next]_vars
    PROVE  log' = log \/ \E c \in Calls, phase \in Phases : Write(c, phase)
<1>1. CASE Produce
  BY <1>1 DEF Produce, Drop, Rotate, Exit
<1>2. ASSUME NEW w \in Workers, Work(w) \/ Fail(w) \/ Crash(w) PROVE source' = source
  BY <1>2 DEF Work, Collect, Open, IngestLine, ObserveOpen, ObserveClosed, RejectFragment,
              BeginScan, EndScan, Reconcile, Fail, Crash
<1> QED
  BY <1>1, <1>2 DEF Next, vars, source

\* So no line changes or goes away.
LEMMA Grows ==
    ASSUME TypeOK, Made, [Next]_vars
    PROVE  /\ \A f \in Files : Len(log[f]) \in Nat /\ Len(log[f])' \in Nat
           /\ \A f \in Files : Len(log[f]) <= Len(log[f])'
           /\ \A f \in Files : \A i \in 1..Len(log[f]) : At(f, i)' = At(f, i)
<1>1. CASE \E c \in Calls, phase \in Phases : Write(c, phase)
  BY <1>1, Appends
<1>2. CASE log' = log
  BY <1>2, LenProperties DEF TypeOK, At
<1> QED
  BY <1>1, <1>2, LogSteps

-----------------------------------------------------------------------------
(* Types. *)

\* What a worker holds between two scans is well typed.
LEMMA RestingTyped == Resting \in Worker
BY IngestionAssumption DEF Resting, Worker, Files

\* So is what it holds when it leaves a file,
LEMMA LeftTyped ==
    ASSUME TypeOK, NEW w \in Workers, NEW b \in BOOLEAN
    PROVE  /\ Left(w, b) \in Worker
           /\ Left(w, b).pc = "scan" /\ Left(w, b).candidates = worker[w].candidates
<1> DEFINE W == worker[w]
           T == W.todo \ {W.file}
           b2 == W.clean /\ b
           q == FALSE
           f == 0
<1>1. W \in Worker
  BY DEF TypeOK
<1>2. T \in SUBSET Files
  BY <1>1 DEF Worker
<1>3. b2 \in BOOLEAN
  OBVIOUS
<1>4. q \in BOOLEAN
  OBVIOUS
<1>5. f \in 0..LastDay
  BY IngestionAssumption
<1> DEFINE V == [W EXCEPT !.pc = "scan", !.todo = T, !.clean = b2,
                          !.file = f, !.read = 0, !.lines = 0, !.partial = q]
<1>6. Left(w, b) = V
  BY DEF Left
<1> HIDE DEF W, T, b2, q, f
<1>7. V \in Worker /\ V.pc = "scan" /\ V.candidates = W.candidates
  BY <1>1, <1>2, <1>3, <1>4, <1>5 DEF Worker
<1> HIDE DEF V
<1> QED
  BY <1>6, <1>7 DEF W

\* and when it has read a line.
LEMMA HaveReadTyped ==
    ASSUME TypeOK, NEW w \in Workers, NEW i \in Nat, NEW b \in BOOLEAN
    PROVE  /\ HaveRead(w, i, b) \in Worker
           /\ HaveRead(w, i, b).pc = worker[w].pc
           /\ HaveRead(w, i, b).file = worker[w].file
           /\ HaveRead(w, i, b).read = i
           /\ HaveRead(w, i, b).lines = worker[w].lines
           /\ HaveRead(w, i, b).candidates = worker[w].candidates
<1> DEFINE W == worker[w]
           b2 == W.clean /\ b
<1>1. W \in Worker
  BY DEF TypeOK
<1>2. b2 \in BOOLEAN
  OBVIOUS
<1>3. HaveRead(w, i, b) = [W EXCEPT !.read = i, !.clean = b2]
  BY DEF HaveRead
<1> HIDE DEF W, b2
<1> QED
  BY <1>1, <1>2, <1>3 DEF Worker, W

\* The initial state is well typed.
LEMMA InitTyped == Init => TypeOK
<1> SUFFICES ASSUME Init PROVE TypeOK
  OBVIOUS
<1>1. made \in [Calls -> Line]
  BY GarbledIsNone DEF Init
<1>2. log \in [Files -> Seq(Line)] /\ torn \in [Files -> BOOLEAN]
  BY DEF Init
<1>3. day \in Files /\ checkpoint \in [Files -> Nat] /\ members \in [Calls -> Int]
  BY IngestionAssumption DEF Init, Files
<1>4. row \in [Calls -> Row]
  BY DEF Init, NoRow, Row, Phases
<1>5. worker \in [Workers -> Worker] /\ faults \in 0..MaxFaults
  BY RestingTyped, IngestionAssumption DEF Init
<1>6. alive \in BOOLEAN /\ proof \in BOOLEAN
  BY Zenon DEF Init
<1>7. receipts \subseteq Record /\ quarantined \subseteq Files \X Nat
  BY DEF Init
<1> QED
  BY <1>1, <1>2, <1>3, <1>4, <1>5, <1>6, <1>7 DEF TypeOK

\* A line that is read is in its file, or garbled; the checkpoint goes to it.
LEMMA Reads ==
    ASSUME TypeOK, Lines, Sessions, NEW w \in Workers, NEW share \in BOOLEAN,
           IngestLine(w, share)
    PROVE  \E f \in Files : \E i \in 1..Len(log[f]) :
               /\ f = worker[w].file /\ i = worker[w].read + 1 /\ i <= worker[w].lines
               /\ checkpoint' =
                      [checkpoint EXCEPT ![f] = IF checkpoint[f] >= i THEN checkpoint[f] ELSE i]
               /\ checkpoint[f] >= i \/ checkpoint[f] = i - 1
               /\ \/ At(f, i) = Garbled /\ SetAside(f, i) /\ UNCHANGED facts
                  \/ At(f, i) \in Record /\ IngestRecord(f, i, At(f, i))
<1> DEFINE f == worker[w].file
           i == worker[w].read + 1
<1>1. worker[w] \in Worker /\ worker[w].pc = "reading" /\ i <= worker[w].lines
  BY DEF TypeOK, IngestLine
<1>2. worker[w].read \in Nat /\ worker[w].lines \in Nat
  BY <1>1 DEF Worker
<1>3. f \in Files /\ worker[w].lines <= Len(log[f])
  BY <1>1, <1>2 DEF Sessions
<1>4. Len(log[f]) \in Nat
  BY <1>3, LenProperties DEF TypeOK
<1>5. i \in 1..Len(log[f])
  BY <1>1, <1>2, <1>3, <1>4
<1>6. At(f, i) \in Record \cup {Garbled}
  BY <1>3, <1>5 DEF Lines
<1>7. /\ checkpoint' =
             [checkpoint EXCEPT ![f] = IF checkpoint[f] >= i THEN checkpoint[f] ELSE i]
      /\ checkpoint[f] >= i \/ checkpoint[f] = i - 1
  BY DEF IngestLine, Advance, InStep
<1>8. IF At(f, i) = Garbled THEN SetAside(f, i) /\ UNCHANGED facts
                            ELSE IngestRecord(f, i, At(f, i))
  BY DEF IngestLine, At
<1> QED
  BY <1>1, <1>3, <1>5, <1>6, <1>7, <1>8

\* A fragment that is set aside: the checkpoint goes past the lines.
LEMMA Rejects ==
    ASSUME TypeOK, Sessions, NEW w \in Workers, RejectFragment(w)
    PROVE  \E f \in Files : \E i \in Nat :
               /\ checkpoint' =
                      [checkpoint EXCEPT ![f] = IF checkpoint[f] >= i THEN checkpoint[f] ELSE i]
               /\ checkpoint[f] >= i \/ checkpoint[f] = i - 1
               /\ SetAside(f, i)
               /\ receipts' = receipts
<1>1. worker[w] \in Worker /\ worker[w].pc = "sealed"
  BY DEF TypeOK, RejectFragment
<1>2. worker[w].lines + 1 \in Nat /\ worker[w].file \in Files
  BY <1>1 DEF Worker, Sessions
<1> QED
  BY <1>2 DEF RejectFragment, Advance, InStep, facts

\* The three things that can happen to a record.
LEMMA Ingested ==
    ASSUME TypeOK, NEW f \in Files, NEW i \in Nat, NEW r \in Record, IngestRecord(f, i, r)
    PROVE  LET p == row[r.call]
           IN  \/ /\ UNCHANGED <<receipts, row, members>> /\ r \notin receipts
                  /\ Mutation(p, r) /\ SetAside(f, i)
               \/ /\ receipts' = receipts \cup {r} /\ UNCHANGED <<row, members, quarantined>>
                  /\ r \in receipts \/ Stale(p, r) \/ KeepsInference(p, r)
                  /\ r \notin receipts => ~ Mutation(p, r)
               \/ /\ receipts' = receipts \cup {r} /\ UNCHANGED quarantined
                  /\ SetRow(r.call, Observed(p, r)) /\ r \notin receipts
                  /\ ~ Mutation(p, r) /\ ~ Stale(p, r) /\ ~ KeepsInference(p, r)
BY DEF IngestRecord

-----------------------------------------------------------------------------
(* Workers. *)

\* What Sessions and Revised say of one worker that holds X.
Sound(X) ==
    /\ X.pc \in {"reading", "sealed"} => X.file \in Files
    /\ X.pc = "reading" =>
           X.read <= X.lines /\ (X.read < X.lines => X.lines <= Len(log[X.file]))
    /\ \A p \in X.candidates : p[2] >= 1

\* A worker between two scans has nothing to be sound about.
LEMMA RestingSound == Resting \in Worker /\ Sound(Resting)
BY RestingTyped DEF Resting, Sound

\* Sound workers do sound steps.
LEMMA SoundNow ==
    ASSUME TypeOK, Sessions, Revised, NEW w \in Workers
    PROVE  worker[w] \in Worker /\ Sound(worker[w])
BY DEF TypeOK, Sessions, Revised, Sound

\* Rows are typed, and so is what is read of them.
LEMMA RevisionsTyped ==
    ASSUME TypeOK, Revised
    PROVE  \A p \in Revisions(Unfinished) : p \in Calls \X Nat /\ p[2] >= 1
<1>1. \A c \in Calls : row[c] \in Row
  BY DEF TypeOK
<1> QED
  BY <1>1 DEF Revisions, Unfinished, Revised, Row

\* A failed pass goes back to the scan.
LEMMA FailMoves ==
    ASSUME TypeOK, Sessions, Revised, NEW w \in Workers, Fail(w)
    PROVE  \E X \in Worker : worker' = [worker EXCEPT ![w] = X] /\ Sound(X)
<1> DEFINE W == worker[w]
           q == FALSE
           X == [W EXCEPT !.pc = "scan", !.clean = q, !.read = 0, !.lines = 0, !.partial = q]
<1>1. W \in Worker /\ Sound(W)
  BY SoundNow
<1>2. q \in BOOLEAN
  OBVIOUS
<1>3. worker' = [worker EXCEPT ![w] = X]
  BY DEF Fail
<1> HIDE DEF W, q
<1>4. X \in Worker /\ X.pc = "scan" /\ X.candidates = W.candidates
  BY <1>1, <1>2 DEF Worker
<1> HIDE DEF X
<1> QED
  BY <1>1, <1>3, <1>4 DEF Sound

\* So does a pass that leaves its file.
LEMMA LeftSound ==
    ASSUME TypeOK, Sessions, Revised, NEW w \in Workers, NEW b \in BOOLEAN
    PROVE  Left(w, b) \in Worker /\ Sound(Left(w, b))
BY LeftTyped, SoundNow DEF Sound

\* A pass begins at the checkpoint, and reads no more than the file has.
LEMMA OpenMoves ==
    ASSUME TypeOK, Sessions, Revised, NEW w \in Workers, NEW f \in Files, Open(w, f)
    PROVE  \E X \in Worker : worker' = [worker EXCEPT ![w] = X] /\ Sound(X)
<1> DEFINE W == worker[w]
           past == checkpoint[f] > Len(log[f])
           n == checkpoint[f]
           k == IF past THEN checkpoint[f] ELSE Len(log[f])
           b == torn[f] /\ ~ past
           X == [W EXCEPT !.pc = "reading", !.file = f, !.read = n, !.lines = k, !.partial = b]
<1>1. W \in Worker /\ Sound(W)
  BY SoundNow
<1>2. checkpoint[f] \in Nat /\ Len(log[f]) \in Nat
  BY LenProperties DEF TypeOK
<1>3. n \in Nat /\ k \in Nat /\ n <= k /\ (n < k => k <= Len(log[f]))
  BY <1>2
<1>4. b \in BOOLEAN
  OBVIOUS
<1>5. worker' = [worker EXCEPT ![w] = X]
  BY Zenon DEF Open
<1>6. f \in 0..LastDay
  BY IngestionAssumption DEF Files
<1> HIDE DEF W, past, n, k, b
<1>7. /\ X \in Worker /\ X.pc = "reading" /\ X.file = f /\ X.read = n /\ X.lines = k
      /\ X.candidates = W.candidates
  BY <1>1, <1>3, <1>4, <1>6 DEF Worker
<1> HIDE DEF X
<1> QED
  BY <1>1, <1>3, <1>5, <1>7 DEF Sound

\* A pass that reads a line stays within the lines it found.
LEMMA IngestMoves ==
    ASSUME TypeOK, Lines, Sessions, Revised, NEW w \in Workers, NEW share \in BOOLEAN,
           IngestLine(w, share)
    PROVE  \E X \in Worker : worker' = [worker EXCEPT ![w] = X] /\ Sound(X)
<1> DEFINE i == worker[w].read + 1
<1>1. worker[w] \in Worker /\ Sound(worker[w])
  BY SoundNow
<1>2. worker[w].read \in Nat /\ worker[w].lines \in Nat /\ i \in Nat
  BY <1>1 DEF Worker
<1>3. worker[w].pc = "reading" /\ i <= worker[w].lines
  BY DEF IngestLine
<1>4. PICK b \in BOOLEAN :
          worker' = [worker EXCEPT ![w] = IF share THEN Left(w, FALSE) ELSE HaveRead(w, i, b)]
  <2> DEFINE b == <<worker[w].file, i>> \notin quarantined'
  <2>1. b \in BOOLEAN
    OBVIOUS
  <2>2. worker' = [worker EXCEPT ![w] = IF share THEN Left(w, FALSE) ELSE HaveRead(w, i, b)]
    BY Zenon DEF IngestLine
  <2> HIDE DEF b
  <2> QED
    BY <2>1, <2>2
<1>5. Left(w, FALSE) \in Worker /\ Sound(Left(w, FALSE))
  <2>1. FALSE \in BOOLEAN
    OBVIOUS
  <2> QED
    BY <2>1, LeftSound, Zenon
<1>6. HaveRead(w, i, b) \in Worker /\ Sound(HaveRead(w, i, b))
  <2>1. /\ HaveRead(w, i, b) \in Worker
        /\ HaveRead(w, i, b).pc = worker[w].pc
        /\ HaveRead(w, i, b).file = worker[w].file
        /\ HaveRead(w, i, b).read = i
        /\ HaveRead(w, i, b).lines = worker[w].lines
        /\ HaveRead(w, i, b).candidates = worker[w].candidates
    BY <1>2, <1>4, HaveReadTyped, Zenon
  <2> QED
    BY <1>1, <1>2, <1>3, <2>1 DEF Sound
<1> QED
  BY <1>4, <1>5, <1>6

\* A pass at its end leaves the file or goes on to the fragment.
LEMMA ObserveMoves ==
    ASSUME TypeOK, Sessions, Revised, NEW w \in Workers,
           ObserveOpen(w) \/ ObserveClosed(w) \/ RejectFragment(w)
    PROVE  \E X \in Worker : worker' = [worker EXCEPT ![w] = X] /\ Sound(X)
<1> DEFINE W == worker[w]
           S == [W EXCEPT !.pc = "sealed"]
<1>1. W \in Worker /\ Sound(W)
  BY SoundNow
<1>2. \A b \in BOOLEAN : Left(w, b) \in Worker /\ Sound(Left(w, b))
  BY LeftSound
<1>3. (~ W.partial) \in BOOLEAN /\ SameSize(w) \in BOOLEAN /\ FALSE \in BOOLEAN
  BY DEF SameSize
<1>4. CASE ObserveOpen(w)
  <2>1. worker' = [worker EXCEPT ![w] = Left(w, ~ W.partial)]
    BY <1>4, Zenon DEF ObserveOpen
  <2> QED
    BY <1>2, <1>3, <2>1, Zenon
<1>5. CASE RejectFragment(w)
  <2>1. worker' = [worker EXCEPT ![w] = Left(w, FALSE)]
    BY <1>5, Zenon DEF RejectFragment
  <2> QED
    BY <1>2, <1>3, <2>1, Zenon
<1>6. CASE ObserveClosed(w)
  <2>1. W.pc = "reading"
    BY <1>6 DEF ObserveClosed, AtEnd
  <2>2. worker' = [worker EXCEPT ![w] = S] \/ worker' = [worker EXCEPT ![w] = Left(w, SameSize(w))]
    BY <1>6, Zenon DEF ObserveClosed
  <2>3. S \in Worker /\ S.pc = "sealed" /\ S.file = W.file /\ S.candidates = W.candidates
    BY <1>1 DEF Worker
  <2>4. Sound(S)
    BY <1>1, <2>1, <2>3 DEF Sound
  <2>5. CASE worker' = [worker EXCEPT ![w] = S]
    BY <2>3, <2>4, <2>5
  <2>6. CASE worker' = [worker EXCEPT ![w] = Left(w, SameSize(w))]
    BY <1>2, <1>3, <2>6, Zenon
  <2> QED
    BY <2>2, <2>5, <2>6
<1> QED
  BY <1>4, <1>5, <1>6

\* What a scan and a recovery work on are revisions of rows.
LEMMA ScanMoves ==
    ASSUME TypeOK, Sessions, Revised, NEW w \in Workers, BeginScan(w) \/ EndScan(w)
    PROVE  \E X \in Worker : worker' = [worker EXCEPT ![w] = X] /\ Sound(X)
<1>1. \A old \in SUBSET Revisions(Unfinished) :
          LET X == [Resting EXCEPT !.pc = "scan", !.todo = {f \in Files : Exists(f)},
                                   !.cutoff = old]
          IN  X \in Worker /\ Sound(X)
  <2> TAKE old \in SUBSET Revisions(Unfinished)
  <2> DEFINE T == {f \in Files : Exists(f)}
             X == [Resting EXCEPT !.pc = "scan", !.todo = T, !.cutoff = old]
  <2>1. T \in SUBSET Files /\ old \in SUBSET (Calls \X Nat)
    BY RevisionsTyped
  <2>2. Resting \in Worker /\ Resting.candidates = {}
    BY RestingTyped DEF Resting
  <2> HIDE DEF T
  <2>3. X \in Worker /\ X.pc = "scan" /\ X.candidates = {}
    BY <2>1, <2>2 DEF Worker
  <2> QED
    BY <2>3 DEF Sound, T
<1>2. LET X == [Resting EXCEPT !.pc = "recover", !.candidates = Candidates(w)]
      IN  X \in Worker /\ Sound(X)
  <2> DEFINE C == Candidates(w)
             X == [Resting EXCEPT !.pc = "recover", !.candidates = C]
  <2>1. C \in SUBSET (Calls \X Nat) /\ \A p \in C : p[2] >= 1
    BY RevisionsTyped DEF Candidates
  <2> HIDE DEF C
  <2>2. X \in Worker /\ X.pc = "recover" /\ X.candidates = C
    BY <2>1, RestingTyped DEF Worker
  <2> QED
    BY <2>1, <2>2 DEF Sound, C
<1>3. CASE BeginScan(w)
  BY <1>1, <1>3, Zenon DEF BeginScan
<1>4. CASE EndScan(w)
  BY <1>2, <1>4, RestingSound, Zenon DEF EndScan
<1> QED
  BY <1>3, <1>4

\* A recovery goes on with the other candidates.
LEMMA ReconcileMoves ==
    ASSUME TypeOK, Sessions, Revised, NEW w \in Workers, NEW c, NEW n, Reconcile(w, c, n)
    PROVE  \E X \in Worker : worker' = [worker EXCEPT ![w] = X] /\ Sound(X)
<1> DEFINE W == worker[w]
           C == W.candidates \ {<<c, n>>}
           X == [W EXCEPT !.candidates = C]
<1>1. W \in Worker /\ Sound(W) /\ W.pc = "recover"
  BY SoundNow DEF Reconcile
<1>2. C \in SUBSET (Calls \X Nat) /\ \A p \in C : p[2] >= 1
  BY <1>1 DEF Worker, Sound
<1>3. worker' = [worker EXCEPT ![w] = Resting] \/ worker' = [worker EXCEPT ![w] = X]
  BY Zenon DEF Reconcile, Reconciled
<1> HIDE DEF W, C
<1>4. X \in Worker /\ X.pc = "recover" /\ X.candidates = C
  BY <1>1, <1>2 DEF Worker
<1> HIDE DEF X
<1>5. Sound(X)
  BY <1>2, <1>4 DEF Sound
<1> QED
  BY <1>3, <1>4, <1>5, RestingSound

\* Every step of a worker is sound and leaves the files alone.
LEMMA Moves ==
    ASSUME TypeOK, Lines, Sessions, Revised, NEW w \in Workers, Work(w) \/ Fail(w) \/ Crash(w)
    PROVE  /\ UNCHANGED source
           /\ \E X \in Worker : worker' = [worker EXCEPT ![w] = X] /\ Sound(X)
<1>1. CASE Collect(w)
  BY <1>1, OpenMoves, IngestMoves, ObserveMoves
     DEF Collect, Open, IngestLine, ObserveOpen, ObserveClosed, RejectFragment
<1>2. CASE BeginScan(w) \/ EndScan(w)
  BY <1>2, ScanMoves DEF BeginScan, EndScan
<1>3. CASE \E p \in worker[w].candidates : Reconcile(w, p[1], p[2])
  BY <1>3, ReconcileMoves DEF Reconcile
<1>4. CASE Fail(w)
  BY <1>4, FailMoves DEF Fail
<1>5. CASE Crash(w)
  BY <1>5, RestingSound DEF Crash
<1> QED
  BY <1>1, <1>2, <1>3, <1>4, <1>5 DEF Work

-----------------------------------------------------------------------------
(* What a step does to the database. *)

\* The checkpoint of file f goes to position i.
Advances(f, i) ==
    /\ checkpoint[f] >= i \/ checkpoint[f] = i - 1
    /\ checkpoint' = [checkpoint EXCEPT ![f] = IF checkpoint[f] >= i THEN checkpoint[f] ELSE i]

Nothing == UNCHANGED <<facts, checkpoint, quarantined>>

SetsAside == \E f \in Files : \E i \in Nat : Advances(f, i) /\ SetAside(f, i) /\ UNCHANGED facts

Ingests ==
    /\ UNCHANGED log /\ UNCHANGED made
    /\ \E f \in Files : \E i \in 1..Len(log[f]) :
           Advances(f, i) /\ At(f, i) \in Record /\ IngestRecord(f, i, At(f, i))

Infers ==
    /\ UNCHANGED <<receipts, checkpoint, quarantined>>
    /\ \E c \in Calls : row[c].phase \in {"started", "progress"} /\ SetRow(c, Inferred(row[c]))

\* A reconciliation infers the end of a row that has none, or does nothing.
LEMMA ReconcileInfers ==
    ASSUME TypeOK, Sourced, Revised, NEW w \in Workers,
           NEW p \in worker[w].candidates, Reconcile(w, p[1], p[2])
    PROVE  Nothing \/ Infers
<1>1. worker[w] \in Worker
  BY DEF TypeOK
<1>2. p[1] \in Calls /\ p[2] \in Nat /\ p[2] >= 1
  BY <1>1 DEF Worker, Revised
<1>3. row[p[1]] \in Row
  BY <1>2 DEF TypeOK
<1>4. CASE Unchanged(p[1], p[2])
  <2>1. row[p[1]].revision = p[2] /\ row[p[1]].phase # "finished"
    BY <1>4 DEF Unchanged
  <2>2. SetRow(p[1], Inferred(row[p[1]]))
    BY <1>4 DEF Reconcile
  <2>3. row[p[1]].phase # "none"
    BY <1>2, <2>1 DEF Sourced, NoRow
  <2>4. row[p[1]].phase \in {"started", "progress"}
    BY <1>3, <2>1, <2>3 DEF Row, Phases
  <2>5. UNCHANGED <<receipts, checkpoint, quarantined>>
    BY DEF Reconcile
  <2> QED
    BY <1>2, <2>2, <2>4, <2>5 DEF Infers
<1>5. CASE ~ Unchanged(p[1], p[2])
  BY <1>5 DEF Reconcile, Nothing, facts
<1> QED
  BY <1>4, <1>5

\* These four are all that a step does.
LEMMA FactSteps ==
    ASSUME TypeOK, Lines, Sessions, Sourced, Revised, [Next]_vars
    PROVE  Nothing \/ SetsAside \/ Ingests \/ Infers
<1>1. CASE Produce
  BY <1>1 DEF Produce, Write, Drop, Rotate, Exit, database, Nothing
<1>2. ASSUME NEW w \in Workers, NEW share \in BOOLEAN, IngestLine(w, share)
      PROVE  SetsAside \/ Ingests
  <2>1. PICK f \in Files : \E i \in 1..Len(log[f]) :
            /\ Advances(f, i)
            /\ \/ At(f, i) = Garbled /\ SetAside(f, i) /\ UNCHANGED facts
               \/ At(f, i) \in Record /\ IngestRecord(f, i, At(f, i))
    BY <1>2, Reads DEF Advances
  <2>2. PICK i \in 1..Len(log[f]) :
            /\ Advances(f, i)
            /\ \/ At(f, i) = Garbled /\ SetAside(f, i) /\ UNCHANGED facts
               \/ At(f, i) \in Record /\ IngestRecord(f, i, At(f, i))
    BY <2>1
  <2>3. i \in Nat
    BY <2>2, LenProperties DEF TypeOK
  <2>4. UNCHANGED log /\ UNCHANGED made
    BY <1>2 DEF IngestLine, source
  <2> QED
    BY <2>2, <2>3, <2>4 DEF SetsAside, Ingests
<1>3. ASSUME NEW w \in Workers, RejectFragment(w) PROVE SetsAside
  BY <1>3, Rejects DEF SetsAside, Advances, RejectFragment
<1>4. ASSUME NEW w \in Workers,
             \/ ObserveOpen(w) \/ ObserveClosed(w) \/ BeginScan(w) \/ EndScan(w)
             \/ Fail(w) \/ Crash(w) \/ \E f \in Files : Open(w, f)
      PROVE  Nothing
  BY <1>4 DEF ObserveOpen, ObserveClosed, BeginScan, EndScan, Fail, Crash, Open, database, Nothing
<1>5. CASE UNCHANGED vars
  BY <1>5 DEF vars, database, Nothing
<1>6. ASSUME NEW w \in Workers, Work(w) PROVE Nothing \/ SetsAside \/ Ingests \/ Infers
  BY <1>2, <1>3, <1>4, <1>6, ReconcileInfers DEF Work, Collect
<1> QED
  BY <1>1, <1>4, <1>5, <1>6 DEF Next

-----------------------------------------------------------------------------
(* What the producer has written. *)

\* A file holds records and garbled lines only.
LEMMA StepLines == ASSUME TypeOK, Lines, Made, [Next]_vars PROVE Lines'
<1>1. CASE \E c \in Calls, phase \in Phases : Write(c, phase)
  <2>1. PICK c \in Calls, phase \in Phases : Write(c, phase)
    BY <1>1
  <2>2. made'[c] \in Record
    BY <2>1, Makes DEF Write
  <2> QED
    BY <2>1, <2>2, Appends DEF Lines
<1>2. CASE log' = log
  BY <1>2 DEF Lines, At
<1> QED
  BY <1>1, <1>2, LogSteps

\* What is in a file is a record.
LEMMA RecordedTyped == ASSUME TypeOK, Lines PROVE Recorded \subseteq Record
BY RecordedIs DEF Lines

\* A step makes the next record of one call, which may reach the file, or none.
LEMMA Tells ==
    ASSUME TypeOK, Made, [Next]_vars
    PROVE  \/ Recorded' = Recorded /\ made' = made
           \/ \E c \in Calls, phase \in Phases :
                  NextRecord(c, phase) /\ Recorded' \subseteq Recorded \cup {made'[c]}
<1>1. ASSUME NEW c \in Calls, NEW phase \in Phases, Write(c, phase)
      PROVE  NextRecord(c, phase) /\ Recorded' \subseteq Recorded \cup {made'[c]}
  <2>1. NextRecord(c, phase)
    BY <1>1 DEF Write
  <2>2. ASSUME NEW r \in Recorded' PROVE r \in Recorded \cup {made'[c]}
    <3>1. r # Garbled /\ \E f \in Files : \E i \in 1..Len(log[f])' : At(f, i)' = r
      BY <2>2 DEF Recorded
    <3>2. PICK f \in Files : \E i \in 1..Len(log[f])' : At(f, i)' = r
      BY <3>1
    <3>3. PICK i \in 1..Len(log[f])' : At(f, i)' = r
      BY <3>2
    <3>4. CASE i \in 1..Len(log[f])
      <4>1. At(f, i) = r
        BY <1>1, <3>3, <3>4, Appends
      <4> QED
        BY <3>1, <3>4, <4>1, RecordedIs
    <3>5. CASE At(f, i)' \in {Garbled, made'[c]}
      BY <3>1, <3>3, <3>5
    <3> QED
      BY <1>1, <3>3, <3>4, <3>5, Appends
  <2> QED
    BY <2>1, <2>2
<1>2. ASSUME log' = log PROVE Recorded' = Recorded
  BY <1>2 DEF Recorded, At
<1>3. ASSUME NEW c \in Calls, NEW phase \in Phases, NEW part \in BOOLEAN, Drop(c, phase, part)
      PROVE  NextRecord(c, phase) /\ Recorded' = Recorded
  BY <1>2, <1>3 DEF Drop
<1>4. CASE Rotate \/ Exit \/ source' = source
  BY <1>2, <1>4 DEF Rotate, Exit, source
<1>5. ASSUME NEW w \in Workers, Work(w) \/ Fail(w) \/ Crash(w) PROVE source' = source
  BY <1>5 DEF Work, Collect, Open, IngestLine, ObserveOpen, ObserveClosed, RejectFragment,
              BeginScan, EndScan, Reconcile, Fail, Crash
<1>6. CASE Produce
  BY <1>1, <1>3, <1>4, <1>6 DEF Produce
<1> QED
  BY <1>4, <1>5, <1>6 DEF Next, vars

\* The last record of a call stays one of its records.
LEMMA StepMade == ASSUME TypeOK, Made, [Next]_vars PROVE Made'
<1>1. ASSUME NEW c \in Calls, NEW phase \in Phases, NextRecord(c, phase) PROVE Made'
  <2>1. made'[c] \in Record /\ made'[c].call = c /\ made'[c].version >= 1
    BY <1>1, Makes
  <2>2. \A d \in Calls \ {c} : made'[d] = made[d]
    BY <1>1, Makes
  <2> QED
    BY <2>1, <2>2 DEF Made
<1> QED
  BY <1>1, Tells DEF Made

\* A call that makes a record has none like it and no end.
LEMMA Fresh ==
    ASSUME TypeOK, Lines, Made, Story,
           NEW c \in Calls, NEW phase \in Phases, NextRecord(c, phase)
    PROVE  \A r \in Recorded :
               r.call = c => /\ r.version < made'[c].version
                             /\ r.phase # "finished"
                             /\ phase # "started"
<1> SUFFICES ASSUME NEW r \in Recorded, r.call = c
             PROVE  r.version < made'[c].version /\ r.phase # "finished" /\ phase # "started"
  OBVIOUS
<1>1. r \in Record /\ r.version \in Nat
  BY RecordedTyped DEF Record, Line
<1>2. made[c].version \in Nat /\ made'[c].version = made[c].version + 1
  BY Makes
<1>3. 1 <= r.version /\ r.version <= made[c].version
  BY DEF Story
<1>4. made[c] # Garbled
  BY <1>1, <1>3 DEF Garbled
<1>5. phase # "started" /\ made[c].phase # "finished"
  BY <1>4 DEF NextRecord
<1>6. r.phase # "finished"
  BY <1>5 DEF Story
<1> QED
  BY <1>1, <1>2, <1>3, <1>5, <1>6

\* What is recorded stays true of its call, and remains without a double.
LEMMA StepStory == ASSUME TypeOK, Lines, Made, Story, Unique, [Next]_vars PROVE Story' /\ Unique'
<1>1. CASE Recorded' = Recorded /\ made' = made
  BY <1>1 DEF Story, Unique
<1>2. ASSUME NEW c \in Calls, NEW phase \in Phases, NextRecord(c, phase),
             Recorded' \subseteq Recorded \cup {made'[c]}
      PROVE  Story' /\ Unique'
  <2> DEFINE s == made'[c]
  <2>1. /\ s \in Record /\ s.call = c /\ s.phase = phase
        /\ s.version = made[c].version + 1 /\ made[c].version \in Nat
        /\ \A d \in Calls \ {c} : made'[d] = made[d]
    BY <1>2, Makes
  <2>2. \A r \in Recorded : r.call = c =>
            r.version < s.version /\ r.phase # "finished" /\ phase # "started"
    BY <1>2, Fresh
  <2>3. \A r \in Recorded : r.call \in Calls /\ r.version \in Nat
    BY RecordedTyped DEF Record, Line
  <2>4. phase = "started" => s.version = 1
    BY <1>2, <2>1 DEF NextRecord, Garbled
  <2>5. ASSUME NEW r \in Recorded'
        PROVE  /\ 1 <= r.version /\ r.version <= made'[r.call].version
               /\ r.version = made'[r.call].version => r = made'[r.call]
               /\ r.phase = "started" => r.version = 1
               /\ r.phase = "finished" => r.version = made'[r.call].version
    <3>1. CASE r = s
      BY <2>1, <2>4, <3>1
    <3>2. CASE r \in Recorded /\ r.call = c
      BY <2>1, <2>2, <2>3, <3>2 DEF Story
    <3>3. CASE r \in Recorded /\ r.call # c
      BY <2>1, <2>3, <3>3 DEF Story
    <3> QED
      BY <1>2, <3>1, <3>2, <3>3
  <2>6. ASSUME NEW r \in Recorded', NEW q \in Recorded', r.call = q.call, r.version = q.version
        PROVE  r = q
    <3>1. r \in Recorded \/ r = s
      BY <1>2
    <3>2. q \in Recorded \/ q = s
      BY <1>2
    <3> QED
      BY <2>1, <2>2, <2>3, <2>6, <3>1, <3>2 DEF Unique
  <2> QED
    BY <2>5, <2>6 DEF Story, Unique
<1> QED
  BY <1>1, <1>2, Tells

-----------------------------------------------------------------------------
(* The rest of the types. *)

\* A row that is set, and its delta, are typed.
LEMMA SetTyped ==
    ASSUME TypeOK, NEW c \in Calls, NEW q \in Row, SetRow(c, q)
    PROVE  row' \in [Calls -> Row] /\ members' \in [Calls -> Int]
<1>1. Delta(row[c], q) \in Int
  BY DEF Delta
<1> QED
  BY <1>1 DEF SetRow, TypeOK

\* The rows that records and inferences make are rows.
LEMMA RowsMade ==
    ASSUME NEW p \in Row
    PROVE  /\ \A r \in Record : Observed(p, r) \in Row
           /\ Inferred(p) \in Row
           /\ Inferred(p).phase = "finished" /\ Inferred(p).source = p.source
           /\ Inferred(p).revision = p.revision + 1 /\ Inferred(p).by \in {"exit", "timeout"}
<1>1. ASSUME NEW r \in Record PROVE Observed(p, r) \in Row
  BY DEF Observed, Record, Line, Row
<1> DEFINE b == IF proof THEN "exit" ELSE "timeout"
           n == p.revision + 1
           q == [p EXCEPT !.phase = "finished", !.revision = n, !.by = b]
<1>2. b \in {"exit", "timeout"} /\ n \in Nat
  BY DEF Row
<1>3. Inferred(p) = q
  BY DEF Inferred
<1> HIDE DEF b, n
<1>4. /\ q \in Row /\ q.phase = "finished" /\ q.source = p.source
      /\ q.revision = n /\ q.by \in {"exit", "timeout"}
  BY <1>2 DEF Row, Phases
<1> HIDE DEF q
<1> QED
  BY <1>1, <1>3, <1>4 DEF n

\* The database is typed.
LEMMA DatabaseTyped ==
    ASSUME TypeOK, Lines, Sessions, Sourced, Revised, [Next]_vars
    PROVE  /\ checkpoint' \in [Files -> Nat] /\ receipts' \subseteq Record
           /\ quarantined' \subseteq Files \X Nat
           /\ row' \in [Calls -> Row] /\ members' \in [Calls -> Int]
<1>1. /\ checkpoint \in [Files -> Nat] /\ receipts \subseteq Record
      /\ quarantined \subseteq Files \X Nat
      /\ row \in [Calls -> Row] /\ members \in [Calls -> Int]
  BY DEF TypeOK
<1>2. CASE Nothing
  BY <1>1, <1>2 DEF Nothing, facts
<1>3. CASE SetsAside
  BY <1>1, <1>3 DEF SetsAside, Advances, SetAside, facts
<1>4. CASE Ingests
  <2>1. PICK f \in Files : \E i \in 1..Len(log[f]) :
            Advances(f, i) /\ At(f, i) \in Record /\ IngestRecord(f, i, At(f, i))
    BY <1>4 DEF Ingests
  <2>2. PICK i \in 1..Len(log[f]) :
            Advances(f, i) /\ At(f, i) \in Record /\ IngestRecord(f, i, At(f, i))
    BY <2>1
  <2>3. i \in Nat
    BY LenProperties DEF TypeOK
  <2>4. checkpoint' \in [Files -> Nat]
    BY <1>1, <2>2, <2>3 DEF Advances
  <2>5. PICK r \in Record : r = At(f, i) /\ IngestRecord(f, i, r)
    BY <2>2
  <2>6. row[r.call] \in Row /\ r.call \in Calls
    BY <1>1 DEF Record
  <2>7. Observed(row[r.call], r) \in Row
    BY <2>6, RowsMade
  <2>8. receipts' \subseteq Record /\ quarantined' \subseteq Files \X Nat
    BY <1>1, <2>3, <2>5, Ingested DEF SetAside
  <2>9. UNCHANGED <<row, members>> \/ SetRow(r.call, Observed(row[r.call], r))
    BY <2>3, <2>5, Ingested
  <2> QED
    BY <1>1, <2>4, <2>6, <2>7, <2>8, <2>9, SetTyped
<1>5. CASE Infers
  <2>1. PICK c \in Calls : SetRow(c, Inferred(row[c]))
    BY <1>5 DEF Infers
  <2>2. Inferred(row[c]) \in Row
    BY <1>1, RowsMade
  <2> QED
    BY <1>1, <1>5, <2>1, <2>2, SetTyped DEF Infers
<1> QED
  BY <1>2, <1>3, <1>4, <1>5, FactSteps

\* The producing process is typed.
LEMMA SourceTyped ==
    ASSUME TypeOK, Made, [Next]_vars
    PROVE  /\ alive' \in BOOLEAN /\ day' \in Files /\ made' \in [Calls -> Line]
           /\ log' \in [Files -> Seq(Line)] /\ torn' \in [Files -> BOOLEAN]
<1>1. CASE source' = source
  BY <1>1 DEF source, TypeOK
<1>2. ASSUME NEW c \in Calls, NEW phase \in Phases, Write(c, phase)
      PROVE  /\ made' \in [Calls -> Line] /\ log' \in [Files -> Seq(Line)]
             /\ torn' \in [Files -> BOOLEAN] /\ UNCHANGED <<alive, day>>
  <2>1. NextRecord(c, phase)
    BY <1>2 DEF Write
  <2>2. torn' \in [Files -> BOOLEAN] /\ UNCHANGED <<alive, day>>
    BY <1>2 DEF Write, TypeOK
  <2> QED
    BY <1>2, <2>1, <2>2, Makes, Appends
<1>3. ASSUME NEW c \in Calls, NEW phase \in Phases, NEW part \in BOOLEAN, Drop(c, phase, part)
      PROVE  /\ made' \in [Calls -> Line] /\ UNCHANGED log
             /\ torn' \in [Files -> BOOLEAN] /\ UNCHANGED <<alive, day>>
  <2>1. NextRecord(c, phase)
    BY <1>3 DEF Drop
  <2>2. torn' \in [Files -> BOOLEAN] /\ UNCHANGED <<alive, day, log>>
    <3> DEFINE b == torn[day] \/ part
    <3>1. torn' = [torn EXCEPT ![day] = b] /\ UNCHANGED <<alive, day, log>>
      BY <1>3 DEF Drop
    <3>2. b \in BOOLEAN
      OBVIOUS
    <3>3. torn \in [Files -> BOOLEAN]
      BY DEF TypeOK
    <3> HIDE DEF b
    <3> QED
      BY <3>1, <3>2, <3>3
  <2> QED
    BY <1>3, <2>1, <2>2, Makes
<1>4. CASE Rotate
  BY <1>4, IngestionAssumption DEF Rotate, TypeOK, Files
<1>5. CASE Exit
  BY <1>5 DEF Exit, TypeOK
<1>6. ASSUME NEW w \in Workers, Work(w) \/ Fail(w) \/ Crash(w) PROVE source' = source
  BY <1>6 DEF Work, Collect, Open, IngestLine, ObserveOpen, ObserveClosed, RejectFragment,
              BeginScan, EndScan, Reconcile, Fail, Crash
<1>7. CASE UNCHANGED vars
  BY <1>1, <1>7 DEF vars
<1>8. alive \in BOOLEAN /\ day \in Files /\ log \in [Files -> Seq(Line)]
  BY DEF TypeOK
<1> QED
  BY <1>1, <1>2, <1>3, <1>4, <1>5, <1>6, <1>7, <1>8, Zenon DEF Next, Produce

\* Every step is typed.
LEMMA StepTyped ==
    ASSUME TypeOK, Lines, Made, Sessions, Sourced, Revised, [Next]_vars PROVE TypeOK'
<1>1. worker' \in [Workers -> Worker]
  <2>1. worker \in [Workers -> Worker]
    BY DEF TypeOK
  <2>2. CASE Produce \/ UNCHANGED vars
    BY <2>1, <2>2 DEF Produce, Write, Drop, Rotate, Exit, vars
  <2>3. ASSUME NEW w \in Workers, Work(w) \/ Fail(w) \/ Crash(w)
        PROVE  worker' \in [Workers -> Worker]
    BY <2>1, <2>3, Moves
  <2> QED
    BY <2>2, <2>3 DEF Next
<1>2. faults' \in 0..MaxFaults
  <2>1. faults \in 0..MaxFaults
    BY DEF TypeOK
  <2>2. CASE Produce \/ UNCHANGED vars
    BY <2>1, <2>2, IngestionAssumption DEF Produce, Write, Drop, Rotate, Exit, vars
  <2>3. ASSUME NEW w \in Workers, Work(w)
        PROVE  faults' = faults \/ (faults < MaxFaults /\ faults' = faults + 1)
    <3>1. CASE Collect(w)
      BY <3>1, Zenon DEF Collect, Open, IngestLine, ObserveOpen, ObserveClosed, RejectFragment
    <3>2. CASE BeginScan(w) \/ EndScan(w)
      BY <3>2 DEF BeginScan, EndScan
    <3>3. CASE \E p \in worker[w].candidates : Reconcile(w, p[1], p[2])
      BY <3>3 DEF Reconcile
    <3> QED
      BY <2>3, <3>1, <3>2, <3>3 DEF Work
  <2>4. ASSUME NEW w \in Workers, Fail(w) \/ Crash(w)
        PROVE  faults < MaxFaults /\ faults' = faults + 1
    BY <2>4 DEF Fail, Crash
  <2> QED
    BY <2>1, <2>2, <2>3, <2>4, IngestionAssumption DEF Next
<1>3. proof' \in BOOLEAN
  <2>1. proof \in BOOLEAN
    BY DEF TypeOK
  <2>2. proof' = proof \/ proof' = TRUE
    BY DEF Next, Produce, Write, Drop, Rotate, Exit, Work, Collect, Open, IngestLine,
           ObserveOpen, ObserveClosed, RejectFragment, BeginScan, EndScan, Reconcile, Fail,
           Crash, vars, database
  <2> QED
    BY <2>1, <2>2
<1> QED
  BY <1>1, <1>2, <1>3, DatabaseTyped, SourceTyped DEF TypeOK

\* A worker goes on to hold of its file what is there.
LEMMA StepSessions ==
    ASSUME TypeOK, Lines, Made, Sessions, Revised, [Next]_vars
    PROVE  Sessions' /\ \A w \in Workers : \A p \in worker'[w].candidates : p[2] >= 1
<1>1. CASE UNCHANGED worker
  <2>1. \A w \in Workers : worker[w].lines \in Nat
    BY DEF TypeOK, Worker
  <2> QED
    BY <1>1, <2>1, Grows DEF Sessions, Revised
<1>2. ASSUME NEW w \in Workers, Work(w) \/ Fail(w) \/ Crash(w)
      PROVE  Sessions' /\ \A v \in Workers : \A p \in worker'[v].candidates : p[2] >= 1
  <2>1. UNCHANGED log
    BY <1>2, Moves DEF source
  <2>2. PICK X \in Worker : worker' = [worker EXCEPT ![w] = X] /\ Sound(X)
    BY <1>2, Moves
  <2>3. worker'[w] = X /\ \A v \in Workers \ {w} : worker'[v] = worker[v]
    BY <2>2 DEF TypeOK
  <2>4. \A v \in Workers : Sound(worker'[v])
    BY <2>2, <2>3, SoundNow
  <2> QED
    BY <2>1, <2>4 DEF Sessions, Sound
<1>3. CASE Produce \/ UNCHANGED vars
  BY <1>1, <1>3 DEF Produce, Write, Drop, Rotate, Exit, vars
<1> QED
  BY <1>2, <1>3 DEF Next

-----------------------------------------------------------------------------
(* Lines, receipts and checkpoints. *)

\* Receipts and what is set aside stay, and so does what they say of a line.
LEMMA HandledStays ==
    ASSUME TypeOK, Made, [Next]_vars, receipts \subseteq receipts',
           quarantined \subseteq quarantined', NEW f \in Files, NEW i \in Nat \ {0},
           Handled(f, i)
    PROVE  Handled(f, i)'
<1>1. CASE <<f, i>> \in quarantined
  BY <1>1 DEF Handled
<1>2. CASE i <= Len(log[f]) /\ log[f][i] \in receipts
  <2>1. /\ Len(log[f]) \in Nat /\ Len(log[f])' \in Nat /\ Len(log[f]) <= Len(log[f])'
        /\ \A k \in 1..Len(log[f]) : At(f, k)' = At(f, k)
    BY Grows
  <2>2. i \in 1..Len(log[f])
    BY <1>2, <2>1
  <2>3. i <= Len(log[f])' /\ At(f, i)' = At(f, i)
    BY <2>1, <2>2
  <2> QED
    BY <1>2, <2>3 DEF Handled, At
<1> QED
  BY <1>1, <1>2 DEF Handled

\* A checkpoint that advances covers one position more.
LEMMA Covers ==
    ASSUME TypeOK, NEW f \in Files, NEW i \in Nat, Advances(f, i)
    PROVE  /\ \A g \in Files : checkpoint[g] <= checkpoint'[g]
           /\ \A g \in Files : \A k \in 1..checkpoint'[g] :
                  k \in 1..checkpoint[g] \/ (g = f /\ k = i)
           /\ i <= checkpoint'[f]
<1>1. checkpoint \in [Files -> Nat]
  BY DEF TypeOK
<1>2. \A g \in Files : checkpoint'[g] =
          IF g = f THEN (IF checkpoint[f] >= i THEN checkpoint[f] ELSE i) ELSE checkpoint[g]
  BY <1>1 DEF Advances
<1> QED
  BY <1>1, <1>2 DEF Advances

\* A position that is covered anew is handled, whatever covers it.
LEMMA CountedAnew ==
    ASSUME TypeOK, Lines, Made, EveryLineCounted, [Next]_vars,
           NEW f \in Files, NEW i \in Nat, Advances(f, i),
           receipts \subseteq receipts', quarantined \subseteq quarantined',
           i # 0 => Handled(f, i)',
           \A r \in receipts' : r \in receipts \/ (i \in 1..Len(log[f]) /\ At(f, i) = r)
    PROVE  EveryLineCounted'
<1>1. ASSUME NEW g \in Files, NEW k \in 1..checkpoint'[g] PROVE Handled(g, k)'
  <2>1. CASE k \in 1..checkpoint[g]
    <3>1. checkpoint[g] \in Nat /\ k \in Nat \ {0} /\ Handled(g, k)
      BY <2>1 DEF EveryLineCounted, TypeOK
    <3> QED
      BY <3>1, HandledStays
  <2>2. CASE g = f /\ k = i
    BY <2>2
  <2> QED
    BY <2>1, <2>2, Covers
<1>2. ASSUME NEW r \in receipts'
      PROVE  \E g \in Files : \E k \in 1..checkpoint'[g] : k <= Len(log[g])' /\ log'[g][k] = r
  <2>1. \A g \in Files : checkpoint[g] \in Nat /\ checkpoint'[g] \in Nat
    <3>1. checkpoint \in [Files -> Nat]
      BY DEF TypeOK
    <3> QED
      BY <3>1 DEF Advances
  <2>2. CASE r \in receipts
    <3>1. PICK g \in Files : \E k \in 1..checkpoint[g] : k <= Len(log[g]) /\ log[g][k] = r
      BY <2>2 DEF EveryLineCounted
    <3>2. PICK k \in 1..checkpoint[g] : k <= Len(log[g]) /\ log[g][k] = r
      BY <3>1
    <3>3. /\ Len(log[g]) \in Nat /\ Len(log[g])' \in Nat /\ Len(log[g]) <= Len(log[g])'
          /\ \A j \in 1..Len(log[g]) : At(g, j)' = At(g, j)
      BY Grows
    <3>4. k \in 1..Len(log[g]) /\ k \in 1..checkpoint'[g]
      BY <2>1, <3>2, <3>3, Covers
    <3>5. log'[g][k] = r /\ k <= Len(log[g])'
      BY <3>2, <3>3, <3>4 DEF At
    <3> QED
      BY <3>4, <3>5
  <2>3. CASE i \in 1..Len(log[f]) /\ At(f, i) = r
    <3>1. /\ Len(log[f]) \in Nat /\ Len(log[f])' \in Nat /\ Len(log[f]) <= Len(log[f])'
          /\ At(f, i)' = At(f, i)
      BY <2>3, Grows
    <3>2. i \in 1..checkpoint'[f]
      BY <2>1, <2>3, Covers
    <3>3. log'[f][i] = r /\ i <= Len(log[f])'
      BY <2>3, <3>1 DEF At
    <3> QED
      BY <3>2, <3>3
  <2> QED
    BY <2>2, <2>3
<1> QED
  BY <1>1, <1>2 DEF EveryLineCounted

\* Every step counts the lines.
LEMMA StepCounted ==
    ASSUME TypeOK, Lines, Made, Sessions, Sourced, Revised, EveryLineCounted, [Next]_vars
    PROVE  EveryLineCounted'
<1>1. ASSUME UNCHANGED <<receipts, checkpoint, quarantined>> PROVE EveryLineCounted'
  <2>1. ASSUME NEW g \in Files, NEW k \in 1..checkpoint[g] PROVE Handled(g, k)'
    <3>1. checkpoint[g] \in Nat /\ k \in Nat \ {0} /\ Handled(g, k)
      BY DEF EveryLineCounted, TypeOK
    <3> QED
      BY <1>1, <3>1, HandledStays
  <2>2. ASSUME NEW r \in receipts
        PROVE  \E g \in Files : \E k \in 1..checkpoint[g] : k <= Len(log[g])' /\ log'[g][k] = r
    <3>1. PICK g \in Files : \E k \in 1..checkpoint[g] : k <= Len(log[g]) /\ log[g][k] = r
      BY DEF EveryLineCounted
    <3>2. PICK k \in 1..checkpoint[g] : k <= Len(log[g]) /\ log[g][k] = r
      BY <3>1
    <3>3. /\ Len(log[g]) \in Nat /\ Len(log[g])' \in Nat /\ Len(log[g]) <= Len(log[g])'
          /\ \A j \in 1..Len(log[g]) : At(g, j)' = At(g, j)
      BY Grows
    <3>4. k \in 1..Len(log[g])
      BY <3>2, <3>3 DEF TypeOK
    <3>5. log'[g][k] = r /\ k <= Len(log[g])'
      BY <3>2, <3>3, <3>4 DEF At
    <3> QED
      BY <3>2, <3>5
  <2> QED
    BY <1>1, <2>1, <2>2 DEF EveryLineCounted
<1>2. CASE Nothing \/ Infers
  BY <1>1, <1>2 DEF Nothing, Infers, facts
<1>3. CASE SetsAside
  <2>1. PICK f \in Files, i \in Nat : Advances(f, i) /\ SetAside(f, i) /\ UNCHANGED facts
    BY <1>3 DEF SetsAside
  <2>2. receipts' = receipts /\ quarantined \subseteq quarantined' /\ Handled(f, i)'
    BY <2>1 DEF SetAside, facts, Handled
  <2> QED
    BY <2>1, <2>2, CountedAnew
<1>4. CASE Ingests
  <2>1. PICK f \in Files : \E i \in 1..Len(log[f]) :
            Advances(f, i) /\ At(f, i) \in Record /\ IngestRecord(f, i, At(f, i))
    BY <1>4 DEF Ingests
  <2>2. PICK i \in 1..Len(log[f]) :
            Advances(f, i) /\ At(f, i) \in Record /\ IngestRecord(f, i, At(f, i))
    BY <2>1
  <2>3. i \in Nat /\ i <= Len(log[f]) /\ UNCHANGED log
    BY <1>4, LenProperties DEF TypeOK, Ingests
  <2>4. \/ receipts' = receipts /\ SetAside(f, i)
        \/ receipts' = receipts \cup {At(f, i)} /\ UNCHANGED quarantined
    BY <2>2, <2>3, Ingested
  <2>5. Handled(f, i)'
    BY <2>3, <2>4 DEF Handled, SetAside, At
  <2>6. receipts \subseteq receipts' /\ quarantined \subseteq quarantined'
    BY <2>4 DEF SetAside
  <2>7. \A r \in receipts' : r \in receipts \/ (i \in 1..Len(log[f]) /\ At(f, i) = r)
    BY <2>2, <2>4
  <2> QED
    BY <2>2, <2>3, <2>5, <2>6, <2>7, CountedAnew
<1> QED
  BY <1>2, <1>3, <1>4, FactSteps

-----------------------------------------------------------------------------
(* Rows. *)

\* What the invariant says of the row of one call.
Fine(c) ==
    /\ row[c].phase = "none" => row[c] = NoRow /\ members[c] = 0
    /\ row[c].phase = "none" <=> Received(c) = {}
    /\ row[c].phase # "none" =>
           row[c].revision >= 1 /\ \E r \in Received(c) : r.version = row[c].source
    /\ row[c].by # "observed" => row[c].phase = "finished"
    /\ \A r \in Received(c) :
           /\ r.phase = "finished" => row[c].by = "observed"
           /\ row[c].by = "observed" =>
                  r.version < row[c].source \/ (r.version = row[c].source /\ r.phase = row[c].phase)
    /\ members[c] \in {0, 1} /\ (row[c].phase = "started" => members[c] = 1)

\* It is the four parts of the invariant that speak of rows.
LEMMA AllFine ==
    Sourced /\ LatestRecordShown /\ MemberOnce /\ Revised <=>
        (\A c \in Calls : Fine(c)) /\ Revised
BY DEF Sourced, LatestRecordShown, MemberOnce, Revised, Fine

\* A record with a receipt is in a file, and so one of its call.
LEMMA Receipted ==
    ASSUME TypeOK, Lines, Story, EveryLineCounted, NEW c \in Calls, NEW s \in Received(c)
    PROVE  s \in Recorded /\ s \in Record /\ s.call = c /\ s.version \in Nat /\ s.version >= 1
<1>1. s \in receipts /\ s \in Record /\ s.call = c
  BY DEF Received, TypeOK
<1>2. s # Garbled /\ s.version \in Nat
  BY <1>1, GarbledIsNone DEF Record, Line
<1>3. PICK f \in Files : \E i \in 1..checkpoint[f] : i <= Len(log[f]) /\ At(f, i) = s
  BY <1>1 DEF EveryLineCounted, At
<1>4. PICK i \in 1..checkpoint[f] : i <= Len(log[f]) /\ At(f, i) = s
  BY <1>3
<1>5. i \in 1..Len(log[f])
  BY <1>4, LenProperties DEF TypeOK
<1>6. s \in Recorded
  BY <1>2, <1>4, <1>5, RecordedIs
<1> QED
  BY <1>1, <1>2, <1>6 DEF Story

\* The row of a call whose row is left alone, and which gets no receipt.
LEMMA FineStays ==
    ASSUME NEW c \in Calls, Fine(c),
           row'[c] = row[c], members'[c] = members[c], Received(c)' = Received(c)
    PROVE  Fine(c)'
BY DEF Fine

\* A record that changes nothing gets a receipt: it had one, is older than the
\* row, or is no end where one was inferred.
LEMMA FineReceived ==
    ASSUME TypeOK, Lines, Story, Unique, EveryLineCounted,
           NEW r \in Recorded, NEW c \in Calls, r.call = c, Fine(c),
           r \in receipts \/ Stale(row[c], r) \/ KeepsInference(row[c], r),
           row'[c] = row[c], members'[c] = members[c],
           Received(c)' = Received(c) \cup {r}
    PROVE  Fine(c)'
<1>1. CASE r \in receipts
  <2>1. r \in Received(c)
    BY <1>1 DEF Received
  <2> QED
    BY <2>1, FineStays
<1>2. CASE r \notin receipts
  <2>1. r \in Record /\ r.version \in Nat /\ r.version >= 1 /\ row[c] \in Row
    BY RecordedTyped DEF Record, Line, Story, TypeOK
  <2>2. row[c].phase # "none"
    BY <1>2, <2>1 DEF Fine, Stale, KeepsInference, NoRow
  <2>3. PICK s \in Received(c) : s.version = row[c].source
    BY <2>2 DEF Fine
  <2>4. s \in Recorded /\ s.call = c /\ s.version \in Nat /\ s \in receipts
    BY Receipted DEF Received
  <2>5. s.version # r.version
    BY <1>2, <2>4 DEF Unique
  <2>6. r.phase = "finished" => s.version < r.version
    BY <2>1, <2>4, <2>5 DEF Story
  <2>7. r.phase # "finished"
    BY <1>2, <2>1, <2>3, <2>4, <2>6 DEF Stale, KeepsInference
  <2>8. row[c].by = "observed" => r.version < row[c].source
    BY <1>2, <2>1, <2>3, <2>4, <2>5 DEF Stale, KeepsInference
  <2>9. Received(c)' # {}
    OBVIOUS
  <2> QED
    BY <2>2, <2>7, <2>8, <2>9 DEF Fine
<1> QED
  BY <1>1, <1>2

\* A record that is applied is newer than all before it, and a start is the first.
LEMMA FineApplied ==
    ASSUME TypeOK, Lines, Story, Unique, EveryLineCounted,
           NEW r \in Recorded, NEW c \in Calls, r.call = c, Fine(c), r \notin receipts,
           ~ Stale(row[c], r), ~ KeepsInference(row[c], r),
           row'[c] = Observed(row[c], r),
           members'[c] = members[c] + Delta(row[c], Observed(row[c], r)),
           Received(c)' = Received(c) \cup {r}
    PROVE  Fine(c)'
<1> DEFINE p == row[c]
           q == Observed(p, r)
<1>1. r \in Record /\ r.version \in Nat /\ r.version >= 1 /\ p \in Row
  BY RecordedTyped DEF Record, Line, Story, TypeOK
<1>2. /\ q.phase = r.phase /\ q.source = r.version
      /\ q.revision = p.revision + 1 /\ q.by = "observed"
  BY DEF Observed
<1>3. r.phase \in {"started", "progress", "finished"}
  BY <1>1 DEF Record, Line, Phases
<1>4. p.source \in Nat /\ p.revision \in Nat /\ p.source < r.version
  BY <1>1 DEF Row, Stale
<1>5. \A s \in Received(c) : s.version < r.version /\ s.phase # "none"
  <2> SUFFICES ASSUME NEW s \in Received(c) PROVE s.version < r.version
    BY Receipted DEF Record
  <2>1. s \in Recorded /\ s.call = c /\ s.version \in Nat /\ s \in receipts
    BY Receipted DEF Received
  <2>2. CASE p.by = "observed"
    BY <1>1, <1>4, <2>1, <2>2 DEF Fine
  <2>3. CASE p.by # "observed"
    <3>1. r.phase = "finished"
      BY <2>3 DEF KeepsInference
    <3>2. s.version <= r.version /\ s.version # r.version
      BY <1>1, <2>1, <3>1 DEF Story, Unique
    <3> QED
      BY <1>1, <2>1, <3>2
  <2> QED
    BY <2>2, <2>3
<1>6. q.phase = "started" => p.phase = "none"
  <2>1. ASSUME q.phase = "started", p.phase # "none" PROVE FALSE
    <3>1. PICK s \in Received(c) : s.version = p.source
      BY <2>1 DEF Fine
    <3>2. s.version >= 1 /\ s.version \in Nat
      BY Receipted
    <3>3. r.version = 1
      BY <1>2, <2>1 DEF Story
    <3> QED
      BY <1>4, <3>1, <3>2, <3>3
  <2> QED
    BY <2>1
<1>7. members[c] \in {0, 1} /\ (p.phase = "none" => members[c] = 0)
      /\ (p.phase = "started" => members[c] = 1)
  BY DEF Fine
<1> HIDE DEF p, q
<1>8. members[c] + Delta(p, q) \in {0, 1} /\ (q.phase = "started" => members[c] + Delta(p, q) = 1)
  BY <1>2, <1>3, <1>6, <1>7 DEF Delta
<1>9. row'[c] = q /\ members'[c] = members[c] + Delta(p, q)
  BY DEF p, q
<1>10. r \in Received(c)' /\ \A s \in Received(c)' : s = r \/ s.version < r.version
  BY <1>5
<1>11. q.phase # "none" /\ q.revision >= 1
  BY <1>2, <1>3, <1>4
<1> QED
  BY <1>2, <1>8, <1>9, <1>10, <1>11 DEF Fine

\* An inferred end keeps the version of the row, and takes the call out if it is
\* still counted.
LEMMA FineInferred ==
    ASSUME TypeOK, Lines, Story, Unique, EveryLineCounted, NEW c \in Calls, Fine(c),
           row[c].phase \in {"started", "progress"},
           row'[c] = Inferred(row[c]),
           members'[c] = members[c] + Delta(row[c], Inferred(row[c])),
           Received(c)' = Received(c)
    PROVE  Fine(c)'
<1> DEFINE p == row[c]
           q == Inferred(p)
<1>1. p \in Row
  BY DEF TypeOK
<1>2. /\ q.phase = "finished" /\ q.source = p.source
      /\ q.revision = p.revision + 1 /\ q.by \in {"exit", "timeout"}
  BY <1>1, RowsMade
<1>3. p.by = "observed" /\ p.phase # "none" /\ p.revision \in Nat
  BY <1>1 DEF Fine, Row
<1>4. \A r \in Received(c) : r.phase # "finished"
  <2> SUFFICES ASSUME NEW r \in Received(c), r.phase = "finished" PROVE FALSE
    OBVIOUS
  <2>1. PICK s \in Received(c) : s.version = p.source
    BY <1>3 DEF Fine
  <2>2. /\ s \in Recorded /\ s.call = c /\ s.version \in Nat
        /\ r \in Recorded /\ r.call = c /\ r.version \in Nat
    BY Receipted
  <2>3. s.version <= r.version
    BY <2>2 DEF Story
  <2>4. r.version = p.source /\ r.phase = p.phase
    BY <1>3, <2>1, <2>2, <2>3 DEF Fine
  <2> QED
    BY <2>4
<1>5. \E r \in Received(c) : r.version = q.source
  BY <1>2, <1>3 DEF Fine
<1>6. Received(c) # {}
  BY <1>5
<1>7. members[c] \in {0, 1} /\ (p.phase = "started" => members[c] = 1)
  BY DEF Fine
<1> HIDE DEF p, q
<1>8. members[c] + Delta(p, q) \in {0, 1}
  BY <1>2, <1>3, <1>7 DEF Delta
<1>9. row'[c] = q /\ members'[c] = members[c] + Delta(p, q)
  BY DEF p, q
<1>10. q.revision >= 1 /\ q.by # "observed"
  BY <1>2, <1>3
<1> QED
  BY <1>2, <1>4, <1>5, <1>6, <1>8, <1>9, <1>10 DEF Fine

\* What setting a row does to the calls.
LEMMA SetRows ==
    ASSUME TypeOK, NEW c \in Calls, NEW q, SetRow(c, q)
    PROVE  /\ row'[c] = q /\ members'[c] = members[c] + Delta(row[c], q)
           /\ \A d \in Calls \ {c} : row'[d] = row[d] /\ members'[d] = members[d]
BY DEF SetRow, TypeOK

\* Every step keeps the rows fine.
LEMMA StepFine ==
    ASSUME IInv, [Next]_vars, NEW c \in Calls PROVE Fine(c)'
<1> USE DEF IInv
<1>1. Fine(c)
  BY AllFine
<1>2. CASE Nothing \/ SetsAside
  <2>1. UNCHANGED facts
    BY <1>2 DEF Nothing, SetsAside
  <2>2. row'[c] = row[c] /\ members'[c] = members[c] /\ Received(c)' = Received(c)
    BY <2>1 DEF facts, Received
  <2> QED
    BY <1>1, <2>2, FineStays
<1>3. CASE Infers
  <2>1. PICK d \in Calls :
            row[d].phase \in {"started", "progress"} /\ SetRow(d, Inferred(row[d]))
    BY <1>3 DEF Infers
  <2>2. Received(c)' = Received(c)
    BY <1>3 DEF Infers, Received
  <2>3. CASE c = d
    BY <1>1, <2>1, <2>2, <2>3, SetRows, FineInferred
  <2>4. CASE c # d
    BY <1>1, <2>1, <2>2, <2>4, SetRows, FineStays
  <2> QED
    BY <2>3, <2>4
<1>4. CASE Ingests
  <2>0. PICK f \in Files : \E i \in 1..Len(log[f]) :
            At(f, i) \in Record /\ IngestRecord(f, i, At(f, i))
    BY <1>4 DEF Ingests
  <2>1. PICK i \in 1..Len(log[f]) : At(f, i) \in Record /\ IngestRecord(f, i, At(f, i))
    BY <2>0
  <2>2. PICK r \in Record : r = At(f, i) /\ IngestRecord(f, i, r)
    BY <2>1
  <2>3. i \in Nat
    BY <2>1, LenProperties DEF TypeOK
  <2>4. r \in Recorded /\ r.call \in Calls
    BY <2>1, <2>2, RecordedIs, GarbledIsNone DEF Record
  <2> DEFINE p == row[r.call]
  <2>5. CASE UNCHANGED <<receipts, row, members>>
    BY <1>1, <2>5, FineStays DEF Received
  <2>6. CASE /\ receipts' = receipts \cup {r} /\ UNCHANGED <<row, members>>
             /\ r \in receipts \/ Stale(p, r) \/ KeepsInference(p, r)
    <3>1. CASE c = r.call
      <4>1. Received(c)' = Received(c) \cup {r}
        BY <2>6, <3>1 DEF Received
      <4> QED
        BY <1>1, <2>4, <2>6, <3>1, <4>1, FineReceived
    <3>2. CASE c # r.call
      <4>1. Received(c)' = Received(c)
        BY <2>6, <3>2 DEF Received
      <4> QED
        BY <1>1, <2>6, <4>1, FineStays
    <3> QED
      BY <3>1, <3>2
  <2>7. CASE /\ receipts' = receipts \cup {r} /\ SetRow(r.call, Observed(p, r))
             /\ r \notin receipts /\ ~ Stale(p, r) /\ ~ KeepsInference(p, r)
    <3>1. CASE c = r.call
      <4>1. Received(c)' = Received(c) \cup {r}
        BY <2>7, <3>1 DEF Received
      <4>2. row'[c] = Observed(p, r) /\ members'[c] = members[c] + Delta(p, Observed(p, r))
        BY <2>7, <3>1, SetRows
      <4> QED
        BY <1>1, <2>4, <2>7, <3>1, <4>1, <4>2, FineApplied
    <3>2. CASE c # r.call
      <4>1. Received(c)' = Received(c)
        BY <2>7, <3>2 DEF Received
      <4> QED
        BY <1>1, <2>4, <2>7, <3>2, <4>1, SetRows, FineStays
    <3> QED
      BY <3>1, <3>2
  <2> QED
    BY <2>2, <2>3, <2>5, <2>6, <2>7, Ingested
<1> QED
  BY <1>2, <1>3, <1>4, FactSteps

-----------------------------------------------------------------------------
(* Theorems. *)

\* The initial state satisfies the invariant.
LEMMA InitHolds == Init => IInv
<1> SUFFICES ASSUME Init PROVE IInv
  OBVIOUS
<1>1. TypeOK
  BY InitTyped
<1>2. \A f \in Files : log[f] = <<>> /\ checkpoint[f] = 0
  BY DEF Init
<1>3. Recorded = {} /\ Lines
  BY <1>2 DEF Recorded, Lines
<1>4. Story /\ Unique
  BY <1>3 DEF Story, Unique
<1>5. Made /\ Sessions
  BY DEF Init, Made, Sessions, Resting
<1>6. EveryLineCounted
  BY <1>2 DEF Init, EveryLineCounted
<1>7. \A c \in Calls : Fine(c)
  BY DEF Init, Fine, NoRow, Received
<1>8. Revised
  BY DEF Init, Revised, NoRow, Resting
<1> QED
  BY <1>1, <1>3, <1>4, <1>5, <1>6, <1>7, <1>8, AllFine DEF IInv

\* The invariant is inductive.
THEOREM Inductive == Spec => []IInv
<1>1. IInv /\ [Next]_vars => IInv'
  <2> SUFFICES ASSUME IInv, [Next]_vars PROVE IInv'
    OBVIOUS
  <2>1. TypeOK' /\ Lines' /\ Made' /\ Story' /\ Unique' /\ EveryLineCounted'
    BY StepTyped, StepLines, StepMade, StepStory, StepCounted DEF IInv
  <2>2. Sessions' /\ \A w \in Workers : \A p \in worker'[w].candidates : p[2] >= 1
    BY StepSessions DEF IInv
  <2>3. \A c \in Calls : Fine(c)'
    BY StepFine
  <2>4. Sourced' /\ LatestRecordShown' /\ MemberOnce'
        /\ \A c \in Calls : row'[c].phase # "none" => row'[c].revision >= 1
    BY <2>3 DEF Fine, Sourced, LatestRecordShown, MemberOnce
  <2> QED
    BY <2>1, <2>2, <2>4 DEF IInv, Revised
<1> QED
  BY <1>1, InitHolds, PTL DEF Spec

\* Every reachable state of the ingestion is well typed.
THEOREM TypeCorrect == Spec => []TypeOK
<1>1. IInv => TypeOK
  BY DEF IInv
<1> QED
  BY <1>1, Inductive, PTL

\* No line below a checkpoint is lost, and no receipt lacks its line, for any
\* number of workers at any files, however passes fail and workers die.
THEOREM EveryLineCountedHolds == Spec => []EveryLineCounted
<1>1. IInv => EveryLineCounted
  BY DEF IInv
<1> QED
  BY <1>1, Inductive, PTL

\* The row of a call shows its latest record, in whatever order they come.
THEOREM LatestRecordShownHolds == Spec => []LatestRecordShown
<1>1. IInv => LatestRecordShown
  BY DEF IInv
<1> QED
  BY <1>1, Inductive, PTL

\* The deltas of a call add up to 0 or 1, however its end was found.
THEOREM MemberOnceHolds == Spec => []MemberOnce
<1>1. IInv => MemberOnce
  BY DEF IInv
<1> QED
  BY <1>1, Inductive, PTL

\* An observed end stays, an inferred one yields to an observed one only.
THEOREM EndsStayHolds == Spec => EndsStay
<1> DEFINE Stays ==
        \A c \in Calls : row[c].phase = "finished" /\ row'[c] # row[c] =>
            row[c].by # "observed" /\ row'[c].phase = "finished" /\ row'[c].by = "observed"
<1>1. IInv /\ [Next]_vars => Stays
  <2> SUFFICES ASSUME IInv, [Next]_vars, NEW c \in Calls,
                      row[c].phase = "finished", row'[c] # row[c]
               PROVE  row[c].by # "observed" /\ row'[c].phase = "finished"
                      /\ row'[c].by = "observed"
    OBVIOUS
  <2> USE DEF IInv
  <2>1. CASE Nothing \/ SetsAside
    BY <2>1 DEF Nothing, SetsAside, facts
  <2>2. CASE Infers
    BY <2>2, SetRows DEF Infers
  <2>3. CASE Ingests
    <3>1. PICK f \in Files : \E i \in 1..Len(log[f]) :
              At(f, i) \in Record /\ IngestRecord(f, i, At(f, i))
      BY <2>3 DEF Ingests
    <3>2. PICK i \in 1..Len(log[f]) : At(f, i) \in Record /\ IngestRecord(f, i, At(f, i))
      BY <3>1
    <3>3. PICK r \in Record : IngestRecord(f, i, r)
      BY <3>2
    <3>4. i \in Nat /\ r.call \in Calls /\ r.version \in Nat
      BY <3>2, LenProperties DEF TypeOK, Record, Line
    <3>5. SetRow(r.call, Observed(row[r.call], r)) /\ ~ Mutation(row[r.call], r)
          /\ ~ Stale(row[r.call], r) /\ ~ KeepsInference(row[r.call], r)
      BY <3>3, <3>4, Ingested DEF SetRow
    <3>6. c = r.call /\ row'[c] = Observed(row[c], r)
      BY <3>4, <3>5, SetRows
    <3>7. row[c].source \in Nat
      BY DEF TypeOK, Row
    <3>8. row[c].by # "observed"
      BY <3>4, <3>5, <3>6, <3>7 DEF Mutation, Stale
    <3> QED
      BY <3>5, <3>6, <3>8 DEF KeepsInference, Observed
  <2> QED
    BY <2>1, <2>2, <2>3, FactSteps
<1> QED
  BY <1>1, Inductive, PTL DEF Spec, EndsStay
=============================================================================
