--------------------------- MODULE Managed_proofs ----------------------------
(***************************************************************************)
(* Proofs about the managed MCP servers, in two parts that share nothing:  *)
(* ManagedLifecycle, the durable record of a server, and ManagedRecovery,  *)
(* the launches, stops and recoveries of one process.                      *)
(*                                                                         *)
(* ManagedLifecycle, for any number of processes and stops and any largest *)
(* generation.  A generation is committed by the one process whose start   *)
(* finds the record as it has read it, and the record never goes back: so  *)
(* a generation above the record's has no parent yet, and a child comes up *)
(* only in the start that has committed its generation.  A child, once     *)
(* gone, does not come back; a handler that says it has seen the exit      *)
(* carries that with it until it writes the record.                        *)
(*                                                                         *)
(* ManagedRecovery, for any numbers of attempts, starts, stops, launches   *)
(* and restarts at once.  A launch begins only when the previous one is    *)
(* over, and it is over only when its child is gone: one child.  A stop    *)
(* cancels by a new epoch what is scheduled, aborts the restart under way, *)
(* closes the launch and waits for its end: nothing that was under way     *)
(* outlives it.  At most one restart at a time is valid in the present     *)
(* epoch, and the launches by recovery stay behind its attempt.            *)
(***************************************************************************)
EXTENDS ManagedLifecycle, ManagedRecovery, TLAPS, FiniteSetTheorems

(***************************************************************************)
(* ManagedLifecycle                                                        *)
(***************************************************************************)

\* The steps of start() after the commit of its generation (CommitStarting),
\* and those at which the child has been brought up.
CommittedSteps == {"spawn", "handshake", "ready", "current", "fail", "drop"}
SpawnedSteps == {"handshake", "ready", "current", "drop"}
UnheldSteps == {"supersede", "prepare", "spawn", "handshake", "fail", "drop"}

\* What the handlers have read: a generation that another can follow, one
\* that was open, the generation that is watched.
Past ==
    /\ record.gen = 0 => record = Absent
    /\ \A p \in Procs : start[p].step # "idle" => start[p].seen.gen < MaxGeneration
    /\ \A p \in Procs : stop[p].step # "idle" => stop[p].seen.gen # 0
    /\ \A g \in Generations : watch[g].step = "commit" => watch[g].seen.gen = g

\* One parent a generation, none above the record's; a start past its commit
\* is that parent, and a child has one.
Winner ==
    /\ \A g \in Generations : parent[g] # {} => g <= record.gen
    /\ \A p \in Procs : start[p].step \in CommittedSteps => p \in parent[Gen(p)]
    /\ \A g \in Generations : \A p, q \in parent[g] : p = q
    /\ \A g \in Generations : child[g] # "none" => parent[g] # {}

\* How far the child is, by the step of the handler that looks at it.
Children ==
    /\ \A p \in Procs : start[p].step = "spawn" => child[Gen(p)] = "none"
    /\ \A p \in Procs : start[p].step \in SpawnedSteps => child[Gen(p)] # "none"
    /\ \A p \in Procs : start[p].step = "fail" => child[Gen(p)] \in {"none", "exited"}
    /\ \A p \in Procs : stop[p].verified =>
           stop[p].step = "end" /\ child[stop[p].seen.gen] = "exited"
    /\ \A g \in Generations : watch[g].step \in {"commit", "clean"} => child[g] = "exited"

\* A verified terminal: the child has exited, or never comes up.
Verified ==
    record.verified =>
        /\ record.gen # 0
        /\ \/ child[record.gen] = "exited"
           \/ /\ child[record.gen] = "none"
              /\ \A p \in Procs : start[p].step = "spawn" => Gen(p) # record.gen

\* A child that has gone, or that its parent has told to go.
Lost(g) == child[g] = "exited" \/ g \in closing

\* A handle is let go with its child lost.
Handles ==
    /\ \A p \in Procs : handle[p] # 0 => child[handle[p]] # "none"
    /\ \A p \in Procs : start[p].step \in UnheldSteps => handle[p] = 0
    /\ \A p \in Procs : start[p].step \in {"ready", "current"} =>
           handle[p] = Gen(p) \/ (handle[p] = 0 /\ Lost(Gen(p)))

\* The parent of the current generation holds its handle, until the child is
\* lost or the parent gone.
Owned ==
    record.state = "current" =>
        \A p \in parent[record.gen] :
            handle[p] = record.gen \/ Lost(record.gen) \/ p \in down

\* The inductive invariant.
IInv == TypeOK /\ Past /\ Winner /\ Children /\ Verified /\ Handles /\ Owned

-----------------------------------------------------------------------------
Starts == [step : StartSteps, seen : Record, old : 0..MaxGeneration]
Stops == [step : StopSteps, seen : Record, verified : BOOLEAN]
Watches == [step : WatchSteps, seen : Record]

\* The parts of the state, typed one by one.
LEMMA Typing ==
    TypeOK <=>
        /\ record \in Record
        /\ handle \in [Procs -> 0..MaxGeneration]
        /\ start \in [Procs -> Starts]
        /\ stop \in [Procs -> Stops]
        /\ watch \in [Generations -> Watches]
        /\ parent \in [Generations -> SUBSET Procs]
        /\ child \in [Generations -> Alive \cup {"none", "exited"}]
        /\ closing \subseteq Generations
        /\ down \subseteq Procs /\ stops \in 0..MaxStops
BY DEF TypeOK, Starts, Stops, Watches

\* The numbers in the state.
LEMMA Numbers ==
    ASSUME TypeOK
    PROVE  /\ record.gen \in 0..MaxGeneration
           /\ \A p \in Procs : start[p].seen.gen \in 0..MaxGeneration
           /\ \A p \in Procs : stop[p].seen.gen \in 0..MaxGeneration
<1>1. \A r \in Record : r.gen \in 0..MaxGeneration
  BY DEF Record
<1>2. \A p \in Procs : start[p].seen \in Record /\ stop[p].seen \in Record
  BY Typing DEF Starts, Stops
<1> QED
  BY <1>1, <1>2, Typing

\* What the handlers write parses.
LEMMA EntryTyped ==
    ASSUME NEW g \in Generations, NEW state \in Open
    PROVE  /\ Entry(g, state) \in Record /\ Entry(g, state).gen = g
           /\ Entry(g, state).state = state /\ ~Entry(g, state).verified
BY LifecycleAssumption DEF Entry, Record, Generations, Open

\* The same of a terminal record (Ended).
LEMMA EndedTyped ==
    ASSUME NEW g \in Generations, NEW state \in Terminal, NEW verified \in BOOLEAN
    PROVE  /\ Ended(g, state, verified) \in Record /\ Ended(g, state, verified).gen = g
           /\ Ended(g, state, verified).state = state
           /\ Ended(g, state, verified).verified = verified
BY LifecycleAssumption DEF Ended, Record, Generations, Terminal

-----------------------------------------------------------------------------
(* What a step does to a handler, a handle, a child, point by point.        *)

StartStays == start' = start /\ \A q \in Procs : Gen(q)' = Gen(q)
StartMoves(p, step) ==
    \A q \in Procs :
        /\ start'[q].step = IF q = p THEN step ELSE start[q].step
        /\ start'[q].seen = start[q].seen /\ Gen(q)' = Gen(q)
StartEnds(p) ==
    \A q \in Procs :
        /\ start'[q].step = IF q = p THEN "idle" ELSE start[q].step
        /\ q # p => start'[q].seen = start[q].seen /\ Gen(q)' = Gen(q)
StopMoves(p, step) ==
    \A q \in Procs :
        /\ stop'[q].step = IF q = p THEN step ELSE stop[q].step
        /\ stop'[q].seen = stop[q].seen /\ stop'[q].verified = stop[q].verified
StopReads(p, step, seen) ==
    \A q \in Procs :
        /\ stop'[q].step = IF q = p THEN step ELSE stop[q].step
        /\ stop'[q].seen = IF q = p THEN seen ELSE stop[q].seen
        /\ stop'[q].verified <=> stop[q].verified /\ q # p
StopEnds(p) ==
    \A q \in Procs :
        /\ stop'[q].step = IF q = p THEN "idle" ELSE stop[q].step
        /\ q # p => stop'[q].seen = stop[q].seen
        /\ stop'[q].verified <=> stop[q].verified /\ q # p
WatchMoves(g, step) ==
    \A h \in Generations :
        /\ watch'[h].step = IF h = g THEN step ELSE watch[h].step
        /\ watch'[h].seen = watch[h].seen
WatchEnds(g) ==
    \A h \in Generations :
        /\ watch'[h].step = IF h = g THEN "off" ELSE watch[h].step
        /\ h # g => watch'[h].seen = watch[h].seen
HandleTo(p, g) == \A q \in Procs : handle'[q] = IF q = p THEN g ELSE handle[q]
ChildTo(g, state) == \A h \in Generations : child'[h] = IF h = g THEN state ELSE child[h]
Closes(g) ==
    /\ \A h \in closing : h \in closing'
    /\ child[g] \in Alive => g \in closing'

\* The step of a handler is a field of its own (StartTo).
LEMMA StartMoved ==
    ASSUME TypeOK, NEW p \in Procs, NEW step \in StartSteps, StartTo(p, step)
    PROVE  StartMoves(p, step) /\ start' \in [Procs -> Starts]
<1>1. start \in [Procs -> Starts] /\ start[p] \in Starts
  BY Typing
<1> DEFINE v == [start[p] EXCEPT !.step = step]
<1>2. v \in Starts /\ v.step = step /\ v.seen = start[p].seen
  BY <1>1 DEF Starts
<1>3. start' = [start EXCEPT ![p] = v]
  BY DEF StartTo
<1> HIDE DEF v
<1> QED
  BY <1>1, <1>2, <1>3 DEF StartMoves, Gen

\* A superseded handle is noted with the step (CloseSuperseded).
LEMMA SupersedeMoves ==
    ASSUME TypeOK, NEW p \in Procs,
           start' = [start EXCEPT ![p].step = "supersede", ![p].old = handle[p]]
    PROVE  StartMoves(p, "supersede") /\ start' \in [Procs -> Starts]
<1>1. start \in [Procs -> Starts] /\ start[p] \in Starts /\ handle[p] \in 0..MaxGeneration
  BY Typing
<1> DEFINE v == [start[p] EXCEPT !.step = "supersede", !.old = handle[p]]
<1>2. v \in Starts /\ v.step = "supersede" /\ v.seen = start[p].seen
  BY <1>1 DEF Starts, StartSteps
<1>3. start' = [start EXCEPT ![p] = v]
  OBVIOUS
<1> HIDE DEF v
<1> QED
  BY <1>1, <1>2, <1>3 DEF StartMoves, Gen

\* The record is read by start() and by stop() (BeginStart, BeginStop).
LEMMA StartWritten ==
    ASSUME TypeOK, NEW p \in Procs, NEW v \in Starts, start' = [start EXCEPT ![p] = v]
    PROVE  /\ start' \in [Procs -> Starts]
           /\ \A q \in Procs : start'[q] = IF q = p THEN v ELSE start[q]
           /\ \A q \in Procs : q # p => Gen(q)' = Gen(q)
<1>1. start \in [Procs -> Starts]
  BY Typing
<1> QED
  BY <1>1 DEF Gen

\* stop() begins with the record as read (BeginStop).
LEMMA StopWritten ==
    ASSUME TypeOK, NEW p \in Procs, NEW v \in Stops, stop' = [stop EXCEPT ![p] = v]
    PROVE  /\ stop' \in [Procs -> Stops]
           /\ \A q \in Procs : stop'[q] = IF q = p THEN v ELSE stop[q]
<1>1. stop \in [Procs -> Stops]
  BY Typing
<1> QED
  BY <1>1

\* A handler ends, and forgets what it has read (EndStart).
LEMMA StartEnded ==
    ASSUME TypeOK, NEW p \in Procs, EndStart(p)
    PROVE  StartEnds(p) /\ start' \in [Procs -> Starts]
<1>1. NoStart \in Starts /\ NoStart.step = "idle"
  BY LifecycleAssumption DEF NoStart, Starts, StartSteps, Absent, Record
<1>2. start \in [Procs -> Starts]
  BY Typing
<1> QED
  BY <1>1, <1>2 DEF EndStart, StartEnds, Gen

\* The same of stop(): StopTo, the two ways to read anew, Closed, EndStop.
LEMMA StopMoved ==
    ASSUME TypeOK, NEW p \in Procs, NEW step \in StopSteps, StopTo(p, step)
    PROVE  StopMoves(p, step) /\ stop' \in [Procs -> Stops]
<1>1. stop \in [Procs -> Stops] /\ stop[p] \in Stops
  BY Typing
<1> DEFINE v == [stop[p] EXCEPT !.step = step]
<1>2. v \in Stops /\ v.step = step /\ v.seen = stop[p].seen /\ v.verified = stop[p].verified
  BY <1>1 DEF Stops
<1>3. stop' = [stop EXCEPT ![p] = v]
  BY DEF StopTo
<1> HIDE DEF v
<1> QED
  BY <1>1, <1>2, <1>3 DEF StopMoves

\* stop() goes on with the record as it is now (CommitStopping, RetryStop).
LEMMA StopRead ==
    ASSUME TypeOK, NEW p \in Procs, NEW seen \in Record, ~stop[p].verified,
           stop' = [stop EXCEPT ![p].step = "finalize", ![p].seen = seen]
    PROVE  StopReads(p, "finalize", seen) /\ stop' \in [Procs -> Stops]
<1>1. stop \in [Procs -> Stops] /\ stop[p] \in Stops
  BY Typing
<1> DEFINE v == [stop[p] EXCEPT !.step = "finalize", !.seen = seen]
<1>2. v \in Stops /\ v.step = "finalize" /\ v.seen = seen /\ v.verified = stop[p].verified
  BY <1>1 DEF Stops, StopSteps
<1>3. stop' = [stop EXCEPT ![p] = v]
  OBVIOUS
<1> HIDE DEF v
<1> QED
  BY <1>1, <1>2, <1>3 DEF StopReads

\* finalizeStop() has seen the exit (Closed).
LEMMA StopVerified ==
    ASSUME TypeOK, NEW p \in Procs,
           stop' = [stop EXCEPT ![p].step = "end", ![p].verified = TRUE]
    PROVE  /\ stop' \in [Procs -> Stops]
           /\ \A q \in Procs : /\ stop'[q].step = IF q = p THEN "end" ELSE stop[q].step
                               /\ stop'[q].seen = stop[q].seen
                               /\ q # p => stop'[q].verified = stop[q].verified
<1>1. stop \in [Procs -> Stops] /\ stop[p] \in Stops
  BY Typing
<1> DEFINE v == [stop[p] EXCEPT !.step = "end", !.verified = TRUE]
<1>2. v \in Stops /\ v.step = "end" /\ v.seen = stop[p].seen
  BY <1>1 DEF Stops, StopSteps
<1>3. stop' = [stop EXCEPT ![p] = v]
  OBVIOUS
<1> HIDE DEF v
<1> QED
  BY <1>1, <1>2, <1>3

\* stop() ends, and forgets what it has read (EndStop).
LEMMA StopEnded ==
    ASSUME TypeOK, NEW p \in Procs, EndStop(p)
    PROVE  StopEnds(p) /\ stop' \in [Procs -> Stops]
<1>1. NoStop \in Stops /\ NoStop.step = "idle" /\ ~NoStop.verified
  BY LifecycleAssumption DEF NoStop, Stops, StopSteps, Absent, Record
<1>2. stop \in [Procs -> Stops]
  BY Typing
<1> QED
  BY <1>1, <1>2 DEF EndStop, StopEnds

\* The same of observeClosed() and event().
LEMMA WatchMoved ==
    ASSUME TypeOK, NEW g \in Generations, NEW step \in WatchSteps,
           watch' = [watch EXCEPT ![g].step = step]
    PROVE  WatchMoves(g, step) /\ watch' \in [Generations -> Watches]
<1>1. watch \in [Generations -> Watches] /\ watch[g] \in Watches
  BY Typing
<1> DEFINE v == [watch[g] EXCEPT !.step = step]
<1>2. v \in Watches /\ v.step = step /\ v.seen = watch[g].seen
  BY <1>1 DEF Watches
<1>3. watch' = [watch EXCEPT ![g] = v]
  OBVIOUS
<1> HIDE DEF v
<1> QED
  BY <1>1, <1>2, <1>3 DEF WatchMoves

\* A handler of events that has nothing to do.
LEMMA UnwatchedTyped == Unwatched \in Watches /\ Unwatched.step = "off"
BY LifecycleAssumption DEF Unwatched, Watches, WatchSteps, Absent, Record

\* A handler of events ends (Unwatch).
LEMMA WatchEnded ==
    ASSUME TypeOK, NEW g \in Generations, watch' = [watch EXCEPT ![g] = Unwatched]
    PROVE  WatchEnds(g) /\ watch' \in [Generations -> Watches]
<1>1. watch \in [Generations -> Watches]
  BY Typing
<1> QED
  BY <1>1, UnwatchedTyped DEF WatchEnds

\* A handle is set, a child changes, a channel is closed.
LEMMA HandleSet ==
    ASSUME TypeOK, NEW p \in Procs, NEW g \in 0..MaxGeneration, SetHandle(p, g)
    PROVE  HandleTo(p, g) /\ handle' \in [Procs -> 0..MaxGeneration]
BY Typing DEF SetHandle, HandleTo

\* A child is spawned, moves on or exits.
LEMMA ChildSet ==
    ASSUME TypeOK, NEW g \in Generations, NEW state \in Alive \cup {"none", "exited"},
           child' = [child EXCEPT ![g] = state]
    PROVE  /\ ChildTo(g, state)
           /\ child' \in [Generations -> Alive \cup {"none", "exited"}]
<1>1. child \in [Generations -> Alive \cup {"none", "exited"}]
  BY Typing
<1> QED
  BY <1>1 DEF ChildTo

\* The channel of a child is closed (Close).
LEMMA ChannelClosed ==
    ASSUME TypeOK, NEW g \in Generations, Close(g)
    PROVE  Closes(g) /\ closing' \subseteq Generations
BY Typing DEF Close, Closes

\* stop() begins at one of its two first steps, with the record as read.
LEMMA BeginStopWrites ==
    ASSUME TypeOK, NEW p \in Procs, BeginStop(p)
    PROVE  \E step \in {"approve", "finalize"} :
             /\ stop' \in [Procs -> Stops]
             /\ \A q \in Procs : stop'[q] = IF q = p THEN [step |-> step, seen |-> record, verified |-> FALSE]
                                           ELSE stop[q]
<1>1. PICK step \in {"approve", "finalize"} :
         stop' = [stop EXCEPT ![p] = [step |-> step, seen |-> record, verified |-> FALSE]]
  BY DEF BeginStop
<1>2. [step |-> step, seen |-> record, verified |-> FALSE] \in Stops
  BY <1>1, Typing DEF Stops, StopSteps
<1> QED
  BY <1>1, <1>2, StopWritten

\* event() writes a terminal of the generation it watches.
LEMMA EventWrites ==
    ASSUME TypeOK, NEW g \in Generations, EventCommit(g), Wins(watch[g].seen)
    PROVE  /\ record' \in Record /\ record'.gen = g
           /\ record'.state \in {"stopped", "failed"}
<1>1. PICK state \in {"stopped", "failed"} : record' = Ended(g, state, TRUE)
  BY DEF EventCommit
<1>2. state \in Terminal /\ TRUE \in BOOLEAN
  BY <1>1 DEF Terminal
<1>3. /\ Ended(g, state, TRUE) \in Record /\ Ended(g, state, TRUE).gen = g
      /\ Ended(g, state, TRUE).state = state
  BY <1>2, EndedTyped
<1> QED
  BY <1>1, <1>3

\* A start past its commit is at a generation, of which it is the parent.
LEMMA OfParent ==
    ASSUME IInv, NEW p \in Procs, start[p].step \in CommittedSteps
    PROVE  /\ Gen(p) \in Generations /\ p \in parent[Gen(p)]
           /\ \A q \in parent[Gen(p)] : q = p
           /\ \A q \in Procs : start[q].step \in CommittedSteps /\ q # p => Gen(q) # Gen(p)
<1>1. start[p].seen.gen \in 0..MaxGeneration /\ start[p].seen.gen < MaxGeneration
  BY Numbers DEF IInv, Past, CommittedSteps
<1>2. Gen(p) \in Generations
  BY <1>1, LifecycleAssumption DEF Gen, Generations
<1> QED
  BY <1>2 DEF IInv, Winner

\* Whatever a handler, a handle or a verified record names is a generation.
LEMMA Named ==
    ASSUME IInv
    PROVE  /\ \A q \in Procs : start[q].step \in CommittedSteps => Gen(q) \in Generations
           /\ \A q \in Procs : stop[q].verified => stop[q].seen.gen \in Generations
           /\ \A q \in Procs : handle[q] # 0 => handle[q] \in Generations
           /\ record.gen # 0 => record.gen \in Generations
<1>1. \A q \in Procs : start[q].step \in CommittedSteps => Gen(q) \in Generations
  BY OfParent
<1>2. \A q \in Procs :
        stop[q].verified => stop[q].seen.gen # 0 /\ stop[q].seen.gen \in 0..MaxGeneration
  BY Numbers DEF IInv, Children, Past
<1>3. \A q \in Procs : handle[q] \in 0..MaxGeneration
  BY Typing DEF IInv
<1> QED
  BY <1>1, <1>2, <1>3, Numbers, LifecycleAssumption DEF IInv, Generations

\* The parent keeps the handle, unless the child is lost with it.
LEMMA OwnedStays ==
    ASSUME IInv, record' = record, parent' = parent, \A q \in down : q \in down',
           \A h \in Generations :
               child[h] = "exited" \/ h \in closing => child'[h] = "exited" \/ h \in closing',
           \A q \in Procs : \/ handle'[q] = handle[q] \/ q \in down' \/ handle[q] = 0
                           \/ child'[handle[q]] = "exited" \/ handle[q] \in closing'
    PROVE  Owned'
<1> SUFFICES ASSUME record.state = "current", NEW q \in parent[record.gen]
             PROVE  \/ handle'[q] = record.gen \/ q \in down'
                    \/ child'[record.gen] = "exited" \/ record.gen \in closing'
  BY DEF Owned, Lost
<1>1. record.gen # 0
  BY DEF IInv, Past, Absent
<1>2. record.gen \in Generations
  BY <1>1, Named
<1>3. q \in Procs
  BY <1>2, Typing DEF IInv
<1>4. \/ handle[q] = record.gen \/ q \in down
      \/ child[record.gen] = "exited" \/ record.gen \in closing
  BY DEF IInv, Owned, Lost
<1> QED
  BY <1>1, <1>2, <1>3, <1>4

-----------------------------------------------------------------------------
\* start(): the record is read.
LEMMA BeginStartKeeps ==
    ASSUME IInv, NEW p \in Procs, BeginStart(p) PROVE IInv'
<1>0. TypeOK
  BY DEF IInv
<1>1. start[p].step = "idle" /\ record.gen < MaxGeneration
  BY DEF BeginStart, Starting, MayStart
<1>2. [step |-> "check", seen |-> record, old |-> 0] \in Starts
  BY <1>0, LifecycleAssumption, Typing DEF Starts, StartSteps
<1>3. /\ start' \in [Procs -> Starts]
      /\ \A q \in Procs : start'[q] = IF q = p THEN [step |-> "check", seen |-> record, old |-> 0]
                                     ELSE start[q]
      /\ \A q \in Procs : q # p => Gen(q)' = Gen(q)
  BY <1>0, <1>2, StartWritten DEF BeginStart
<1>4. UNCHANGED <<record, handle, stop, watch, parent, child, closing, down, stops>>
  BY DEF BeginStart
<1>5. /\ start' \in [Procs -> Starts]
      /\ \A q \in Procs : /\ start'[q].step = IF q = p THEN "check" ELSE start[q].step
                          /\ start'[q].seen = IF q = p THEN record ELSE start[q].seen
                          /\ q # p => Gen(q)' = Gen(q)
  BY <1>3
<1>6. TypeOK'
  BY <1>0, <1>4, <1>5 DEF TypeOK, Starts, Stops, Watches
<1>7. Past'
  BY <1>1, <1>2, <1>3, <1>4, <1>5 DEF IInv, Past
<1>8. Winner'
  BY <1>1, <1>2, <1>3, <1>4, <1>5 DEF IInv, Winner, CommittedSteps
<1>9. Children'
  BY <1>1, <1>2, <1>3, <1>4, <1>5 DEF IInv, Children, SpawnedSteps
<1>10. Verified'
  BY <1>1, <1>2, <1>3, <1>4, <1>5 DEF IInv, Verified
<1>11. Handles'
  BY <1>1, <1>2, <1>3, <1>4, <1>5, <1>0, Named, Typing
     DEF IInv, Handles, Lost, UnheldSteps, CommittedSteps
<1>12. Owned'
  BY <1>4 DEF IInv, Owned, Lost
<1> QED
  BY <1>6, <1>7, <1>8, <1>9, <1>10, <1>11, <1>12 DEF IInv

\* start(): the handle of an earlier generation is let go, its child closed.
LEMMA CloseSupersededKeeps ==
    ASSUME IInv, NEW p \in Procs, CloseSuperseded(p) PROVE IInv'
<1>0. TypeOK
  BY DEF IInv
<1>1. CASE handle[p] = 0
  <2>1. start[p].step = "check"
    BY <1>1 DEF CloseSuperseded, Starting
  <2>2. UNCHANGED <<record, handle, stop, watch, parent, child, closing, down, stops>>
    BY <1>1 DEF CloseSuperseded
  <2>3. StartMoves(p, "prepare") /\ start' \in [Procs -> Starts]
    BY <1>1, <1>0, StartMoved DEF CloseSuperseded, StartSteps
  <2>4. TypeOK'
    BY <1>1, <1>0, <2>2, <2>3 DEF TypeOK, Starts, Stops, Watches
  <2>5. Past'
    BY <1>1, <2>1, <2>2, <2>3 DEF IInv, Past, StartMoves
  <2>6. Winner'
    BY <1>1, <2>1, <2>2, <2>3 DEF IInv, Winner, CommittedSteps, StartMoves
  <2>7. Children'
    BY <1>1, <2>1, <2>2, <2>3 DEF IInv, Children, SpawnedSteps, StartMoves
  <2>8. Verified'
    BY <1>1, <2>1, <2>2, <2>3 DEF IInv, Verified, StartMoves
  <2>9. Handles'
    BY <1>1, <2>1, <2>2, <2>3, <1>0, Named, Typing
       DEF IInv, Handles, Lost, UnheldSteps, StartMoves, CommittedSteps
  <2>10. Owned'
    BY <1>1, <2>2 DEF IInv, Owned, Lost
  <2> QED
    BY <2>4, <2>5, <2>6, <2>7, <2>8, <2>9, <2>10 DEF IInv
<1>2. CASE handle[p] # 0
  <2>1. start[p].step = "check"
    BY <1>2 DEF CloseSuperseded, Starting
  <2>2. handle[p] \in Generations
    BY <1>2, <1>0, Typing, LifecycleAssumption DEF Generations
  <2>3. UNCHANGED <<record, stop, watch, parent, child, down, stops>>
    BY <1>2 DEF CloseSuperseded
  <2>4. StartMoves(p, "supersede") /\ start' \in [Procs -> Starts]
    BY <1>2, <1>0, SupersedeMoves DEF CloseSuperseded
  <2>5. HandleTo(p, 0) /\ handle' \in [Procs -> 0..MaxGeneration]
    BY <1>2, <1>0, HandleSet, LifecycleAssumption DEF CloseSuperseded
  <2>6. Closes(handle[p]) /\ closing' \subseteq Generations
    BY <1>2, <1>0, <2>2, ChannelClosed DEF CloseSuperseded
  <2>7. TypeOK'
    BY <1>2, <1>0, <2>3, <2>4, <2>5, <2>6 DEF TypeOK, Starts, Stops, Watches
  <2>8. Past'
    BY <1>2, <2>1, <2>2, <2>3, <2>4 DEF IInv, Past, StartMoves
  <2>9. Winner'
    BY <1>2, <2>1, <2>2, <2>3, <2>4 DEF IInv, Winner, CommittedSteps, StartMoves
  <2>10. Children'
    BY <1>2, <2>1, <2>2, <2>3, <2>4 DEF IInv, Children, SpawnedSteps, StartMoves
  <2>11. Verified'
    BY <1>2, <2>1, <2>2, <2>3, <2>4 DEF IInv, Verified, StartMoves
  <2>12. Handles'
    BY SMTT(30), <1>2, <2>1, <2>2, <2>3, <2>5, <2>4, <2>6, <1>0, Typing
       DEF IInv, Handles, Lost, UnheldSteps, StartMoves, HandleTo, Closes,
           CommittedSteps
  <2>13. \A h \in Generations :
        child[h] = "exited" \/ h \in closing => child'[h] = "exited" \/ h \in closing'
    BY <1>2, <2>1, <2>2, <2>3, <2>6, <2>5 DEF HandleTo, Closes
  <2>14. \A q \in Procs : \/ handle'[q] = handle[q] \/ q \in down' \/ handle[q] = 0
                        \/ child'[handle[q]] = "exited" \/ handle[q] \in closing'
    BY <1>2, <1>0, Named, Typing, <2>1, <2>2, <2>3, <2>6, <2>5
       DEF IInv, Handles, Lost, UnheldSteps, HandleTo, Closes
  <2>15. Owned'
    BY <1>2, <2>13, <2>14, <2>3, OwnedStays
  <2> QED
    BY <2>7, <2>8, <2>9, <2>10, <2>11, <2>12, <2>15 DEF IInv
<1> QED
  BY <1>1, <1>2 DEF CloseSuperseded

\* start(): the earlier child has exited.
LEMMA SupersededKeeps ==
    ASSUME IInv, NEW p \in Procs, Superseded(p) PROVE IInv'
<1>0. TypeOK
  BY DEF IInv
<1>1. start[p].step = "supersede"
  BY DEF Superseded, Starting
<1>2. UNCHANGED <<record, handle, stop, watch, parent, child, closing, down, stops>>
  BY DEF Superseded
<1>3. StartMoves(p, "prepare") /\ start' \in [Procs -> Starts]
  BY <1>0, StartMoved DEF Superseded, StartSteps
<1>4. TypeOK'
  BY <1>0, <1>2, <1>3 DEF TypeOK, Starts, Stops, Watches
<1>5. Past'
  BY <1>1, <1>2, <1>3 DEF IInv, Past, StartMoves
<1>6. Winner'
  BY <1>1, <1>2, <1>3 DEF IInv, Winner, CommittedSteps, StartMoves
<1>7. Children'
  BY <1>1, <1>2, <1>3 DEF IInv, Children, SpawnedSteps, StartMoves
<1>8. Verified'
  BY <1>1, <1>2, <1>3 DEF IInv, Verified, StartMoves
<1>9. Handles'
  BY <1>1, <1>2, <1>3, <1>0, Named, Typing
     DEF IInv, Handles, Lost, UnheldSteps, StartMoves, CommittedSteps
<1>10. Owned'
  BY <1>2 DEF IInv, Owned, Lost
<1> QED
  BY <1>4, <1>5, <1>6, <1>7, <1>8, <1>9, <1>10 DEF IInv

\* start(): nothing has been written.
LEMMA PrepareFailsKeeps ==
    ASSUME IInv, NEW p \in Procs, PrepareFails(p) PROVE IInv'
<1>0. TypeOK
  BY DEF IInv
<1>1. start[p].step = "prepare"
  BY DEF PrepareFails, Starting
<1>2. UNCHANGED <<record, handle, stop, watch, parent, child, closing, down, stops>>
  BY DEF PrepareFails
<1>3. StartEnds(p) /\ start' \in [Procs -> Starts]
  BY <1>0, StartEnded DEF PrepareFails
<1>4. TypeOK'
  BY <1>0, <1>2, <1>3 DEF TypeOK, Starts, Stops, Watches
<1>5. Past'
  BY <1>1, <1>2, <1>3 DEF IInv, Past, StartEnds
<1>6. Winner'
  BY <1>1, <1>2, <1>3 DEF IInv, Winner, CommittedSteps, StartEnds
<1>7. Children'
  BY <1>1, <1>2, <1>3 DEF IInv, Children, SpawnedSteps, StartEnds
<1>8. Verified'
  BY <1>1, <1>2, <1>3 DEF IInv, Verified, StartEnds
<1>9. Handles'
  BY <1>1, <1>2, <1>3, <1>0, Named, Typing
     DEF IInv, Handles, Lost, UnheldSteps, StartEnds, CommittedSteps
<1>10. Owned'
  BY <1>2 DEF IInv, Owned, Lost
<1> QED
  BY <1>4, <1>5, <1>6, <1>7, <1>8, <1>9, <1>10 DEF IInv

\* start(): the one start that finds the record it has read commits the generation.
LEMMA CommitStartingKeeps ==
    ASSUME IInv, NEW p \in Procs, CommitStarting(p) PROVE IInv'
<1>0. TypeOK
  BY DEF IInv
<1>1. CASE ~Wins(start[p].seen)
  <2>1. start[p].step = "prepare"
    BY <1>1 DEF CommitStarting, Starting
  <2>2. UNCHANGED <<record, handle, stop, watch, parent, child, closing, down, stops>>
    BY <1>1 DEF CommitStarting
  <2>3. StartEnds(p) /\ start' \in [Procs -> Starts]
    BY <1>1, <1>0, StartEnded DEF CommitStarting
  <2>4. TypeOK'
    BY <1>1, <1>0, <2>2, <2>3 DEF TypeOK, Starts, Stops, Watches
  <2>5. Past'
    BY <1>1, <2>1, <2>2, <2>3 DEF IInv, Past, StartEnds
  <2>6. Winner'
    BY <1>1, <2>1, <2>2, <2>3 DEF IInv, Winner, CommittedSteps, StartEnds
  <2>7. Children'
    BY <1>1, <2>1, <2>2, <2>3 DEF IInv, Children, SpawnedSteps, StartEnds
  <2>8. Verified'
    BY <1>1, <2>1, <2>2, <2>3 DEF IInv, Verified, StartEnds
  <2>9. Handles'
    BY <1>1, <2>1, <2>2, <2>3, <1>0, Named, Typing
       DEF IInv, Handles, Lost, UnheldSteps, StartEnds, CommittedSteps
  <2>10. Owned'
    BY <1>1, <2>2 DEF IInv, Owned, Lost
  <2> QED
    BY <2>4, <2>5, <2>6, <2>7, <2>8, <2>9, <2>10 DEF IInv
<1>2. CASE Wins(start[p].seen)
  <2>1. start[p].step = "prepare"
    BY <1>2 DEF CommitStarting, Starting
  <2>2. Gen(p) = record.gen + 1 /\ Gen(p) \in Generations /\ record.gen \in Nat
    BY <1>2, <1>0, LifecycleAssumption, Numbers, <2>1
       DEF IInv, Wins, Gen, Past, Generations
  <2>3. parent[Gen(p)] = {} /\ child[Gen(p)] = "none"
    BY <1>2, <2>2 DEF IInv, Winner, Generations
  <2>4. UNCHANGED <<handle, stop, watch, child, closing, down, stops>>
    BY <1>2 DEF CommitStarting
  <2>5. StartMoves(p, "spawn") /\ start' \in [Procs -> Starts]
    BY <1>2, <1>0, StartMoved DEF CommitStarting, StartSteps
  <2>6. /\ record' \in Record /\ record'.gen = Gen(p)
        /\ record'.state = "starting" /\ ~record'.verified
    BY <1>2, <2>2, EntryTyped DEF CommitStarting, Open
  <2>7. /\ parent' \in [Generations -> SUBSET Procs]
        /\ \A g \in Generations : parent'[g] = IF g = Gen(p) THEN {p} ELSE parent[g]
    BY <1>2, <1>0, <2>2, <2>3, Typing DEF CommitStarting
  <2>8. TypeOK'
    BY <1>2, <1>0, <2>4, <2>5, <2>6, <2>7 DEF TypeOK, Starts, Stops, Watches
  <2>9. Past'
    BY <1>2, <2>1, <2>2, <2>3, <2>4, <2>6, <2>5, <1>0, Numbers
       DEF IInv, Past, StartMoves
  <2>10. Winner'
    BY SMTT(30), <1>2, <2>1, <2>2, <2>3, <2>4, <2>6, <2>5, <2>7, <1>0, Numbers, Named
       DEF IInv, Winner, CommittedSteps, StartMoves, Generations
  <2>11. Children'
    BY <1>2, <2>1, <2>2, <2>3, <2>4, <2>5
       DEF IInv, Children, SpawnedSteps, StartMoves
  <2>12. Verified'
    BY <1>2, <2>1, <2>2, <2>3, <2>4, <2>6, <2>5 DEF IInv, Verified, StartMoves
  <2>13. Handles'
    BY <1>2, <2>1, <2>2, <2>3, <2>4, <2>5, <1>0, Named, Typing
       DEF IInv, Handles, Lost, UnheldSteps, StartMoves, CommittedSteps
  <2>14. Owned'
    BY <1>2, <2>1, <2>2, <2>3, <2>4, <2>6, <2>7 DEF IInv, Owned, Handles, Lost
  <2> QED
    BY <2>8, <2>9, <2>10, <2>11, <2>12, <2>13, <2>14 DEF IInv
<1> QED
  BY <1>1, <1>2 DEF CommitStarting

\* start(): the child is spawned, or not.
LEMMA SpawnKeeps ==
    ASSUME IInv, NEW p \in Procs, Spawn(p) PROVE IInv'
<1>0. TypeOK
  BY DEF IInv
<1>1. CASE StartTo(p, "fail") /\ UNCHANGED child
  <2>1. start[p].step = "spawn"
    BY <1>1 DEF Spawn, Starting
  <2>2. /\ Gen(p) \in Generations /\ p \in parent[Gen(p)]
        /\ \A q \in parent[Gen(p)] : q = p
        /\ \A q \in Procs : start[q].step \in CommittedSteps /\ q # p => Gen(q) # Gen(p)
    BY <1>1, <2>1, OfParent DEF CommittedSteps
  <2>3. UNCHANGED <<record, handle, stop, watch, parent, child, closing, down, stops>>
    BY <1>1 DEF Spawn
  <2>4. StartMoves(p, "fail") /\ start' \in [Procs -> Starts]
    BY <1>1, <1>0, StartMoved DEF Spawn, StartSteps
  <2>5. TypeOK'
    BY <1>1, <1>0, <2>3, <2>4 DEF TypeOK, Starts, Stops, Watches
  <2>6. Past'
    BY <1>1, <2>1, <2>2, <2>3, <2>4 DEF IInv, Past, StartMoves
  <2>7. Winner'
    BY <1>1, <2>1, <2>2, <2>3, <2>4 DEF IInv, Winner, CommittedSteps, StartMoves
  <2>8. Children'
    BY <1>1, <2>1, <2>2, <2>3, <2>4 DEF IInv, Children, SpawnedSteps, StartMoves
  <2>9. Verified'
    BY <1>1, <2>1, <2>2, <2>3, <2>4 DEF IInv, Verified, StartMoves
  <2>10. Handles'
    BY <1>1, <2>1, <2>2, <2>3, <2>4, <1>0, Named, Typing
       DEF IInv, Handles, Lost, UnheldSteps, StartMoves, CommittedSteps
  <2>11. Owned'
    BY <1>1, <2>3 DEF IInv, Owned, Lost
  <2> QED
    BY <2>5, <2>6, <2>7, <2>8, <2>9, <2>10, <2>11 DEF IInv
<1>2. CASE StartTo(p, "handshake") /\ child' = [child EXCEPT ![Gen(p)] = "booting"]
  <2>1. start[p].step = "spawn"
    BY <1>2 DEF Spawn, Starting
  <2>2. /\ Gen(p) \in Generations /\ p \in parent[Gen(p)]
        /\ \A q \in parent[Gen(p)] : q = p
        /\ \A q \in Procs : start[q].step \in CommittedSteps /\ q # p => Gen(q) # Gen(p)
    BY <1>2, <2>1, OfParent DEF CommittedSteps
  <2>3. child[Gen(p)] = "none"
    BY <1>2, <2>1 DEF IInv, Children
  <2>4. UNCHANGED <<record, handle, stop, watch, parent, closing, down, stops>>
    BY <1>2 DEF Spawn
  <2>5. StartMoves(p, "handshake") /\ start' \in [Procs -> Starts]
    BY <1>2, <1>0, StartMoved DEF Spawn, StartSteps
  <2>6. ChildTo(Gen(p), "booting") /\ child' \in [Generations -> Alive \cup {"none", "exited"}]
    BY <1>2, <1>0, <2>2, ChildSet DEF Alive
  <2>7. TypeOK'
    BY <1>2, <1>0, <2>4, <2>5, <2>6 DEF TypeOK, Starts, Stops, Watches
  <2>8. Past'
    BY <1>2, <2>1, <2>2, <2>3, <2>4, <2>5 DEF IInv, Past, StartMoves
  <2>9. Winner'
    BY <1>2, <2>1, <2>2, <2>3, <2>4, <2>5, <2>6, Named
       DEF IInv, Winner, CommittedSteps, StartMoves, ChildTo
  <2>10. Children'
    BY <1>2, <2>1, <2>2, <2>3, <2>4, <2>5, <2>6, Named
       DEF IInv, Children, SpawnedSteps, StartMoves, ChildTo, CommittedSteps
  <2>11. Verified'
    BY <1>2, <2>1, <2>2, <2>3, <2>4, <2>6, <2>5, Named
       DEF IInv, Verified, StartMoves, ChildTo, CommittedSteps
  <2>12. Handles'
    BY <1>2, <2>1, <2>2, <2>3, <2>4, <2>6, <2>5, Named
       DEF IInv, Handles, Lost, UnheldSteps, StartMoves, ChildTo, CommittedSteps,
           SpawnedSteps
  <2>13. \A h \in Generations :
        child[h] = "exited" \/ h \in closing => child'[h] = "exited" \/ h \in closing'
    BY <1>2, <2>1, <2>2, <2>3, <2>4, <2>6 DEF ChildTo
  <2>14. \A q \in Procs : \/ handle'[q] = handle[q] \/ q \in down' \/ handle[q] = 0
                        \/ child'[handle[q]] = "exited" \/ handle[q] \in closing'
    BY <1>2, <1>0, Named, Typing, <2>1, <2>2, <2>3, <2>4, <2>6
       DEF IInv, Handles, Lost, UnheldSteps, ChildTo
  <2>15. Owned'
    BY <1>2, <2>13, <2>14, <2>4, OwnedStays
  <2> QED
    BY <2>7, <2>8, <2>9, <2>10, <2>11, <2>12, <2>15 DEF IInv
<1> QED
  BY <1>1, <1>2 DEF Spawn

\* start(): the child has accepted the handoff, or has gone.
LEMMA AcceptedKeeps ==
    ASSUME IInv, NEW p \in Procs, Accepted(p) PROVE IInv'
<1>0. TypeOK
  BY DEF IInv
<1>1. CASE child[Gen(p)] = "exited"
  <2>1. start[p].step = "handshake"
    BY <1>1 DEF Accepted, Starting
  <2>2. UNCHANGED <<record, handle, stop, watch, parent, child, closing, down, stops>>
    BY <1>1 DEF Accepted
  <2>3. StartMoves(p, "fail") /\ start' \in [Procs -> Starts]
    BY <1>1, <1>0, StartMoved DEF Accepted, StartSteps
  <2>4. TypeOK'
    BY <1>1, <1>0, <2>2, <2>3 DEF TypeOK, Starts, Stops, Watches
  <2>5. Past'
    BY <1>1, <2>1, <2>2, <2>3 DEF IInv, Past, StartMoves
  <2>6. Winner'
    BY <1>1, <2>1, <2>2, <2>3 DEF IInv, Winner, CommittedSteps, StartMoves
  <2>7. Children'
    BY <1>1, <2>1, <2>2, <2>3 DEF IInv, Children, SpawnedSteps, StartMoves
  <2>8. Verified'
    BY <1>1, <2>1, <2>2, <2>3 DEF IInv, Verified, StartMoves
  <2>9. Handles'
    BY <1>1, <2>1, <2>2, <2>3, <1>0, Named, Typing
       DEF IInv, Handles, Lost, UnheldSteps, StartMoves, CommittedSteps
  <2>10. Owned'
    BY <1>1, <2>2 DEF IInv, Owned, Lost
  <2> QED
    BY <2>4, <2>5, <2>6, <2>7, <2>8, <2>9, <2>10 DEF IInv
<1>2. CASE child[Gen(p)] # "exited"
  <2>1. start[p].step = "handshake"
    BY <1>2 DEF Accepted, Starting
  <2>2. /\ Gen(p) \in Generations /\ p \in parent[Gen(p)]
        /\ \A q \in parent[Gen(p)] : q = p
        /\ \A q \in Procs : start[q].step \in CommittedSteps /\ q # p => Gen(q) # Gen(p)
    BY <1>2, <2>1, OfParent DEF CommittedSteps
  <2>3. child[Gen(p)] = "booting"
    BY <1>2 DEF Accepted
  <2>4. UNCHANGED <<record, stop, watch, parent, closing, down, stops>>
    BY <1>2 DEF Accepted
  <2>5. StartMoves(p, "ready") /\ start' \in [Procs -> Starts]
    BY <1>2, <1>0, StartMoved DEF Accepted, StartSteps
  <2>6. ChildTo(Gen(p), "accepted") /\ child' \in [Generations -> Alive \cup {"none", "exited"}]
    BY <1>2, <1>0, <2>2, ChildSet DEF Accepted, Alive
  <2>7. HandleTo(p, Gen(p)) /\ handle' \in [Procs -> 0..MaxGeneration]
    BY <1>2, <1>0, <2>2, HandleSet, LifecycleAssumption DEF Accepted, Generations
  <2>8. TypeOK'
    BY <1>2, <1>0, <2>4, <2>5, <2>6, <2>7 DEF TypeOK, Starts, Stops, Watches
  <2>9. Past'
    BY <1>2, <2>1, <2>2, <2>3, <2>4, <2>5 DEF IInv, Past, StartMoves
  <2>10. Winner'
    BY <1>2, <2>1, <2>2, <2>3, <2>4, <2>5, <2>6, Named
       DEF IInv, Winner, CommittedSteps, StartMoves, ChildTo
  <2>11. Children'
    BY <1>2, <2>1, <2>2, <2>3, <2>4, <2>5, <2>6, Named
       DEF IInv, Children, SpawnedSteps, StartMoves, ChildTo, CommittedSteps
  <2>12. Verified'
    BY <1>2, <2>1, <2>2, <2>3, <2>4, <2>6, <2>5, Named
       DEF IInv, Verified, StartMoves, ChildTo, CommittedSteps
  <2>13. Handles'
    BY <1>2, <2>1, <2>2, <2>3, <2>4, <2>7, <2>6, <2>5, Named
       DEF IInv, Handles, Lost, UnheldSteps, StartMoves, HandleTo, ChildTo,
           CommittedSteps, SpawnedSteps
  <2>14. \A h \in Generations :
        child[h] = "exited" \/ h \in closing => child'[h] = "exited" \/ h \in closing'
    BY <1>2, <2>1, <2>2, <2>3, <2>4, <2>6, <2>7 DEF HandleTo, ChildTo
  <2>15. \A q \in Procs : \/ handle'[q] = handle[q] \/ q \in down' \/ handle[q] = 0
                        \/ child'[handle[q]] = "exited" \/ handle[q] \in closing'
    BY <1>2, <1>0, Named, Typing, <2>1, <2>2, <2>3, <2>4, <2>6, <2>7
       DEF IInv, Handles, Lost, UnheldSteps, HandleTo, ChildTo
  <2>16. Owned'
    BY <1>2, <2>14, <2>15, <2>4, OwnedStays
  <2> QED
    BY <2>8, <2>9, <2>10, <2>11, <2>12, <2>13, <2>16 DEF IInv
<1> QED
  BY <1>1, <1>2 DEF Accepted

\* start(): the child is ready, or has gone and the handle with it.
LEMMA ReadyKeeps ==
    ASSUME IInv, NEW p \in Procs, Ready(p) PROVE IInv'
<1>0. TypeOK
  BY DEF IInv
<1>1. CASE child[Gen(p)] = "exited"
  <2>1. start[p].step = "ready"
    BY <1>1 DEF Ready, Starting
  <2>2. /\ Gen(p) \in Generations /\ p \in parent[Gen(p)]
        /\ \A q \in parent[Gen(p)] : q = p
        /\ \A q \in Procs : start[q].step \in CommittedSteps /\ q # p => Gen(q) # Gen(p)
    BY <1>1, <2>1, OfParent DEF CommittedSteps
  <2>3. UNCHANGED <<record, stop, watch, parent, child, closing, down, stops>>
    BY <1>1 DEF Ready
  <2>4. StartMoves(p, "fail") /\ start' \in [Procs -> Starts]
    BY <1>1, <1>0, StartMoved DEF Ready, StartSteps
  <2>5. HandleTo(p, 0) /\ handle' \in [Procs -> 0..MaxGeneration]
    BY <1>1, <1>0, HandleSet, LifecycleAssumption DEF Ready
  <2>6. TypeOK'
    BY <1>1, <1>0, <2>3, <2>4, <2>5 DEF TypeOK, Starts, Stops, Watches
  <2>7. Past'
    BY <1>1, <2>1, <2>2, <2>3, <2>4 DEF IInv, Past, StartMoves
  <2>8. Winner'
    BY <1>1, <2>1, <2>2, <2>3, <2>4 DEF IInv, Winner, CommittedSteps, StartMoves
  <2>9. Children'
    BY <1>1, <2>1, <2>2, <2>3, <2>4 DEF IInv, Children, SpawnedSteps, StartMoves
  <2>10. Verified'
    BY <1>1, <2>1, <2>2, <2>3, <2>4 DEF IInv, Verified, StartMoves
  <2>11. Handles'
    BY SMTT(30), <1>1, <2>1, <2>2, <2>3, <2>5, <2>4, <1>0, Named, Typing
       DEF IInv, Handles, Lost, UnheldSteps, StartMoves, HandleTo, CommittedSteps
  <2>12. \A h \in Generations :
        child[h] = "exited" \/ h \in closing => child'[h] = "exited" \/ h \in closing'
    BY <1>1, <2>1, <2>2, <2>3, <2>5 DEF HandleTo
  <2>13. \A q \in Procs : \/ handle'[q] = handle[q] \/ q \in down' \/ handle[q] = 0
                        \/ child'[handle[q]] = "exited" \/ handle[q] \in closing'
    BY <1>1, <1>0, Named, Typing, <2>1, <2>2, <2>3, <2>5
       DEF IInv, Handles, Lost, UnheldSteps, HandleTo
  <2>14. Owned'
    BY <1>1, <2>12, <2>13, <2>3, OwnedStays
  <2> QED
    BY <2>6, <2>7, <2>8, <2>9, <2>10, <2>11, <2>14 DEF IInv
<1>2. CASE child[Gen(p)] # "exited"
  <2>1. start[p].step = "ready"
    BY <1>2 DEF Ready, Starting
  <2>2. /\ Gen(p) \in Generations /\ p \in parent[Gen(p)]
        /\ \A q \in parent[Gen(p)] : q = p
        /\ \A q \in Procs : start[q].step \in CommittedSteps /\ q # p => Gen(q) # Gen(p)
    BY <1>2, <2>1, OfParent DEF CommittedSteps
  <2>3. child[Gen(p)] = "accepted"
    BY <1>2 DEF Ready
  <2>4. UNCHANGED <<record, handle, stop, watch, parent, closing, down, stops>>
    BY <1>2 DEF Ready
  <2>5. StartMoves(p, "current") /\ start' \in [Procs -> Starts]
    BY <1>2, <1>0, StartMoved DEF Ready, StartSteps
  <2>6. ChildTo(Gen(p), "ready") /\ child' \in [Generations -> Alive \cup {"none", "exited"}]
    BY <1>2, <1>0, <2>2, ChildSet DEF Ready, Alive
  <2>7. TypeOK'
    BY <1>2, <1>0, <2>4, <2>5, <2>6 DEF TypeOK, Starts, Stops, Watches
  <2>8. Past'
    BY <1>2, <2>1, <2>2, <2>3, <2>4, <2>5 DEF IInv, Past, StartMoves
  <2>9. Winner'
    BY <1>2, <2>1, <2>2, <2>3, <2>4, <2>5, <2>6, Named
       DEF IInv, Winner, CommittedSteps, StartMoves, ChildTo
  <2>10. Children'
    BY <1>2, <2>1, <2>2, <2>3, <2>4, <2>5, <2>6, Named
       DEF IInv, Children, SpawnedSteps, StartMoves, ChildTo, CommittedSteps
  <2>11. Verified'
    BY <1>2, <2>1, <2>2, <2>3, <2>4, <2>6, <2>5, Named
       DEF IInv, Verified, StartMoves, ChildTo, CommittedSteps
  <2>12. Handles'
    BY <1>2, <2>1, <2>2, <2>3, <2>4, <2>6, <2>5, Named
       DEF IInv, Handles, Lost, UnheldSteps, StartMoves, ChildTo, CommittedSteps,
           SpawnedSteps
  <2>13. \A h \in Generations :
        child[h] = "exited" \/ h \in closing => child'[h] = "exited" \/ h \in closing'
    BY <1>2, <2>1, <2>2, <2>3, <2>4, <2>6 DEF ChildTo
  <2>14. \A q \in Procs : \/ handle'[q] = handle[q] \/ q \in down' \/ handle[q] = 0
                        \/ child'[handle[q]] = "exited" \/ handle[q] \in closing'
    BY <1>2, <1>0, Named, Typing, <2>1, <2>2, <2>3, <2>4, <2>6
       DEF IInv, Handles, Lost, UnheldSteps, ChildTo
  <2>15. Owned'
    BY <1>2, <2>13, <2>14, <2>4, OwnedStays
  <2> QED
    BY <2>7, <2>8, <2>9, <2>10, <2>11, <2>12, <2>15 DEF IInv
<1> QED
  BY <1>1, <1>2 DEF Ready

\* failTransition(): a verified terminal, if the record is still the start's.
LEMMA FailTransitionKeeps ==
    ASSUME IInv, NEW p \in Procs, FailTransition(p) PROVE IInv'
<1>0. TypeOK
  BY DEF IInv
<1>1. CASE record # Entry(Gen(p), "starting")
  <2>1. start[p].step = "fail"
    BY <1>1 DEF FailTransition, Starting
  <2>2. UNCHANGED <<record, handle, stop, watch, parent, child, closing, down, stops>>
    BY <1>1 DEF FailTransition, Wins
  <2>3. StartEnds(p) /\ start' \in [Procs -> Starts]
    BY <1>1, <1>0, StartEnded DEF FailTransition
  <2>4. TypeOK'
    BY <1>1, <1>0, <2>2, <2>3 DEF TypeOK, Starts, Stops, Watches
  <2>5. Past'
    BY <1>1, <2>1, <2>2, <2>3 DEF IInv, Past, StartEnds
  <2>6. Winner'
    BY <1>1, <2>1, <2>2, <2>3 DEF IInv, Winner, CommittedSteps, StartEnds
  <2>7. Children'
    BY <1>1, <2>1, <2>2, <2>3 DEF IInv, Children, SpawnedSteps, StartEnds
  <2>8. Verified'
    BY <1>1, <2>1, <2>2, <2>3 DEF IInv, Verified, StartEnds
  <2>9. Handles'
    BY <1>1, <2>1, <2>2, <2>3, <1>0, Named, Typing
       DEF IInv, Handles, Lost, UnheldSteps, StartEnds, CommittedSteps
  <2>10. Owned'
    BY <1>1, <2>2 DEF IInv, Owned, Lost
  <2> QED
    BY <2>4, <2>5, <2>6, <2>7, <2>8, <2>9, <2>10 DEF IInv
<1>2. CASE record = Entry(Gen(p), "starting")
  <2>1. start[p].step = "fail"
    BY <1>2 DEF FailTransition, Starting
  <2>2. /\ Gen(p) \in Generations /\ p \in parent[Gen(p)]
        /\ \A q \in parent[Gen(p)] : q = p
        /\ \A q \in Procs : start[q].step \in CommittedSteps /\ q # p => Gen(q) # Gen(p)
    BY <1>2, <2>1, OfParent DEF CommittedSteps
  <2>3. record.gen = Gen(p) /\ child[Gen(p)] \in {"none", "exited"}
    BY <1>2, <2>1 DEF IInv, Children, Entry
  <2>4. UNCHANGED <<handle, stop, watch, parent, child, closing, down, stops>>
    BY <1>2 DEF FailTransition
  <2>5. StartEnds(p) /\ start' \in [Procs -> Starts]
    BY <1>2, <1>0, StartEnded DEF FailTransition
  <2>6. /\ record' \in Record /\ record'.gen = Gen(p)
        /\ record'.state = "failed"
    BY <1>2, <2>2, EndedTyped DEF FailTransition, Wins, Terminal
  <2>7. TypeOK'
    BY <1>2, <1>0, <2>4, <2>5, <2>6 DEF TypeOK, Starts, Stops, Watches
  <2>8. Past'
    BY <1>2, <2>1, <2>2, <2>3, <2>4, <2>6, <2>5
       DEF IInv, Past, StartEnds, Generations
  <2>9. Winner'
    BY <1>2, <2>1, <2>2, <2>3, <2>4, <2>6, <2>5
       DEF IInv, Winner, CommittedSteps, StartEnds
  <2>10. Children'
    BY <1>2, <2>1, <2>2, <2>3, <2>4, <2>5
       DEF IInv, Children, SpawnedSteps, StartEnds
  <2>11. Verified'
    BY <1>2, <2>1, <2>2, <2>3, <2>4, <2>6, <2>5
       DEF IInv, Verified, StartEnds, CommittedSteps, Generations
  <2>12. Handles'
    BY <1>2, <2>1, <2>2, <2>3, <2>4, <2>5, <1>0, Named, Typing
       DEF IInv, Handles, Lost, UnheldSteps, StartEnds, CommittedSteps
  <2>13. Owned'
    BY <1>2, <2>1, <2>2, <2>3, <2>4, <2>6 DEF IInv, Owned, Handles, Lost
  <2> QED
    BY <2>7, <2>8, <2>9, <2>10, <2>11, <2>12, <2>13 DEF IInv
<1> QED
  BY <1>1, <1>2 DEF FailTransition

\* start(): the generation becomes current, or its child is closed.
LEMMA CommitCurrentKeeps ==
    ASSUME IInv, NEW p \in Procs, CommitCurrent(p) PROVE IInv'
<1>0. TypeOK
  BY DEF IInv
<1>1. CASE ~Wins(Entry(Gen(p), "starting"))
  <2>1. start[p].step = "current"
    BY <1>1 DEF CommitCurrent, Starting
  <2>2. /\ Gen(p) \in Generations /\ p \in parent[Gen(p)]
        /\ \A q \in parent[Gen(p)] : q = p
        /\ \A q \in Procs : start[q].step \in CommittedSteps /\ q # p => Gen(q) # Gen(p)
    BY <1>1, <2>1, OfParent DEF CommittedSteps
  <2>3. UNCHANGED <<record, stop, watch, parent, child, down, stops>>
    BY <1>1 DEF CommitCurrent, DropLoser
  <2>4. StartMoves(p, "drop") /\ start' \in [Procs -> Starts]
    BY <1>1, <1>0, StartMoved DEF CommitCurrent, StartSteps, DropLoser
  <2>5. HandleTo(p, 0) /\ handle' \in [Procs -> 0..MaxGeneration]
    BY <1>1, <1>0, HandleSet, LifecycleAssumption DEF CommitCurrent, DropLoser
  <2>6. Closes(Gen(p)) /\ closing' \subseteq Generations
    BY <1>1, <1>0, <2>2, ChannelClosed DEF CommitCurrent, DropLoser
  <2>7. TypeOK'
    BY <1>1, <1>0, <2>3, <2>4, <2>5, <2>6 DEF TypeOK, Starts, Stops, Watches
  <2>8. Past'
    BY <1>1, <2>1, <2>2, <2>3, <2>4 DEF IInv, Past, StartMoves
  <2>9. Winner'
    BY <1>1, <2>1, <2>2, <2>3, <2>4 DEF IInv, Winner, CommittedSteps, StartMoves
  <2>10. Children'
    BY <1>1, <2>1, <2>2, <2>3, <2>4 DEF IInv, Children, SpawnedSteps, StartMoves
  <2>11. Verified'
    BY <1>1, <2>1, <2>2, <2>3, <2>4 DEF IInv, Verified, StartMoves
  <2>12. Handles'
    BY SMTT(30), <1>1, <2>1, <2>2, <2>3, <2>5, <2>4, <2>6, Named, <1>0, Typing
       DEF IInv, Handles, Lost, UnheldSteps, StartMoves, HandleTo, Closes,
           CommittedSteps, SpawnedSteps
  <2>13. \A h \in Generations :
        child[h] = "exited" \/ h \in closing => child'[h] = "exited" \/ h \in closing'
    BY <1>1, <2>1, <2>2, <2>3, <2>6, <2>5 DEF HandleTo, Closes
  <2>14. \A q \in Procs : \/ handle'[q] = handle[q] \/ q \in down' \/ handle[q] = 0
                        \/ child'[handle[q]] = "exited" \/ handle[q] \in closing'
    BY <1>1, <1>0, Named, Typing, <2>1, <2>2, <2>3, <2>6, <2>5
       DEF IInv, Handles, Lost, UnheldSteps, HandleTo, Closes
  <2>15. Owned'
    BY <1>1, <2>13, <2>14, <2>3, OwnedStays
  <2> QED
    BY <2>7, <2>8, <2>9, <2>10, <2>11, <2>12, <2>15 DEF IInv
<1>2. CASE Wins(Entry(Gen(p), "starting"))
  <2>1. start[p].step = "current"
    BY <1>2 DEF CommitCurrent, Starting
  <2>2. /\ Gen(p) \in Generations /\ p \in parent[Gen(p)]
        /\ \A q \in parent[Gen(p)] : q = p
        /\ \A q \in Procs : start[q].step \in CommittedSteps /\ q # p => Gen(q) # Gen(p)
    BY <1>2, <2>1, OfParent DEF CommittedSteps
  <2>3. record.gen = Gen(p) /\ child[Gen(p)] # "none"
    BY <1>2, <2>1 DEF IInv, Children, SpawnedSteps, Wins, Entry
  <2>4. UNCHANGED <<handle, stop, parent, child, closing, down, stops>>
    BY <1>2 DEF CommitCurrent
  <2>5. StartEnds(p) /\ start' \in [Procs -> Starts]
    BY <1>2, <1>0, StartEnded DEF CommitCurrent
  <2>6. WatchMoves(Gen(p), "on") /\ watch' \in [Generations -> Watches]
    BY <1>2, <1>0, <2>2, WatchMoved DEF CommitCurrent, Watch, WatchSteps
  <2>7. /\ record' \in Record /\ record'.gen = Gen(p)
        /\ record'.state = "current" /\ ~record'.verified
    BY <1>2, <2>2, EntryTyped DEF CommitCurrent, Open
  <2>8. TypeOK'
    BY <1>2, <1>0, <2>4, <2>5, <2>6, <2>7 DEF TypeOK, Starts, Stops, Watches
  <2>9. Past'
    BY <1>2, <2>1, <2>2, <2>3, <2>4, <2>7, <2>5, <2>6
       DEF IInv, Past, StartEnds, WatchMoves, Generations
  <2>10. Winner'
    BY <1>2, <2>1, <2>2, <2>3, <2>4, <2>7, <2>5
       DEF IInv, Winner, CommittedSteps, StartEnds
  <2>11. Children'
    BY <1>2, <2>1, <2>2, <2>3, <2>4, <2>5, <2>6
       DEF IInv, Children, SpawnedSteps, StartEnds, WatchMoves
  <2>12. Verified'
    BY <1>2, <2>1, <2>2, <2>3, <2>4, <2>7, <2>5 DEF IInv, Verified, StartEnds
  <2>13. Handles'
    BY <1>2, <2>1, <2>2, <2>3, <2>4, <2>5, <1>0, Named, Typing
       DEF IInv, Handles, Lost, UnheldSteps, StartEnds, CommittedSteps
  <2>14. Owned'
    BY <1>2, <2>1, <2>2, <2>3, <2>4, <2>7 DEF IInv, Owned, Handles, Lost
  <2> QED
    BY <2>8, <2>9, <2>10, <2>11, <2>12, <2>13, <2>14 DEF IInv
<1> QED
  BY <1>1, <1>2 DEF CommitCurrent

\* start(): the child that lost has exited.
LEMMA DroppedKeeps ==
    ASSUME IInv, NEW p \in Procs, Dropped(p) PROVE IInv'
<1>0. TypeOK
  BY DEF IInv
<1>1. start[p].step = "drop"
  BY DEF Dropped, Starting
<1>2. UNCHANGED <<record, handle, stop, watch, parent, child, closing, down, stops>>
  BY DEF Dropped
<1>3. StartEnds(p) /\ start' \in [Procs -> Starts]
  BY <1>0, StartEnded DEF Dropped
<1>4. TypeOK'
  BY <1>0, <1>2, <1>3 DEF TypeOK, Starts, Stops, Watches
<1>5. Past'
  BY <1>1, <1>2, <1>3 DEF IInv, Past, StartEnds
<1>6. Winner'
  BY <1>1, <1>2, <1>3 DEF IInv, Winner, CommittedSteps, StartEnds
<1>7. Children'
  BY <1>1, <1>2, <1>3 DEF IInv, Children, SpawnedSteps, StartEnds
<1>8. Verified'
  BY <1>1, <1>2, <1>3 DEF IInv, Verified, StartEnds
<1>9. Handles'
  BY <1>1, <1>2, <1>3, <1>0, Named, Typing
     DEF IInv, Handles, Lost, UnheldSteps, StartEnds, CommittedSteps
<1>10. Owned'
  BY <1>2 DEF IInv, Owned, Lost
<1> QED
  BY <1>4, <1>5, <1>6, <1>7, <1>8, <1>9, <1>10 DEF IInv

\* stop(): the record of an open generation is read.
LEMMA BeginStopKeeps ==
    ASSUME IInv, NEW p \in Procs, BeginStop(p) PROVE IInv'
<1>0. TypeOK
  BY DEF IInv
<1>1. record.gen # 0
  BY DEF IInv, BeginStop, MayStop, Past, Absent
<1>2. \E step \in {"approve", "finalize"} :
        /\ stop' \in [Procs -> Stops]
        /\ \A q \in Procs : stop'[q] =
               IF q = p THEN [step |-> step, seen |-> record, verified |-> FALSE]
               ELSE stop[q]
  BY <1>0, BeginStopWrites
<1>3. \A q \in Procs : stop[q].verified \in BOOLEAN
  BY <1>0, Typing DEF Stops
<1>4. StartStays /\ UNCHANGED <<record, handle, watch, parent, child, closing, down>>
  BY DEF BeginStop, StartStays, Gen
<1>5. /\ stop' \in [Procs -> Stops]
      /\ \E step \in {"approve", "finalize"} : StopReads(p, step, record)
  BY <1>2, <1>3 DEF StopReads
<1>6. stops' \in 0..MaxStops
  BY <1>0, Typing, LifecycleAssumption DEF BeginStop
<1>7. TypeOK'
  BY <1>0, <1>4, <1>5, <1>6 DEF TypeOK, Starts, Stops, Watches, StartStays
<1>8. Past'
  BY <1>1, <1>2, <1>3, <1>4, <1>5 DEF IInv, Past, StartStays, StopReads
<1>9. Winner'
  BY <1>4 DEF IInv, Winner, CommittedSteps, StartStays
<1>10. Children'
  BY <1>1, <1>2, <1>3, <1>4, <1>5
     DEF IInv, Children, SpawnedSteps, StartStays, StopReads
<1>11. Verified'
  BY <1>4 DEF IInv, Verified, StartStays
<1>12. Handles'
  BY <1>4 DEF IInv, Handles, Lost, UnheldSteps, StartStays
<1>13. Owned'
  BY <1>4 DEF IInv, Owned, Lost, StartStays
<1> QED
  BY <1>7, <1>8, <1>9, <1>10, <1>11, <1>12, <1>13 DEF IInv

\* stop(): denied.
LEMMA StopDeniedKeeps ==
    ASSUME IInv, NEW p \in Procs, StopDenied(p) PROVE IInv'
<1>0. TypeOK
  BY DEF IInv
<1>1. StartStays /\ UNCHANGED <<record, handle, watch, parent, child, closing, down, stops>>
  BY DEF StopDenied, StartStays, Gen
<1>2. StopEnds(p) /\ stop' \in [Procs -> Stops]
  BY <1>0, StopEnded DEF StopDenied
<1>3. TypeOK'
  BY <1>0, <1>1, <1>2 DEF TypeOK, Starts, Stops, Watches, StartStays
<1>4. Past'
  BY <1>1, <1>2 DEF IInv, Past, StartStays, StopEnds
<1>5. Winner'
  BY <1>1 DEF IInv, Winner, CommittedSteps, StartStays
<1>6. Children'
  BY <1>1, <1>2 DEF IInv, Children, SpawnedSteps, StartStays, StopEnds
<1>7. Verified'
  BY <1>1 DEF IInv, Verified, StartStays
<1>8. Handles'
  BY <1>1 DEF IInv, Handles, Lost, UnheldSteps, StartStays
<1>9. Owned'
  BY <1>1 DEF IInv, Owned, Lost, StartStays
<1> QED
  BY <1>3, <1>4, <1>5, <1>6, <1>7, <1>8, <1>9 DEF IInv

\* stop(): the generation is stopping, or the record is read again.
LEMMA CommitStoppingKeeps ==
    ASSUME IInv, NEW p \in Procs, CommitStopping(p) PROVE IInv'
<1>0. TypeOK
  BY DEF IInv
<1>1. CASE ~Wins(stop[p].seen)
  <2>1. stop[p].step = "approve"
    BY <1>1 DEF CommitStopping, Stopping
  <2>2. StartStays /\ UNCHANGED <<record, handle, watch, parent, child, closing, down, stops>>
    BY <1>1 DEF CommitStopping, StartStays, Gen
  <2>3. StopMoves(p, "retry") /\ stop' \in [Procs -> Stops]
    BY <1>1, <1>0, StopMoved DEF CommitStopping, StopSteps
  <2>4. TypeOK'
    BY <1>1, <1>0, <2>2, <2>3 DEF TypeOK, Starts, Stops, Watches, StartStays
  <2>5. Past'
    BY <1>1, <2>1, <2>2, <2>3 DEF IInv, Past, StartStays, StopMoves
  <2>6. Winner'
    BY <1>1, <2>2 DEF IInv, Winner, CommittedSteps, StartStays
  <2>7. Children'
    BY <1>1, <2>1, <2>2, <2>3
       DEF IInv, Children, SpawnedSteps, StartStays, StopMoves
  <2>8. Verified'
    BY <1>1, <2>2 DEF IInv, Verified, StartStays
  <2>9. Handles'
    BY <1>1, <2>2 DEF IInv, Handles, Lost, UnheldSteps, StartStays
  <2>10. Owned'
    BY <1>1, <2>2 DEF IInv, Owned, Lost, StartStays
  <2> QED
    BY <2>4, <2>5, <2>6, <2>7, <2>8, <2>9, <2>10 DEF IInv
<1>2. CASE Wins(stop[p].seen)
  <2>1. stop[p].step = "approve"
    BY <1>2 DEF CommitStopping, Stopping
  <2>2. record.gen # 0 /\ record.gen \in Generations /\ ~stop[p].verified
    BY <1>2, <1>0, <2>1, Numbers, LifecycleAssumption
       DEF IInv, Past, Children, Wins, Generations
  <2>3. StartStays /\ UNCHANGED <<handle, watch, parent, child, closing, down, stops>>
    BY <1>2 DEF CommitStopping, StartStays, Gen
  <2>4. /\ record' \in Record /\ record'.gen = record.gen
        /\ record'.state = "stopping" /\ ~record'.verified
    BY <1>2, <2>2, EntryTyped DEF CommitStopping, Open
  <2>5. StopReads(p, "finalize", record') /\ stop' \in [Procs -> Stops]
    BY <1>2, <1>0, <2>2, <2>4, StopRead DEF CommitStopping
  <2>6. TypeOK'
    BY <1>2, <1>0, <2>3, <2>4, <2>5 DEF TypeOK, Starts, Stops, Watches, StartStays
  <2>7. Past'
    BY <1>2, <2>1, <2>2, <2>3, <2>4, <2>5 DEF IInv, Past, StartStays, StopReads
  <2>8. Winner'
    BY <1>2, <2>1, <2>2, <2>3, <2>4 DEF IInv, Winner, CommittedSteps, StartStays
  <2>9. Children'
    BY <1>2, <2>1, <2>2, <2>3, <2>5
       DEF IInv, Children, SpawnedSteps, StartStays, StopReads
  <2>10. Verified'
    BY <1>2, <2>1, <2>2, <2>3, <2>4 DEF IInv, Verified, StartStays
  <2>11. Handles'
    BY <1>2, <2>3 DEF IInv, Handles, Lost, UnheldSteps, StartStays
  <2>12. Owned'
    BY <1>2, <2>1, <2>2, <2>3, <2>4 DEF IInv, Owned, Handles, Lost
  <2> QED
    BY <2>6, <2>7, <2>8, <2>9, <2>10, <2>11, <2>12 DEF IInv
<1> QED
  BY <1>1, <1>2 DEF CommitStopping

\* stop(): another stop was first, or it is over.
LEMMA RetryStopKeeps ==
    ASSUME IInv, NEW p \in Procs, RetryStop(p) PROVE IInv'
<1>0. TypeOK
  BY DEF IInv
<1>1. CASE record.state # "stopping"
  <2>1. StartStays /\ UNCHANGED <<record, handle, watch, parent, child, closing, down, stops>>
    BY <1>1 DEF RetryStop, StartStays, Gen
  <2>2. StopEnds(p) /\ stop' \in [Procs -> Stops]
    BY <1>1, <1>0, StopEnded DEF RetryStop
  <2>3. TypeOK'
    BY <1>1, <1>0, <2>1, <2>2 DEF TypeOK, Starts, Stops, Watches, StartStays
  <2>4. Past'
    BY <1>1, <2>1, <2>2 DEF IInv, Past, StartStays, StopEnds
  <2>5. Winner'
    BY <1>1, <2>1 DEF IInv, Winner, CommittedSteps, StartStays
  <2>6. Children'
    BY <1>1, <2>1, <2>2 DEF IInv, Children, SpawnedSteps, StartStays, StopEnds
  <2>7. Verified'
    BY <1>1, <2>1 DEF IInv, Verified, StartStays
  <2>8. Handles'
    BY <1>1, <2>1 DEF IInv, Handles, Lost, UnheldSteps, StartStays
  <2>9. Owned'
    BY <1>1, <2>1 DEF IInv, Owned, Lost, StartStays
  <2> QED
    BY <2>3, <2>4, <2>5, <2>6, <2>7, <2>8, <2>9 DEF IInv
<1>2. CASE record.state = "stopping"
  <2>1. stop[p].step = "retry"
    BY <1>2 DEF RetryStop, Stopping
  <2>2. record.gen # 0 /\ ~stop[p].verified
    BY <1>2, <2>1 DEF IInv, Past, Absent, Children
  <2>3. StartStays /\ UNCHANGED <<record, handle, watch, parent, child, closing, down, stops>>
    BY <1>2 DEF RetryStop, StartStays, Gen
  <2>4. StopReads(p, "finalize", record) /\ stop' \in [Procs -> Stops]
    BY <1>2, <1>0, <2>2, StopRead, Typing DEF RetryStop
  <2>5. TypeOK'
    BY <1>2, <1>0, <2>3, <2>4 DEF TypeOK, Starts, Stops, Watches, StartStays
  <2>6. Past'
    BY <1>2, <2>1, <2>2, <2>3, <2>4 DEF IInv, Past, StartStays, StopReads
  <2>7. Winner'
    BY <1>2, <2>3 DEF IInv, Winner, CommittedSteps, StartStays
  <2>8. Children'
    BY <1>2, <2>1, <2>2, <2>3, <2>4
       DEF IInv, Children, SpawnedSteps, StartStays, StopReads
  <2>9. Verified'
    BY <1>2, <2>3 DEF IInv, Verified, StartStays
  <2>10. Handles'
    BY <1>2, <2>3 DEF IInv, Handles, Lost, UnheldSteps, StartStays
  <2>11. Owned'
    BY <1>2, <2>3 DEF IInv, Owned, Lost, StartStays
  <2> QED
    BY <2>5, <2>6, <2>7, <2>8, <2>9, <2>10, <2>11 DEF IInv
<1> QED
  BY <1>1, <1>2 DEF RetryStop

\* finalizeStop(): the owner lets the handle go and closes the child.
LEMMA FinalizeKeeps ==
    ASSUME IInv, NEW p \in Procs, Finalize(p) PROVE IInv'
<1>0. TypeOK
  BY DEF IInv
<1>1. CASE handle[p] # stop[p].seen.gen
  <2>1. stop[p].step = "finalize"
    BY <1>1 DEF Finalize, Stopping
  <2>2. ~stop[p].verified
    BY <1>1, <2>1 DEF IInv, Children
  <2>3. StartStays /\ UNCHANGED <<record, handle, watch, parent, child, closing, down, stops>>
    BY <1>1 DEF Finalize, StartStays, Gen
  <2>4. StopMoves(p, "end") /\ stop' \in [Procs -> Stops]
    BY <1>1, <1>0, StopMoved DEF Finalize, StopSteps
  <2>5. TypeOK'
    BY <1>1, <1>0, <2>3, <2>4 DEF TypeOK, Starts, Stops, Watches, StartStays
  <2>6. Past'
    BY <1>1, <2>1, <2>2, <2>3, <2>4 DEF IInv, Past, StartStays, StopMoves
  <2>7. Winner'
    BY <1>1, <2>3 DEF IInv, Winner, CommittedSteps, StartStays
  <2>8. Children'
    BY <1>1, <2>1, <2>2, <2>3, <2>4
       DEF IInv, Children, SpawnedSteps, StartStays, StopMoves
  <2>9. Verified'
    BY <1>1, <2>3 DEF IInv, Verified, StartStays
  <2>10. Handles'
    BY <1>1, <2>3 DEF IInv, Handles, Lost, UnheldSteps, StartStays
  <2>11. Owned'
    BY <1>1, <2>3 DEF IInv, Owned, Lost, StartStays
  <2> QED
    BY <2>5, <2>6, <2>7, <2>8, <2>9, <2>10, <2>11 DEF IInv
<1>2. CASE handle[p] = stop[p].seen.gen
  <2>1. stop[p].step = "finalize"
    BY <1>2 DEF Finalize, Stopping
  <2>2. handle[p] # 0 /\ handle[p] \in Generations /\ ~stop[p].verified
    BY <1>2, <1>0, <2>1, Typing, LifecycleAssumption
       DEF IInv, Past, Children, Generations
  <2>3. StartStays /\ UNCHANGED <<record, watch, parent, child, down, stops>>
    BY <1>2 DEF Finalize, StartStays, Gen
  <2>4. StopMoves(p, "close") /\ stop' \in [Procs -> Stops]
    BY <1>2, <1>0, StopMoved DEF Finalize, StopSteps
  <2>5. HandleTo(p, 0) /\ handle' \in [Procs -> 0..MaxGeneration]
    BY <1>2, <1>0, HandleSet, LifecycleAssumption DEF Finalize
  <2>6. Closes(handle[p]) /\ closing' \subseteq Generations
    BY <1>2, <1>0, <2>2, ChannelClosed DEF Finalize
  <2>7. TypeOK'
    BY <1>2, <1>0, <2>3, <2>4, <2>5, <2>6
       DEF TypeOK, Starts, Stops, Watches, StartStays
  <2>8. Past'
    BY <1>2, <2>1, <2>2, <2>3, <2>4 DEF IInv, Past, StartStays, StopMoves
  <2>9. Winner'
    BY <1>2, <2>3 DEF IInv, Winner, CommittedSteps, StartStays
  <2>10. Children'
    BY <1>2, <2>1, <2>2, <2>3, <2>4
       DEF IInv, Children, SpawnedSteps, StartStays, StopMoves
  <2>11. Verified'
    BY <1>2, <2>3 DEF IInv, Verified, StartStays
  <2>12. Handles'
    BY <1>2, <2>1, <2>2, <2>3, <2>5, <2>6, <1>0, Typing
       DEF IInv, Handles, Lost, UnheldSteps, StartStays, HandleTo, Closes,
           CommittedSteps
  <2>13. \A h \in Generations :
        child[h] = "exited" \/ h \in closing => child'[h] = "exited" \/ h \in closing'
    BY <1>2, <2>1, <2>2, <2>3, <2>6, <2>5 DEF HandleTo, Closes
  <2>14. \A q \in Procs : \/ handle'[q] = handle[q] \/ q \in down' \/ handle[q] = 0
                        \/ child'[handle[q]] = "exited" \/ handle[q] \in closing'
    BY <1>2, <1>0, Named, Typing, <2>1, <2>2, <2>3, <2>6, <2>5
       DEF IInv, Handles, Lost, UnheldSteps, HandleTo, Closes
  <2>15. Owned'
    BY <1>2, <2>13, <2>14, <2>3, OwnedStays
  <2> QED
    BY <2>7, <2>8, <2>9, <2>10, <2>11, <2>12, <2>15 DEF IInv
<1> QED
  BY <1>1, <1>2 DEF Finalize

\* finalizeStop(): the exit has been seen.
LEMMA ClosedKeeps ==
    ASSUME IInv, NEW p \in Procs, Closed(p) PROVE IInv'
<1>0. TypeOK
  BY DEF IInv
<1>1. stop[p].step = "close" /\ child[stop[p].seen.gen] = "exited"
  BY DEF Closed, Stopping, CloseSeen
<1>2. StartStays /\ UNCHANGED <<record, handle, watch, parent, child, closing, down, stops>>
  BY DEF Closed, StartStays, Gen
<1>3. /\ stop' \in [Procs -> Stops]
      /\ \A q \in Procs : /\ stop'[q].step = IF q = p THEN "end" ELSE stop[q].step
                          /\ stop'[q].seen = stop[q].seen
                          /\ q # p => stop'[q].verified = stop[q].verified
  BY <1>0, StopVerified DEF Closed
<1>4. TypeOK'
  BY <1>0, <1>2, <1>3 DEF TypeOK, Starts, Stops, Watches, StartStays
<1>5. Past'
  BY <1>1, <1>2, <1>3 DEF IInv, Past, StartStays
<1>6. Winner'
  BY <1>2 DEF IInv, Winner, CommittedSteps, StartStays
<1>7. Children'
  BY <1>1, <1>2, <1>3 DEF IInv, Children, SpawnedSteps, StartStays
<1>8. Verified'
  BY <1>2 DEF IInv, Verified, StartStays
<1>9. Handles'
  BY <1>2 DEF IInv, Handles, Lost, UnheldSteps, StartStays
<1>10. Owned'
  BY <1>2 DEF IInv, Owned, Lost, StartStays
<1> QED
  BY <1>4, <1>5, <1>6, <1>7, <1>8, <1>9, <1>10 DEF IInv

\* finalizeStop(): the terminal is written over the record as read.
LEMMA CommitStoppedKeeps ==
    ASSUME IInv, NEW p \in Procs, CommitStopped(p) PROVE IInv'
<1>0. TypeOK
  BY DEF IInv
<1>1. CASE ~Wins(stop[p].seen)
  <2>1. StartStays /\ UNCHANGED <<record, handle, watch, parent, child, closing, down, stops>>
    BY <1>1 DEF CommitStopped, StartStays, Gen
  <2>2. StopEnds(p) /\ stop' \in [Procs -> Stops]
    BY <1>1, <1>0, StopEnded DEF CommitStopped
  <2>3. TypeOK'
    BY <1>1, <1>0, <2>1, <2>2 DEF TypeOK, Starts, Stops, Watches, StartStays
  <2>4. Past'
    BY <1>1, <2>1, <2>2 DEF IInv, Past, StartStays, StopEnds
  <2>5. Winner'
    BY <1>1, <2>1 DEF IInv, Winner, CommittedSteps, StartStays
  <2>6. Children'
    BY <1>1, <2>1, <2>2 DEF IInv, Children, SpawnedSteps, StartStays, StopEnds
  <2>7. Verified'
    BY <1>1, <2>1 DEF IInv, Verified, StartStays
  <2>8. Handles'
    BY <1>1, <2>1 DEF IInv, Handles, Lost, UnheldSteps, StartStays
  <2>9. Owned'
    BY <1>1, <2>1 DEF IInv, Owned, Lost, StartStays
  <2> QED
    BY <2>3, <2>4, <2>5, <2>6, <2>7, <2>8, <2>9 DEF IInv
<1>2. CASE Wins(stop[p].seen)
  <2>1. stop[p].step = "end"
    BY <1>2 DEF CommitStopped, Stopping
  <2>2. /\ record.gen # 0 /\ record.gen \in Generations /\ stop[p].seen = record
        /\ stop[p].verified \in BOOLEAN
    BY <1>2, <1>0, <2>1, Numbers, Typing, LifecycleAssumption
       DEF IInv, Past, Wins, Stops, Generations
  <2>3. stop[p].verified => child[record.gen] = "exited"
    BY <1>2, <2>2 DEF IInv, Children
  <2>4. StartStays /\ UNCHANGED <<handle, watch, parent, child, closing, down, stops>>
    BY <1>2 DEF CommitStopped, StartStays, Gen
  <2>5. StopEnds(p) /\ stop' \in [Procs -> Stops]
    BY <1>2, <1>0, StopEnded DEF CommitStopped
  <2>6. /\ record' \in Record /\ record'.gen = record.gen
        /\ record'.state = "stopped" /\ record'.verified = stop[p].verified
    BY <1>2, <2>2, EndedTyped DEF CommitStopped, Terminal
  <2>7. TypeOK'
    BY <1>2, <1>0, <2>4, <2>5, <2>6 DEF TypeOK, Starts, Stops, Watches, StartStays
  <2>8. Past'
    BY <1>2, <2>1, <2>2, <2>3, <2>4, <2>6, <2>5 DEF IInv, Past, StartStays, StopEnds
  <2>9. Winner'
    BY <1>2, <2>1, <2>2, <2>3, <2>4, <2>6
       DEF IInv, Winner, CommittedSteps, StartStays
  <2>10. Children'
    BY <1>2, <2>1, <2>2, <2>3, <2>4, <2>5
       DEF IInv, Children, SpawnedSteps, StartStays, StopEnds
  <2>11. Verified'
    BY <1>2, <2>1, <2>2, <2>3, <2>4, <2>6 DEF IInv, Verified, StartStays
  <2>12. Handles'
    BY <1>2, <2>4 DEF IInv, Handles, Lost, UnheldSteps, StartStays
  <2>13. Owned'
    BY <1>2, <2>1, <2>2, <2>3, <2>4, <2>6 DEF IInv, Owned, Handles, Lost
  <2> QED
    BY <2>7, <2>8, <2>9, <2>10, <2>11, <2>12, <2>13 DEF IInv
<1> QED
  BY <1>1, <1>2 DEF CommitStopped

\* A process goes down with its handlers and handles.
LEMMA CrashKeeps ==
    ASSUME IInv, NEW p \in Procs, Crash(p) PROVE IInv'
<1>0. TypeOK
  BY DEF IInv
<1>1. UNCHANGED <<record, parent, child, closing, stops>>
  BY DEF Crash
<1>2. StartEnds(p) /\ start' \in [Procs -> Starts]
  BY <1>0, StartEnded DEF Crash
<1>3. StopEnds(p) /\ stop' \in [Procs -> Stops]
  BY <1>0, StopEnded DEF Crash
<1>4. HandleTo(p, 0) /\ handle' \in [Procs -> 0..MaxGeneration]
  BY <1>0, HandleSet, LifecycleAssumption DEF Crash
<1>5. down' \subseteq Procs /\ p \in down' /\ \A q \in down : q \in down'
  BY <1>0, Typing DEF Crash
<1>6. /\ watch' \in [Generations -> Watches]
      /\ \A g \in Generations : watch'[g] = watch[g] \/ watch'[g].step = "off"
  BY <1>0, Typing, UnwatchedTyped DEF Crash
<1>7. TypeOK'
  BY <1>0, <1>1, <1>2, <1>3, <1>4, <1>5, <1>6 DEF TypeOK, Starts, Stops, Watches
<1>8. Past'
  BY <1>1, <1>2, <1>3, <1>6 DEF IInv, Past, StartEnds, StopEnds
<1>9. Winner'
  BY <1>1, <1>2 DEF IInv, Winner, CommittedSteps, StartEnds
<1>10. Children'
  BY <1>1, <1>2, <1>3, <1>6 DEF IInv, Children, SpawnedSteps, StartEnds, StopEnds
<1>11. Verified'
  BY <1>1, <1>2 DEF IInv, Verified, StartEnds
<1>12. Handles'
  BY <1>1, <1>4, <1>2, <1>0, Named, Typing
     DEF IInv, Handles, Lost, UnheldSteps, StartEnds, HandleTo, CommittedSteps
<1>13. \A h \in Generations :
        child[h] = "exited" \/ h \in closing => child'[h] = "exited" \/ h \in closing'
  BY <1>1, <1>4, <1>5 DEF HandleTo
<1>14. \A q \in Procs : \/ handle'[q] = handle[q] \/ q \in down' \/ handle[q] = 0
                        \/ child'[handle[q]] = "exited" \/ handle[q] \in closing'
  BY <1>0, Named, Typing, <1>1, <1>4, <1>5
     DEF IInv, Handles, Lost, UnheldSteps, HandleTo
<1>15. Owned'
  BY <1>13, <1>14, <1>1, <1>5, OwnedStays
<1> QED
  BY <1>7, <1>8, <1>9, <1>10, <1>11, <1>12, <1>15 DEF IInv

\* reconcile(): an unverified terminal, whether the parent of the generation lives or not.
LEMMA ReconcileKeeps ==
    ASSUME IInv, NEW p \in Procs, Reconcile(p) PROVE IInv'
<1>0. TypeOK
  BY DEF IInv
<1>1. record.gen # 0 /\ record.gen \in Generations
  BY <1>0, Numbers, LifecycleAssumption
     DEF IInv, Reconcile, Past, Absent, Open, Generations
<1>2. StartStays /\ UNCHANGED <<handle, stop, watch, parent, child, closing, down, stops>>
  BY DEF Reconcile, StartStays, Gen
<1>3. /\ record' \in Record /\ record'.gen = record.gen
      /\ record'.state \in {"stopped", "abandoned"} /\ ~record'.verified
  BY <1>1, EndedTyped DEF Reconcile, Terminal
<1>4. TypeOK'
  BY <1>0, <1>2, <1>3 DEF TypeOK, Starts, Stops, Watches, StartStays
<1>5. Past'
  BY <1>1, <1>2, <1>3 DEF IInv, Past, StartStays
<1>6. Winner'
  BY <1>1, <1>2, <1>3 DEF IInv, Winner, CommittedSteps, StartStays
<1>7. Children'
  BY <1>2 DEF IInv, Children, SpawnedSteps, StartStays
<1>8. Verified'
  BY <1>1, <1>2, <1>3 DEF IInv, Verified, StartStays
<1>9. Handles'
  BY <1>2 DEF IInv, Handles, Lost, UnheldSteps, StartStays
<1>10. Owned'
  BY <1>1, <1>2, <1>3 DEF IInv, Owned, Handles, Lost
<1> QED
  BY <1>4, <1>5, <1>6, <1>7, <1>8, <1>9, <1>10 DEF IInv

\* observeClosed(): the child has gone.
LEMMA ObserveKeeps ==
    ASSUME IInv, NEW g \in Generations, Observe(g) PROVE IInv'
<1>0. TypeOK
  BY DEF IInv
<1>1. child[g] = "exited"
  BY DEF Observe
<1>2. [step |-> "commit", seen |-> record] \in Watches
  BY <1>0, Typing DEF Watches, WatchSteps
<1>3. StartStays /\ UNCHANGED <<record, handle, stop, parent, child, closing, down, stops>>
  BY DEF Observe, StartStays, Gen
<1>4. /\ watch' \in [Generations -> Watches]
      /\ \A h \in Generations : \/ watch'[h] = watch[h] /\ h # g
                                \/ watch'[h].step = "off"
                                \/ h = g /\ watch'[h].seen = record /\ record.gen = g
  BY <1>0, <1>2, Typing, UnwatchedTyped DEF Observe
<1>5. TypeOK'
  BY <1>0, <1>3, <1>4 DEF TypeOK, Starts, Stops, Watches, StartStays
<1>6. Past'
  BY <1>1, <1>2, <1>3, <1>4 DEF IInv, Past, StartStays
<1>7. Winner'
  BY <1>3 DEF IInv, Winner, CommittedSteps, StartStays
<1>8. Children'
  BY <1>1, <1>2, <1>3, <1>4 DEF IInv, Children, SpawnedSteps, StartStays
<1>9. Verified'
  BY <1>3 DEF IInv, Verified, StartStays
<1>10. Handles'
  BY <1>3 DEF IInv, Handles, Lost, UnheldSteps, StartStays
<1>11. Owned'
  BY <1>3 DEF IInv, Owned, Lost, StartStays
<1> QED
  BY <1>5, <1>6, <1>7, <1>8, <1>9, <1>10, <1>11 DEF IInv

\* event(): the terminal is written over the record as read.
LEMMA EventCommitKeeps ==
    ASSUME IInv, NEW g \in Generations, EventCommit(g) PROVE IInv'
<1>0. TypeOK
  BY DEF IInv
<1>1. CASE ~Wins(watch[g].seen)
  <2>1. StartStays /\ UNCHANGED <<record, handle, stop, parent, child, closing, down, stops>>
    BY <1>1 DEF EventCommit, StartStays, Gen
  <2>2. WatchEnds(g) /\ watch' \in [Generations -> Watches]
    BY <1>1, <1>0, WatchEnded DEF EventCommit, Unwatch
  <2>3. TypeOK'
    BY <1>1, <1>0, <2>1, <2>2 DEF TypeOK, Starts, Stops, Watches, StartStays
  <2>4. Past'
    BY <1>1, <2>1, <2>2 DEF IInv, Past, StartStays, WatchEnds
  <2>5. Winner'
    BY <1>1, <2>1 DEF IInv, Winner, CommittedSteps, StartStays
  <2>6. Children'
    BY <1>1, <2>1, <2>2 DEF IInv, Children, SpawnedSteps, StartStays, WatchEnds
  <2>7. Verified'
    BY <1>1, <2>1 DEF IInv, Verified, StartStays
  <2>8. Handles'
    BY <1>1, <2>1 DEF IInv, Handles, Lost, UnheldSteps, StartStays
  <2>9. Owned'
    BY <1>1, <2>1 DEF IInv, Owned, Lost, StartStays
  <2> QED
    BY <2>3, <2>4, <2>5, <2>6, <2>7, <2>8, <2>9 DEF IInv
<1>2. CASE Wins(watch[g].seen)
  <2>1. record.gen = g /\ g # 0 /\ child[g] = "exited"
    BY <1>2, LifecycleAssumption
       DEF IInv, EventCommit, Wins, Past, Children, Generations
  <2>2. StartStays /\ UNCHANGED <<handle, stop, parent, child, closing, down, stops>>
    BY <1>2 DEF EventCommit, StartStays, Gen
  <2>3. WatchMoves(g, "clean") /\ watch' \in [Generations -> Watches]
    BY <1>2, <1>0, WatchMoved DEF EventCommit, WatchSteps
  <2>4. /\ record' \in Record /\ record'.gen = g
        /\ record'.state \in {"stopped", "failed"}
    BY <1>2, <1>0, EventWrites
  <2>5. TypeOK'
    BY <1>2, <1>0, <2>2, <2>3, <2>4 DEF TypeOK, Starts, Stops, Watches, StartStays
  <2>6. Past'
    BY <1>2, <2>1, <2>2, <2>4, <2>3 DEF IInv, Past, StartStays, WatchMoves
  <2>7. Winner'
    BY <1>2, <2>1, <2>2, <2>4 DEF IInv, Winner, CommittedSteps, StartStays
  <2>8. Children'
    BY <1>2, <2>1, <2>2, <2>3
       DEF IInv, Children, SpawnedSteps, StartStays, WatchMoves
  <2>9. Verified'
    BY <1>2, <2>1, <2>2, <2>4 DEF IInv, Verified, StartStays
  <2>10. Handles'
    BY <1>2, <2>2 DEF IInv, Handles, Lost, UnheldSteps, StartStays
  <2>11. Owned'
    BY <1>2, <2>1, <2>2, <2>4 DEF IInv, Owned, Handles, Lost
  <2> QED
    BY <2>5, <2>6, <2>7, <2>8, <2>9, <2>10, <2>11 DEF IInv
<1> QED
  BY <1>1, <1>2 DEF EventCommit

\* event(): the handle is dropped if it is still the child's.
LEMMA EventCleanKeeps ==
    ASSUME IInv, NEW g \in Generations, EventClean(g) PROVE IInv'
<1>0. TypeOK
  BY DEF IInv
<1>1. watch[g].step = "clean" /\ child[g] = "exited"
  BY DEF IInv, EventClean, Children
<1>2. StartStays /\ UNCHANGED <<record, stop, parent, child, closing, down, stops>>
  BY DEF EventClean, StartStays, Gen
<1>3. WatchEnds(g) /\ watch' \in [Generations -> Watches]
  BY <1>0, WatchEnded DEF EventClean, Unwatch
<1>4. /\ handle' \in [Procs -> 0..MaxGeneration]
      /\ \A p \in Procs : handle'[p] = handle[p] \/ (handle[p] = g /\ handle'[p] = 0)
  BY <1>0, Typing, LifecycleAssumption DEF EventClean, Drops
<1>5. TypeOK'
  BY <1>0, <1>2, <1>3, <1>4 DEF TypeOK, Starts, Stops, Watches, StartStays
<1>6. Past'
  BY <1>1, <1>2, <1>3 DEF IInv, Past, StartStays, WatchEnds
<1>7. Winner'
  BY <1>2 DEF IInv, Winner, CommittedSteps, StartStays
<1>8. Children'
  BY <1>1, <1>2, <1>3 DEF IInv, Children, SpawnedSteps, StartStays, WatchEnds
<1>9. Verified'
  BY <1>2 DEF IInv, Verified, StartStays
<1>10. Handles'
  BY <1>1, <1>2, <1>4, <1>0, Named, Typing
     DEF IInv, Handles, Lost, UnheldSteps, StartStays, CommittedSteps
<1>11. \A h \in Generations :
        child[h] = "exited" \/ h \in closing => child'[h] = "exited" \/ h \in closing'
  BY <1>1, <1>2, <1>4
<1>12. \A q \in Procs : \/ handle'[q] = handle[q] \/ q \in down' \/ handle[q] = 0
                        \/ child'[handle[q]] = "exited" \/ handle[q] \in closing'
  BY <1>0, Named, Typing, <1>1, <1>2, <1>4 DEF IInv, Handles, Lost, UnheldSteps
<1>13. Owned'
  BY <1>11, <1>12, <1>2, OwnedStays
<1> QED
  BY <1>5, <1>6, <1>7, <1>8, <1>9, <1>10, <1>13 DEF IInv

\* A child exits.
LEMMA ChildExitsKeeps ==
    ASSUME IInv, NEW g \in Generations, ChildExits(g) PROVE IInv'
<1>0. TypeOK
  BY DEF IInv
<1>1. child[g] \in Alive
  BY DEF ChildExits
<1>2. child[g] # "none"
  BY <1>1 DEF Alive
<1>3. StartStays /\ UNCHANGED <<record, handle, stop, watch, parent, down, stops>>
  BY DEF ChildExits, StartStays, Gen
<1>4. ChildTo(g, "exited") /\ child' \in [Generations -> Alive \cup {"none", "exited"}]
  BY <1>0, ChildSet DEF ChildExits
<1>5. /\ closing' \subseteq Generations
      /\ \A h \in closing : h # g => h \in closing'
  BY <1>0, Typing DEF ChildExits
<1>6. TypeOK'
  BY <1>0, <1>3, <1>4, <1>5 DEF TypeOK, Starts, Stops, Watches, StartStays
<1>7. Past'
  BY <1>3 DEF IInv, Past, StartStays
<1>8. Winner'
  BY <1>1, <1>2, <1>3, <1>4, Named
     DEF IInv, Winner, CommittedSteps, StartStays, ChildTo
<1>9. Children'
  BY <1>1, <1>2, <1>3, <1>4, Named
     DEF IInv, Children, SpawnedSteps, StartStays, ChildTo, CommittedSteps
<1>10. Verified'
  BY <1>1, <1>2, <1>3, <1>4, Named
     DEF IInv, Verified, StartStays, ChildTo, CommittedSteps
<1>11. Handles'
  BY <1>1, <1>2, <1>3, <1>4, <1>5, Named
     DEF IInv, Handles, Lost, UnheldSteps, StartStays, ChildTo, CommittedSteps
<1>12. \A h \in Generations :
        child[h] = "exited" \/ h \in closing => child'[h] = "exited" \/ h \in closing'
  BY <1>1, <1>2, <1>3, <1>4, <1>5 DEF ChildTo
<1>13. \A q \in Procs : \/ handle'[q] = handle[q] \/ q \in down' \/ handle[q] = 0
                        \/ child'[handle[q]] = "exited" \/ handle[q] \in closing'
  BY <1>0, Named, Typing, <1>1, <1>2, <1>3, <1>4, <1>5
     DEF IInv, Handles, Lost, UnheldSteps, ChildTo
<1>14. Owned'
  BY <1>12, <1>13, <1>3, OwnedStays
<1> QED
  BY <1>6, <1>7, <1>8, <1>9, <1>10, <1>11, <1>14 DEF IInv

-----------------------------------------------------------------------------
\* Every step keeps the invariant.
LEMMA InvariantStep == IInv /\ [Next]_vars => IInv'
<1> SUFFICES ASSUME IInv, [Next]_vars PROVE IInv'
  OBVIOUS
<1>1. ASSUME NEW p \in Procs, BeginStart(p) \/ StartStep(p) PROVE IInv'
  BY <1>1, BeginStartKeeps, CloseSupersededKeeps, SupersededKeeps,
     PrepareFailsKeeps,
     CommitStartingKeeps, SpawnKeeps, AcceptedKeeps, ReadyKeeps, FailTransitionKeeps,
     CommitCurrentKeeps, DroppedKeeps DEF StartStep
<1>2. ASSUME NEW p \in Procs, BeginStop(p) \/ StopStep(p) PROVE IInv'
  BY <1>2, BeginStopKeeps, StopDeniedKeeps, CommitStoppingKeeps, RetryStopKeeps,
     FinalizeKeeps, ClosedKeeps, CommitStoppedKeeps DEF StopStep
<1>3. ASSUME NEW p \in Procs, Crash(p) \/ Reconcile(p) PROVE IInv'
  BY <1>3, CrashKeeps, ReconcileKeeps
<1>4. ASSUME NEW g \in Generations, EventStep(g) \/ ChildExits(g) PROVE IInv'
  BY <1>4, ObserveKeeps, EventCommitKeeps, EventCleanKeeps, ChildExitsKeeps
     DEF EventStep
<1>5. CASE UNCHANGED vars
  BY <1>5
     DEF vars, IInv, TypeOK, Past, Winner, Children, Verified, Handles, Owned, Lost,
         Gen
<1> QED
  BY <1>1, <1>2, <1>3, <1>4, <1>5 DEF Next

\* No server has a record, a handler or a child at first.
LEMMA InvariantInit == Init => IInv
<1> USE LifecycleAssumption DEF Init, Absent, NoStart, NoStop, Unwatched
<1>1. Init => TypeOK
  BY DEF TypeOK, Record, Generations, StartSteps, StopSteps, WatchSteps
<1>2. Init => Past /\ Winner /\ Children /\ Verified /\ Handles /\ Owned
  BY DEF Past, Winner, Children, Verified, Handles, Owned, CommittedSteps,
     SpawnedSteps, UnheldSteps
<1> QED
  BY <1>1, <1>2 DEF IInv

\* The invariant holds in every reachable state.
LEMMA InvariantHolds == Spec => []IInv
BY InvariantInit, InvariantStep, PTL DEF Spec

\* The record always parses and names a generation that exists, whatever
\* raced (parseManagedLifecycleRecord, compareAndSwap).
THEOREM TypeCorrect == Spec => []TypeOK
<1>1. IInv => TypeOK
  BY DEF IInv
<1> QED
  BY <1>1, InvariantHolds, PTL

\* A terminal that says the parent has seen the child go is true of the child.
THEOREM VerifiedMeansExitedHolds == Spec => []VerifiedMeansExited
<1>1. IInv => VerifiedMeansExited
  BY DEF IInv, Verified, VerifiedMeansExited
<1> QED
  BY <1>1, InvariantHolds, PTL

\* A current child that nobody has closed can be stopped by its parent.
THEOREM CurrentIsOwnedHolds == Spec => []CurrentIsOwned
<1>1. IInv => CurrentIsOwned
  BY DEF IInv, Owned, Lost, CurrentIsOwned, Owns, Up, Alive
<1> QED
  BY <1>1, InvariantHolds, PTL

\* Of all starts that race for a generation one commits it, and only that one
\* brings up a child.
THEOREM SingleWinnerHolds == Spec => []SingleWinner
<1>1. ASSUME IInv, NEW g \in Generations PROVE Cardinality(parent[g]) <= 1
  <2>1. \A p, q \in parent[g] : p = q
    BY <1>1 DEF IInv, Winner
  <2>2. parent[g] = {} \/ \E p : parent[g] = {p}
    BY <2>1
  <2> QED
    BY <2>2, FS_EmptySet, FS_Singleton
<1>2. IInv => SingleWinner
  BY <1>1 DEF IInv, Winner, SingleWinner
<1> QED
  BY <1>2, InvariantHolds, PTL

-----------------------------------------------------------------------------
(***************************************************************************)
(* ManagedRecovery                                                         *)
(***************************************************************************)

\* No launch yet exactly when the map has no entry.
Begun == launch.n = 0 <=> launch.step = "none"

\* The types of RecoveryTypeOK, named.
Launch == [n : 0..MaxLaunches, step : LaunchSteps, spawned : BOOLEAN, closing : BOOLEAN,
           stopReq : BOOLEAN, attempt : 0..MaxAttempts, epoch : Nat]
Slot == [step : SlotSteps, attempt : 0..MaxAttempts, epoch : Nat, launch : 0..MaxLaunches]
StopCall == [step : {"idle", "wait", "project", "returned"}, on : 0..MaxLaunches]
StartCall == [step : {"idle", "preflight", "mark", "call", "await", "endpoint", "cancelled",
                      "failed"},
              launch : 0..MaxLaunches, aborted : BOOLEAN]
Restart == [by : 0..MaxSlots, aborted : BOOLEAN]
Statuses == {"none", "starting", "running", "stopped", "error"}
Tasks == {"none", "pending", "up", "failed"}

\* RecoveryTypeOK in terms of these names.
Typed ==
    /\ row \in Rows
    /\ launch \in Launch
    /\ status \in [Launches -> Statuses]
    /\ task \in [Launches -> Tasks]
    /\ alive \subseteq 1..launch.n
    /\ stopOf \in [Callers -> StopCall]
    /\ restart \in Restart
    /\ slot \in [Slots -> Slot]
    /\ mapped \in 0..MaxSlots
    /\ epoch \in Nat
    /\ attempts \in 0..MaxAttempts
    /\ starter \in StartCall
    /\ stopper \in {"idle", "read", "mark", "call", "stop"}
    /\ shutdown \in {"no", "draining", "done"}
    /\ asked \in {"none", "start", "stop", "stopped", "told"}
    /\ recovered \in Nat /\ startCalls \in 0..MaxStartCalls /\ stopCalls \in 0..MaxStopCalls

LEMMA TypedParts == RecoveryTypeOK <=> Typed
BY DEF RecoveryTypeOK, Typed, Launch, Slot, StopCall, StartCall, Statuses, Tasks, Restart

\* What the assumption says of each bound.
LEMMA Bounds ==
    /\ MaxAttempts \in Nat /\ MaxAttempts > 0 /\ MaxLaunches \in Nat /\ MaxLaunches > 0
    /\ MaxSlots \in Nat /\ MaxSlots > 0 /\ MaxStartCalls \in Nat /\ MaxStopCalls \in Nat
BY RecoveryAssumption

\* A launch that moves on keeps its number, its attempt and its epoch.
Moved(l) == /\ l \in Launch /\ l.n = launch.n /\ l.attempt = launch.attempt /\ l.epoch = launch.epoch

\* A step of a launch, a step into cleanup, and one that goes on or into cleanup.
LEMMA StepMoves ==
    ASSUME launch \in Launch, NEW s \in LaunchSteps, Step(s)
    PROVE  Moved(launch') /\ launch'.step = s
BY DEF Moved, Launch, Step

LEMMA AbandonMoves ==
    ASSUME launch \in Launch, Abandon
    PROVE  Moved(launch') /\ launch'.step = "cleanup"
BY DEF Moved, Launch, Abandon, LaunchSteps

LEMMA GoMoves ==
    ASSUME launch \in Launch, NEW s \in LaunchSteps, Go(s)
    PROVE  Moved(launch') /\ launch'.step \in {s, "cleanup"}
BY StepMoves, AbandonMoves DEF Go

\* A request to stop changes the flags only.
LEMMA RequestMoves ==
    ASSUME launch \in Launch, launch' = StopRequested(launch)
    PROVE  Moved(launch') /\ launch'.step = launch.step
BY DEF Moved, Launch, StopRequested

\* A new launch has the next number and starts at its first step.
LEMMA NewLaunchMoves ==
    ASSUME Typed, NewLaunch
    PROVE  /\ launch' \in Launch /\ launch'.n = launch.n + 1 /\ launch'.step = "store"
           /\ launch'.epoch = 0 /\ launch'.n \in Launches
           /\ status' \in [Launches -> Statuses] /\ task' \in [Launches -> Tasks]
<1>1. PICK l : l = launch.n + 1 /\ l \in Launches /\ launch' = [NoLaunch EXCEPT !.n = l, !.step = "store"]
               /\ status' = [k \in Launches |-> IF k = l THEN "starting"
                                         ELSE IF Watched(k) THEN status[k] ELSE "none"]
        /\ task' = [k \in Launches |-> IF k = l THEN "pending"
                                       ELSE IF Awaited(k) THEN task[k] ELSE "none"]
  BY DEF NewLaunch
<1>2. NoLaunch \in Launch /\ NoLaunch.epoch = 0
  BY Bounds DEF NoLaunch, Launch, LaunchSteps
<1>3. launch' \in Launch /\ launch'.n = launch.n + 1 /\ launch'.step = "store"
           /\ launch'.epoch = 0 /\ launch'.n \in Launches
  <2>1. launch' = [NoLaunch EXCEPT !.n = l, !.step = "store"] /\ l \in 0..MaxLaunches
    BY <1>1, Bounds DEF Launches
  <2>2. launch' \in Launch /\ launch'.n = l /\ launch'.step = "store" /\ launch'.epoch = 0
    BY <1>2, <2>1 DEF Launch, LaunchSteps
  <2> QED BY <1>1, <2>2
<1>4. status' \in [Launches -> Statuses]
  BY <1>1 DEF Statuses, Typed
<1>5. task' \in [Launches -> Tasks]
  BY <1>1 DEF Tasks, Typed
<1> QED BY <1>3, <1>4, <1>5

\* Where activate() can take a launch.
Going == {"prepare", "handshake", "record", "project", "announced", "up", "cleanup"}

\* activate(): only the preparation brings up a child, and that is this launch's.
LEMMA ActivateMoves ==
    ASSUME Typed, Activate
    PROVE  /\ Moved(launch') /\ launch'.step \in Going
           /\ launch.step \in {"store"} \cup Going
           /\ \/ alive' = alive
              \/ /\ launch.step = "prepare" /\ launch'.step = "handshake"
                 /\ alive' = alive \cup {launch.n}
           /\ NoRecovery /\ LaunchOnly
<1> USE DEF Typed, LaunchSteps, Going
<1>1. CASE Store
  BY <1>1, GoMoves DEF Store
<1>2. CASE Prepare
  <2>1. CASE Abandon /\ UNCHANGED alive
    BY <1>2, <2>1, AbandonMoves DEF Prepare
  <2>2. CASE ~(Abandon /\ UNCHANGED alive)
    <3>1. launch' = [launch EXCEPT !.step = "handshake", !.spawned = TRUE] /\ alive' = alive \cup {launch.n}
      BY <1>2, <2>2 DEF Prepare
    <3>2. Moved(launch') /\ launch'.step = "handshake"
      BY <3>1 DEF Moved, Launch
    <3> QED BY <1>2, <3>1, <3>2 DEF Prepare
  <2> QED BY <2>1, <2>2
<1>3. CASE BecomeReady
  BY <1>3, GoMoves DEF BecomeReady
<1>4. CASE RecordLaunch
  BY <1>4, GoMoves DEF RecordLaunch
<1>5. CASE Project
  BY <1>5, StepMoves DEF Project
<1>6. CASE Publish
  BY <1>6, GoMoves DEF Publish
<1> QED BY <1>1, <1>2, <1>3, <1>4, <1>5, <1>6 DEF Activate

\* activate() keeps the types.
LEMMA ActivateTyped ==
    ASSUME Typed, Begun, Activate
    PROVE  Typed'
<1>1. launch' \in Launch /\ launch'.n = launch.n /\ launch.n \in 0..MaxLaunches /\ launch.n /= 0
  BY ActivateMoves DEF Moved, Typed, Begun, Launch, Going
<1>2. alive' \subseteq 1..launch'.n
  <2>1. launch.n \in 1..launch.n /\ alive \subseteq 1..launch.n
    BY <1>1, Bounds DEF Typed
  <2>2. alive' \subseteq 1..launch.n
    BY <2>1, ActivateMoves
  <2> QED BY <1>1, <2>2
<1>3. row' \in Rows
  BY DEF Typed, Activate, Store, Prepare, BecomeReady, RecordLaunch, Project, Publish, Rows
<1>4. status' \in [Launches -> Statuses]
  BY DEF Typed, Activate, Store, Prepare, BecomeReady, RecordLaunch, Project, Publish, Statuses
<1>5. task' \in [Launches -> Tasks]
  BY DEF Typed, Activate, Store, Prepare, BecomeReady, RecordLaunch, Project, Publish, Tasks
<1> QED BY <1>1, <1>2, <1>3, <1>4, <1>5, ActivateMoves DEF Typed, NoRecovery, LaunchOnly

\* The empty slot.
LEMMA IdleTyped == IdleSlot \in Slot /\ IdleSlot.step = "idle" /\ IdleSlot.epoch = 0
                      /\ IdleSlot.launch = 0
BY Bounds DEF IdleSlot, Slot, SlotSteps

\* A cleared timer leaves the slots well typed.
LEMMA ClearTyped ==
    ASSUME slot \in [Slots -> Slot], ClearTimer
    PROVE  slot' \in [Slots -> Slot] /\ mapped' = 0
BY IdleTyped DEF ClearTimer

\* finish() and its listeners keep the types; an attempt is counted only below the maximum.
LEMMA FinishTyped ==
    ASSUME Typed, Begun, Finish
    PROVE  Typed'
<1>1. CASE Settle
  <2>1. Moved(launch')
    BY <1>1, StepMoves DEF Settle, LaunchSteps, Typed
  <2>2. status' \in [Launches -> Statuses]
    BY <1>1 DEF Settle, Typed, Statuses
  <2> QED BY <1>1, <2>1, <2>2 DEF Settle, Typed, Moved, NoRecovery, LaunchOnly
<1>2. CASE Report
  <2>1. Moved(launch') /\ task' \in [Launches -> Tasks] /\ row' \in Rows
    BY <1>2, StepMoves DEF Report, LaunchEnds, LaunchSteps, Typed, Rows, Tasks
  <2> QED BY <1>2, <2>1 DEF Report, Typed, Moved, NoRecovery, LaunchOnly
<1>3. CASE Decide
  <2>1. CASE ShuttingDown \/ ~MayRetry
    <3>1. Moved(launch') /\ task' \in [Launches -> Tasks]
      BY <1>3, <2>1, StepMoves DEF Decide, LaunchEnds, LaunchSteps, Typed, Tasks
    <3> QED BY <1>3, <2>1, <3>1 DEF Decide, Typed, Moved, LaunchOnly
  <2>2. CASE ~(ShuttingDown \/ ~MayRetry)
    <3>1. launch' = [launch EXCEPT !.step = "announce", !.attempt = attempts + 1, !.epoch = epoch]
          /\ ClearTimer
      BY <1>3, <2>2 DEF Decide
    <3>2. attempts + 1 \in 0..MaxAttempts /\ epoch \in Nat
      BY <2>2, Bounds DEF MayRetry, Typed
    <3>3. launch' \in Launch /\ launch'.n = launch.n
      BY <3>1, <3>2 DEF Launch, LaunchSteps, Typed
    <3>4. slot' \in [Slots -> Slot] /\ mapped' \in 0..MaxSlots
      BY <3>1, ClearTyped, Bounds DEF Typed
    <3> QED BY <1>3, <2>2, <3>3, <3>4 DEF Decide, Typed, LaunchOnly
  <2> QED BY <2>1, <2>2
<1>4. CASE Announce
  <2>1. Moved(launch') /\ task' \in [Launches -> Tasks]
    BY <1>4, StepMoves DEF Announce, LaunchEnds, LaunchSteps, Typed, Tasks
  <2>2. slot' \in [Slots -> Slot] /\ mapped' \in 0..MaxSlots
    <3>1. CASE ShuttingDown \/ launch.epoch /= epoch
      BY <1>4, <3>1 DEF Announce, Typed
    <3>2. CASE ~(ShuttingDown \/ launch.epoch /= epoch)
      <4> DEFINE new == [IdleSlot EXCEPT !.step = "timer", !.attempt = launch.attempt, !.epoch = launch.epoch]
      <4>1. PICK r \in Slots : slot' = [slot EXCEPT ![r] = new] /\ mapped' = r
        BY <1>4, <3>2 DEF Announce
      <4>2. new \in Slot
        BY IdleTyped DEF Slot, SlotSteps, Typed, Launch
      <4> HIDE DEF new
      <4> QED BY <4>1, <4>2, Bounds DEF Typed, Slots
    <3> QED BY <3>1, <3>2
  <2> QED BY <1>4, <2>1, <2>2 DEF Announce, Typed, Moved, LaunchOnly
<1> QED BY <1>1, <1>2, <1>3, <1>4 DEF Finish

\* A slot that moves on, and one that is freed.
LEMMA AtTyped ==
    ASSUME slot \in [Slots -> Slot], NEW r \in Slots, NEW s \in SlotSteps, At(r, s)
    PROVE  slot' \in [Slots -> Slot]
<1> DEFINE new == [slot[r] EXCEPT !.step = s]
<1>1. new \in Slot
  BY DEF Slot
<1>2. slot' = [slot EXCEPT ![r] = new]
  BY DEF At
<1> QED BY <1>1, <1>2

LEMMA EndTyped ==
    ASSUME slot \in [Slots -> Slot], NEW r \in Slots, EndRecovery(r)
    PROVE  slot' \in [Slots -> Slot]
BY IdleTyped DEF EndRecovery

\* The restart that is taken or given back.
LEMMA RestartTyped ==
    /\ [by |-> 0, aborted |-> FALSE] \in Restart
    /\ \A r \in Slots : [by |-> r, aborted |-> FALSE] \in Restart
    /\ IdleStop \in StopCall
BY Bounds DEF Restart, Slots, IdleStop, StopCall

\* A call of stop() waits for the latest launch, or returns at once without one.
LEMMA EnterStopMoves ==
    ASSUME Typed, NEW c \in Callers, EnterStop(c)
    PROVE  /\ Moved(launch') /\ launch'.step = launch.step
           /\ stopOf' \in [Callers -> StopCall]
           /\ \A k \in Callers : k /= c => stopOf'[k] = stopOf[k]
           /\ stopOf'[c].on = launch.n
           /\ stopOf'[c].step = IF launch.n = 0 THEN "returned" ELSE "wait"
<1>1. launch.n \in 0..MaxLaunches
  BY DEF Typed, Launch
<1>2. CASE launch.n = 0
  BY <1>1, <1>2, Bounds DEF EnterStop, Typed, Moved, StopCall
<1>3. CASE launch.n /= 0
  <2>1. Moved(launch') /\ launch'.step = launch.step
    BY <1>3, RequestMoves DEF EnterStop, Typed
  <2> QED BY <1>1, <1>3, <2>1 DEF EnterStop, Typed, StopCall
<1> QED BY <1>2, <1>3

\* Every step of a recovery keeps the types.
LEMMA RecoverTyped ==
    ASSUME Typed, NEW r \in Slots, Recover(r)
    PROVE  Typed'
<1> USE DEF RecoverOnly, LaunchKept
<1>0. slot \in [Slots -> Slot] /\ slot[r] \in Slot /\ 0 \in 0..MaxSlots /\ r \in 0..MaxSlots
      /\ slot[r].attempt \in 0..MaxAttempts
  BY Bounds DEF Typed, Slots, Slot
<1>1. CASE Fire(r)
  <2>1. slot' \in [Slots -> Slot] /\ mapped' \in 0..MaxSlots /\ attempts' \in 0..MaxAttempts
    BY <1>0, <1>1, AtTyped, EndTyped DEF Fire, SlotSteps, Typed
  <2> QED BY <1>1, <2>1 DEF Fire, Typed
<1>2. CASE Resume(r)
  <2>1. slot' \in [Slots -> Slot] /\ restart' \in Restart
    BY <1>0, <1>2, AtTyped, EndTyped, RestartTyped DEF Resume, SlotSteps, Typed
  <2> QED BY <1>2, <2>1 DEF Resume, Typed
<1>3. CASE Preflighted(r)
  <2>1. slot' \in [Slots -> Slot]
    BY <1>0, <1>3, AtTyped DEF Preflighted, SlotSteps
  <2>2. restart' \in Restart
    BY <1>3, RestartTyped DEF Preflighted, Release, Typed
  <2>3. launch' \in Launch /\ launch'.n = launch.n /\ stopOf' \in [Callers -> StopCall]
    BY <1>3, EnterStopMoves DEF Preflighted, Typed, Moved, Callers
  <2> QED BY <1>3, <2>1, <2>2, <2>3 DEF Preflighted, Typed
<1>4. CASE Relaunch(r)
  <2>1. stopOf' \in [Callers -> StopCall] /\ restart' \in Restart
    BY <1>4, RestartTyped DEF Relaunch, Typed, Release
  <2>2. CASE restart.aborted \/ ShuttingDown \/ ~PreviousOver
    <3>1. slot' \in [Slots -> Slot]
      BY <1>0, <1>4, <2>2, AtTyped DEF Relaunch, SlotSteps
    <3> QED BY <1>4, <2>1, <2>2, <3>1 DEF Relaunch, Typed
  <2>3. CASE ~(restart.aborted \/ ShuttingDown \/ ~PreviousOver)
    <3> DEFINE new == [slot[r] EXCEPT !.step = "await", !.launch = launch.n + 1]
    <3>1. NewLaunch /\ slot' = [slot EXCEPT ![r] = new] /\ recovered' \in {recovered, recovered + 1}
      BY <1>4, <2>3 DEF Relaunch
    <3>2. launch' \in Launch /\ launch'.n = launch.n + 1 /\ launch'.n \in Launches
          /\ status' \in [Launches -> Statuses] /\ task' \in [Launches -> Tasks]
      BY <3>1, NewLaunchMoves
    <3>3. launch.n + 1 \in 0..MaxLaunches /\ launch.n \in Nat
      BY <3>2, Bounds DEF Launches, Typed, Launch
    <3>4. new \in Slot
      BY <1>0, <3>3 DEF Slot, SlotSteps
    <3> HIDE DEF new
    <3>5. slot' \in [Slots -> Slot]
      BY <1>0, <3>1, <3>4
    <3>6. alive' \subseteq 1..launch'.n /\ recovered' \in Nat
      BY <1>4, <3>1, <3>2, <3>3 DEF Relaunch, Typed
    <3> QED BY <1>4, <2>1, <2>3, <3>2, <3>5, <3>6 DEF Relaunch, Typed
  <2> QED BY <2>2, <2>3
<1>5. CASE Recovered(r)
  <2>1. slot' \in [Slots -> Slot]
    <3>1. CASE EndRecovery(r)
      BY <1>0, <3>1, EndTyped
    <3>2. CASE ~EndRecovery(r)
      <4> DEFINE new == [slot[r] EXCEPT !.step = "failed", !.launch = 0]
      <4>1. slot' = [slot EXCEPT ![r] = new]
        BY <1>5, <3>2 DEF Recovered
      <4>2. "failed" \in SlotSteps /\ 0 \in 0..MaxLaunches
        BY Bounds DEF SlotSteps
      <4>3. new \in Slot
        BY <1>0, <4>2 DEF Slot
      <4> HIDE DEF new
      <4> QED BY <1>0, <4>1, <4>3
    <3> QED BY <3>1, <3>2
  <2> QED BY <1>5, <2>1 DEF Recovered, Typed
<1>6. CASE TryAgain(r)
  <2>1. slot' \in [Slots -> Slot] /\ mapped' \in 0..MaxSlots
    <3>1. CASE MayTryAgain(r)
      <4> DEFINE new == [slot[r] EXCEPT !.step = "announce", !.attempt = @ + 1]
      <4>1. slot' = [k \in Slots |-> IF k = r THEN new ELSE IF k = mapped THEN IdleSlot ELSE slot[k]]
            /\ mapped' = 0
        BY <1>6, <3>1 DEF TryAgain
      <4>2. slot[r].attempt + 1 \in 0..MaxAttempts
        BY <1>0, <3>1, Bounds DEF MayTryAgain
      <4>3. new \in Slot
        BY <1>0, <4>2 DEF Slot, SlotSteps
      <4> HIDE DEF new
      <4> QED BY <1>0, <4>1, <4>3, IdleTyped
    <3>2. CASE ~MayTryAgain(r)
      BY <1>0, <1>6, <3>2, EndTyped DEF TryAgain, Typed
    <3> QED BY <3>1, <3>2
  <2> QED BY <1>6, <2>1 DEF TryAgain, Typed
<1>7. CASE Reschedule(r)
  <2>1. slot' \in [Slots -> Slot] /\ mapped' \in 0..MaxSlots
    BY <1>0, <1>7, AtTyped, EndTyped DEF Reschedule, SlotSteps, Typed
  <2> QED BY <1>7, <2>1 DEF Reschedule, Typed
<1> QED BY <1>1, <1>2, <1>3, <1>4, <1>5, <1>6, <1>7 DEF Recover

\* The start that is asked, moves on or is aborted.
LEMMA StarterTyped ==
    /\ IdleStart \in StartCall /\ IdleStart.step = "idle"
    /\ [IdleStart EXCEPT !.step = "preflight"] \in StartCall
<1>1. IdleStart \in StartCall /\ IdleStart.step = "idle"
  BY Bounds DEF StartCall, IdleStart
<1>2. [IdleStart EXCEPT !.step = "preflight"] \in StartCall
  BY <1>1 DEF StartCall
<1> QED BY <1>1, <1>2

LEMMA StartAtTyped ==
    ASSUME starter \in StartCall,
           NEW s \in {"mark", "call", "endpoint", "cancelled", "failed"}, StartAt(s)
    PROVE  starter' \in StartCall /\ starter'.step = s
           /\ starter'.launch = starter.launch /\ starter'.aborted = starter.aborted
BY DEF StartCall, StartAt

LEMMA AbortStartTyped ==
    ASSUME starter \in StartCall, AbortStart
    PROVE  starter' \in StartCall /\ starter'.step = starter.step
           /\ (starter'.step = "idle" \/ starter'.aborted)
           /\ starter'.launch = starter.launch
BY DEF StartCall, AbortStart

\* cancelRestart() keeps the types.
LEMMA CancelTyped ==
    ASSUME Typed, CancelRestart
    PROVE  /\ slot' \in [Slots -> Slot] /\ mapped' \in 0..MaxSlots /\ attempts' \in 0..MaxAttempts
           /\ epoch' \in Nat /\ recovered' \in Nat
BY IdleTyped, Bounds DEF CancelRestart, Typed

\* startServer() keeps the types.
LEMMA StartTyped ==
    ASSUME Typed, StartServer
    PROVE  Typed'
<1> USE DEF StartOnly
<1>0. starter \in StartCall
  BY DEF Typed
<1>1. CASE PreflightStart
  BY <1>0, <1>1, StarterTyped, StartAtTyped DEF PreflightStart, Typed
<1>2. CASE MarkStarting
  BY <1>0, <1>2, StarterTyped, StartAtTyped DEF MarkStarting, Typed, Rows
<1>3. CASE CallStart
  <2>1. CASE NewLaunch /\ starter' = [starter EXCEPT !.step = "await", !.launch = launch.n + 1]
    <3>1. launch' \in Launch /\ launch'.n = launch.n + 1 /\ launch'.n \in Launches
          /\ status' \in [Launches -> Statuses] /\ task' \in [Launches -> Tasks]
      BY <2>1, NewLaunchMoves
    <3>2. launch.n + 1 \in 0..MaxLaunches /\ launch.n \in Nat
      BY <3>1, Bounds DEF Launches, Typed, Launch
    <3>3. starter' \in StartCall
      BY <1>0, <2>1, <3>2 DEF StartCall
    <3>4. alive' \subseteq 1..launch'.n
      BY <1>3, <3>1, <3>2 DEF CallStart, Typed
    <3> QED BY <1>3, <2>1, <3>1, <3>3, <3>4 DEF CallStart, Typed
  <2>2. CASE ~(NewLaunch /\ starter' = [starter EXCEPT !.step = "await", !.launch = launch.n + 1])
    BY <1>0, <1>3, <2>2, StarterTyped, StartAtTyped DEF CallStart, Typed
  <2> QED BY <2>1, <2>2
<1>4. CASE TaskEnded
  BY <1>0, <1>4, StarterTyped, StartAtTyped DEF TaskEnded, Typed
<1>5. CASE AnswerStart
  BY <1>0, <1>5, StarterTyped, StartAtTyped DEF AnswerStart, Typed, Rows
<1> QED BY <1>1, <1>2, <1>3, <1>4, <1>5 DEF StartServer

\* An aborted restart stays with its slot.
LEMMA AbortTyped ==
    ASSUME restart \in Restart
    PROVE  LET r == [restart EXCEPT !.aborted = restart.by /= 0]
           IN  r \in Restart /\ r.by = restart.by /\ (restart.by /= 0 => r.aborted)
BY DEF Restart

\* stopServer() keeps the types.
LEMMA StopTyped ==
    ASSUME Typed, StopServer
    PROVE  Typed'
<1> USE DEF StopOnly
<1>1. CASE ReadStatus
  BY <1>1 DEF ReadStatus, Answer, Typed
<1>2. CASE MarkStopping
  BY <1>2 DEF MarkStopping, Typed, Rows
<1>3. CASE CallStop
  <2>1. launch' \in Launch /\ launch'.n = launch.n /\ stopOf' \in [Callers -> StopCall]
    BY <1>3, EnterStopMoves DEF CallStop, Moved, Callers
  <2>2. restart' \in Restart
    BY <1>3, AbortTyped DEF CallStop, Typed
  <2> QED BY <1>3, <2>1, <2>2 DEF CallStop, Typed
<1>4. CASE AnswerStop
  <2>1. stopOf' \in [Callers -> StopCall]
    BY <1>4, RestartTyped DEF AnswerStop, Typed
  <2> QED BY <1>4, <2>1 DEF AnswerStop, Answer, Typed, Rows
<1> QED BY <1>1, <1>2, <1>3, <1>4 DEF StopServer

\* stop() keeps the types.
LEMMA StopProcessTyped ==
    ASSUME Typed, NEW c \in Callers, StopProcess(c)
    PROVE  Typed'
<1>1. stopOf' \in [Callers -> StopCall]
  <2>1. PICK s \in {"project", "returned"} : stopOf' = [stopOf EXCEPT ![c].step = s]
    BY DEF StopProcess, StopSettled, StopProjected
  <2> DEFINE new == [stopOf[c] EXCEPT !.step = s]
  <2>2. stopOf' = [stopOf EXCEPT ![c] = new]
    BY <2>1
  <2>3. new \in StopCall
    BY DEF StopCall, Typed
  <2> HIDE DEF new
  <2> QED BY <2>2, <2>3 DEF Typed
<1>2. status' \in [Launches -> Statuses] /\ row' \in Rows
  BY DEF StopProcess, StopSettled, StopProjected, Typed, Statuses, Rows
<1> QED BY <1>1, <1>2 DEF StopProcess, StopSettled, StopProjected, StopSideOnly, Typed

\* The shutdown hooks, up to their first awaits.
LEMMA ShutDownMoves ==
    ASSUME Typed, ShutDown
    PROVE  /\ Moved(launch') /\ launch'.step = launch.step
           /\ slot' \in [Slots -> Slot] /\ mapped' \in 0..MaxSlots /\ attempts' \in 0..MaxAttempts
           /\ epoch' \in Nat /\ recovered' \in Nat
           /\ starter' \in StartCall /\ restart' \in Restart
           /\ stopOf' \in [Callers -> StopCall]
<1>1. Moved(launch') /\ launch'.step = launch.step /\ stopOf' \in [Callers -> StopCall]
  BY EnterStopMoves DEF ShutDown, Callers
<1>2. restart' \in Restart
  BY AbortTyped DEF ShutDown, Typed
<1>3. starter' \in StartCall
  BY AbortStartTyped DEF ShutDown, Typed
<1>4. slot' \in [Slots -> Slot] /\ mapped' \in 0..MaxSlots /\ attempts' \in 0..MaxAttempts
           /\ epoch' \in Nat /\ recovered' \in Nat
  BY CancelTyped DEF ShutDown, Typed
<1> QED BY <1>1, <1>2, <1>3, <1>4

\* A stop that is asked requests at most the stop of the launch.
LEMMA AskStopMoves ==
    ASSUME Typed, AskStop
    PROVE  Moved(launch') /\ launch'.step = launch.step
<1>1. CASE launch' = launch
  BY <1>1 DEF Moved, Typed
<1>2. CASE launch' = StopRequested(launch)
  BY <1>2, RequestMoves DEF Typed
<1> QED BY <1>1, <1>2 DEF AskStop

\* The remaining steps keep the types.
LEMMA RestTyped ==
    ASSUME Typed,
           \/ AskStart \/ AskStop \/ ShutDown \/ Drain \/ UNCHANGED recoveryVars
           \/ \E l \in Launches : Exit(l)
    PROVE  Typed'
<1>1. CASE AskStart
  BY <1>1, Bounds, StarterTyped DEF AskStart, StartOnly, Typed
<1>2. CASE AskStop
  <2>1. launch' \in Launch /\ launch'.n = launch.n
    BY <1>2, AskStopMoves DEF Moved
  <2>2. starter' \in StartCall
    BY <1>2, AbortStartTyped DEF AskStop, Typed
  <2>3. stopCalls' \in 0..MaxStopCalls
    BY <1>2, Bounds DEF AskStop, Typed
  <2> QED BY <1>2, <2>1, <2>2, <2>3, CancelTyped DEF AskStop, Typed
<1>3. CASE ShutDown
  BY <1>3, ShutDownMoves DEF ShutDown, Typed, Moved
<1>4. CASE Drain
  BY <1>4 DEF Drain, Typed
<1>5. CASE UNCHANGED recoveryVars
  BY <1>5 DEF recoveryVars, Typed
<1>6. ASSUME NEW l \in Launches, Exit(l) PROVE Typed'
  BY <1>6 DEF Exit, NoRecovery, LaunchOnly, Typed
<1> QED BY <1>1, <1>2, <1>3, <1>4, <1>5, <1>6

\* Every step keeps the types.
LEMMA NextTyped ==
    ASSUME Typed, Begun, [RecoveryNext]_recoveryVars
    PROVE  Typed'
BY ActivateTyped, FinishTyped, StartTyped, StopTyped, StopProcessTyped, RecoverTyped, RestTyped
   DEF RecoveryNext

-----------------------------------------------------------------------------
(* OneChild: the launches follow one another *)

\* The only child is the latest launch's, and that launch is past its preparation
\* and not yet settled: finish() awaits the end of the child.
ChildIsLatest ==
    /\ alive \subseteq {launch.n}
    /\ launch.step \in {"none", "store", "prepare", "settling", "decide", "announce", "done"} =>
         alive = {}

\* The steps of a launch that move it without touching its child.
LEMMA FinishMoves ==
    ASSUME Typed, Finish
    PROVE  /\ launch' \in Launch /\ launch'.n = launch.n /\ UNCHANGED alive
           /\ launch.step \in {"up", "cleanup", "settling", "decide", "announce"}
           /\ launch'.step \in {"settling", "decide", "announce", "done"}
           /\ launch.step \in {"up", "cleanup"} => launch.n \notin alive
           /\ launch'.epoch \in {launch.epoch, epoch}
<1>1. CASE Settle
  BY <1>1, StepMoves DEF Settle, Typed, Moved, LaunchSteps, ChildGone
<1>2. CASE Report
  BY <1>2, StepMoves DEF Report, LaunchEnds, Typed, Moved, LaunchSteps
<1>3. CASE Decide
  <2>1. CASE ShuttingDown \/ ~MayRetry
    BY <1>3, <2>1, StepMoves DEF Decide, LaunchEnds, LaunchSteps, Typed, Moved
  <2>2. CASE ~(ShuttingDown \/ ~MayRetry)
    <3>1. launch' = [launch EXCEPT !.step = "announce", !.attempt = attempts + 1, !.epoch = epoch]
      BY <1>3, <2>2 DEF Decide
    <3>2. attempts + 1 \in 0..MaxAttempts /\ epoch \in Nat
      BY <2>2, Bounds DEF MayRetry, Typed
    <3>3. launch' \in Launch /\ launch'.n = launch.n /\ launch'.step = "announce" /\ launch'.epoch = epoch
      BY <3>1, <3>2 DEF Launch, LaunchSteps, Typed
    <3> QED BY <1>3, <3>3 DEF Decide
  <2> QED BY <2>1, <2>2
<1>4. CASE Announce
  BY <1>4, StepMoves DEF Announce, LaunchEnds, Typed, Moved, LaunchSteps
<1> QED BY <1>1, <1>2, <1>3, <1>4 DEF Finish

\* What every other step does to the launch and its child: nothing, a request
\* to stop, a new launch after the end of the previous one, or an exit.
LEMMA OtherMoves ==
    ASSUME Typed, [RecoveryNext]_recoveryVars, ~Activate, ~Finish
    PROVE  \/ Moved(launch') /\ launch'.step = launch.step /\ alive' \subseteq alive
           \/ NewLaunch /\ PreviousOver /\ ~ShuttingDown /\ UNCHANGED <<alive, shutdown>>
              /\ \/ /\ starter.step = "call" /\ ~starter.aborted /\ restart.by = 0
                    /\ UNCHANGED <<slot, epoch>>
                    /\ starter' = [starter EXCEPT !.step = "await", !.launch = launch.n + 1]
                 \/ \E r \in Slots : Relaunch(r) /\ slot[r].step = "stopping" /\ ~restart.aborted
<1>0. launch \in Launch /\ (UNCHANGED launch => Moved(launch') /\ launch'.step = launch.step)
  BY DEF Typed, Moved
<1>1. CASE AskStart \/ Drain \/ UNCHANGED recoveryVars
  BY <1>0, <1>1 DEF AskStart, StartOnly, Drain, recoveryVars
<1>2. CASE AskStop
  BY <1>2, AskStopMoves DEF AskStop
<1>3. CASE ShutDown
  BY <1>3, ShutDownMoves DEF ShutDown
<1>4. ASSUME NEW l \in Launches, Exit(l)
      PROVE  Moved(launch') /\ launch'.step = launch.step /\ alive' \subseteq alive
  BY <1>0, <1>4 DEF Exit
<1>5. ASSUME NEW c \in Callers, StopProcess(c)
      PROVE  Moved(launch') /\ launch'.step = launch.step /\ alive' \subseteq alive
  BY <1>0, <1>5 DEF StopProcess, StopSettled, StopProjected, StopSideOnly
<1>6. CASE StopServer
  <2>1. CASE CallStop
    BY <2>1, EnterStopMoves DEF CallStop, Callers, StopOnly
  <2> QED BY <1>0, <1>6, <2>1 DEF StopServer, ReadStatus, MarkStopping, AnswerStop, StopOnly
<1>7. CASE StartServer
  <2>1. CASE CallStart
    BY <1>0, <2>1 DEF CallStart, MayLaunch, StartOnly
  <2> QED BY <1>0, <1>7, <2>1 DEF StartServer, PreflightStart, MarkStarting, TaskEnded,
     AnswerStart, StartOnly
<1>8. ASSUME NEW r \in Slots, Recover(r)
      PROVE  \/ Moved(launch') /\ launch'.step = launch.step /\ alive' \subseteq alive
             \/ NewLaunch /\ PreviousOver /\ ~ShuttingDown /\ UNCHANGED <<alive, shutdown>>
                /\ Relaunch(r) /\ slot[r].step = "stopping" /\ ~restart.aborted
  <2>1. UNCHANGED <<alive, shutdown>>
    BY <1>8 DEF Recover, Fire, Resume, Preflighted, Relaunch, Recovered, TryAgain, Reschedule,
       RecoverOnly
  <2>2. CASE Preflighted(r)
    BY <1>0, <2>1, <2>2, EnterStopMoves DEF Preflighted, Callers
  <2>3. CASE Relaunch(r)
    BY <1>0, <2>1, <2>3 DEF Relaunch
  <2>4. CASE Fire(r) \/ Resume(r) \/ Recovered(r) \/ TryAgain(r) \/ Reschedule(r)
    BY <1>0, <2>1, <2>4 DEF Fire, Resume, Recovered, TryAgain, Reschedule, LaunchKept
  <2> QED BY <1>8, <2>2, <2>3, <2>4 DEF Recover
<1> QED BY <1>1, <1>2, <1>3, <1>4, <1>5, <1>6, <1>7, <1>8 DEF RecoveryNext

\* A launch begins only after the previous one is over, and then no child is left.
LEMMA NextChild ==
    ASSUME Typed, Begun, ChildIsLatest, [RecoveryNext]_recoveryVars
    PROVE  Begun' /\ ChildIsLatest'
<1>1. launch.n \in 0..MaxLaunches /\ launch.step \in LaunchSteps
  BY DEF Typed, Launch
<1>2. CASE Activate
  <2>1. launch'.n = launch.n /\ launch.n /= 0 /\ launch'.step \in Going
    BY <1>1, <1>2, ActivateMoves DEF Begun, Moved, Going
  <2>2. Begun'
    BY <2>1 DEF Begun, Going
  <2>3. alive' \subseteq {launch.n}
    BY <1>2, ActivateMoves DEF ChildIsLatest
  <2>4. launch'.step = "prepare" => launch.step = "store" /\ alive' = alive
    BY <1>2 DEF Activate, Store, Prepare, BecomeReady, RecordLaunch, Project, Publish, Go, Step,
       Abandon, Typed, Launch
  <2>5. launch'.step = "prepare" => alive' = {}
    BY <2>4 DEF ChildIsLatest
  <2> QED BY <2>1, <2>2, <2>3, <2>5 DEF ChildIsLatest, Going
<1>3. CASE Finish
  <2>1. launch.n /= 0 /\ alive = {}
    BY <1>3, FinishMoves DEF Begun, ChildIsLatest
  <2> QED BY <1>3, <2>1, FinishMoves DEF Begun, ChildIsLatest
<1>4. CASE ~Activate /\ ~Finish
  <2>1. CASE Moved(launch') /\ launch'.step = launch.step /\ alive' \subseteq alive
    BY <2>1 DEF Begun, ChildIsLatest, Moved
  <2>2. CASE NewLaunch /\ PreviousOver /\ UNCHANGED alive
    BY <1>1, <2>2, NewLaunchMoves, Bounds DEF Begun, ChildIsLatest, PreviousOver
  <2> QED BY <1>4, <2>1, <2>2, OtherMoves
<1> QED BY <1>2, <1>3, <1>4

\* The initial state.
LEMMA InitTyped == RecoveryInit => Typed /\ Begun /\ ChildIsLatest
<1> SUFFICES ASSUME RecoveryInit PROVE Typed /\ Begun /\ ChildIsLatest
  OBVIOUS
<1>1. launch \in Launch /\ launch.n = 0 /\ launch.step = "none"
  BY Bounds DEF RecoveryInit, NoLaunch, Launch, LaunchSteps
<1>2. stopOf \in [Callers -> StopCall] /\ restart \in Restart
  BY RestartTyped DEF RecoveryInit
<1>3. slot \in [Slots -> Slot] /\ starter \in StartCall
  BY IdleTyped, StarterTyped DEF RecoveryInit
<1>4. status \in [Launches -> Statuses] /\ task \in [Launches -> Tasks]
  BY DEF RecoveryInit, Statuses, Tasks
<1>5. row \in Rows /\ alive = {} /\ mapped \in 0..MaxSlots /\ epoch \in Nat /\ attempts \in 0..MaxAttempts
      /\ recovered \in Nat /\ startCalls \in 0..MaxStartCalls /\ stopCalls \in 0..MaxStopCalls
  BY Bounds DEF RecoveryInit, Rows
<1> QED BY <1>1, <1>2, <1>3, <1>4, <1>5 DEF RecoveryInit, Typed, Begun, ChildIsLatest

\* What all the invariants below rest on.
BaseInv == Typed /\ Begun /\ ChildIsLatest

LEMMA BaseInvariance == RecoverySpec => []BaseInv
<1>1. RecoveryInit => BaseInv
  BY InitTyped DEF BaseInv
<1>2. BaseInv /\ [RecoveryNext]_recoveryVars => BaseInv'
  BY NextTyped, NextChild DEF BaseInv
<1> QED BY <1>1, <1>2, PTL DEF RecoverySpec

\* RecoveryTypeOK: every state that starts, stops, timers, exits and shutdowns can
\* reach is well typed, and no timer or failure counts an attempt past the maximum.
THEOREM RecoveryTypeCorrect == RecoverySpec => []RecoveryTypeOK
<1>1. BaseInv => RecoveryTypeOK
  BY TypedParts DEF BaseInv
<1> QED BY <1>1, BaseInvariance, PTL

\* OneChild: however starts, stops and recoveries overlap, the server never has two
\* child processes.
THEOREM OneChildHolds == RecoverySpec => []OneChild
<1>1. ASSUME BaseInv PROVE OneChild
  <2>1. alive = {} \/ alive = {launch.n}
    BY <1>1 DEF BaseInv, ChildIsLatest
  <2>2. Cardinality({}) = 0 /\ Cardinality({launch.n}) = 1
    BY FS_EmptySet, FS_Singleton
  <2> QED BY <2>1, <2>2 DEF OneChild
<1> QED BY <1>1, BaseInvariance, PTL

-----------------------------------------------------------------------------
(* ShutdownFinal: what the hooks await *)

\* A call of stop() that has waited for the end of its launch.
Returning == {"project", "returned"}

\* Once the application shuts down nothing launches: its stop() waits for the last
\* launch, and when it returns that launch is over.
Draining ==
    ShuttingDown =>
        /\ stopOf["shutdown"].step \in {"wait", "project", "returned"}
        /\ stopOf["shutdown"].on = launch.n
        /\ stopOf["shutdown"].step \in Returning => PreviousOver

\* The hooks have awaited their stop, the start and the recoveries.
DoneIsFinal ==
    shutdown = "done" =>
        stopOf["shutdown"].step = "returned" /\ starter.step = "idle" /\ RecoveriesOver

\* A call of stop() moves on only by its own steps; nothing else writes it
\* but the call that enters it and the answer to its caller.
LEMMA StopProcessMoves ==
    ASSUME Typed, NEW c \in Callers, StopProcess(c)
    PROVE  /\ \A k \in Callers : k /= c => stopOf'[k] = stopOf[k]
           /\ stopOf'[c].on = stopOf[c].on
           /\ stopOf[c].step \in {"wait", "project"} /\ stopOf'[c].step \in Returning
           /\ stopOf[c].step = "wait" => LaunchIsOver(stopOf[c].on)
           /\ UNCHANGED <<launch, shutdown>>
<1>1. PICK s \in Returning : stopOf' = [stopOf EXCEPT ![c].step = s]
  BY DEF StopProcess, StopSettled, StopProjected, Returning
<1> DEFINE new == [stopOf[c] EXCEPT !.step = s]
<1>2. stopOf' = [stopOf EXCEPT ![c] = new]
  BY <1>1
<1>3. new.on = stopOf[c].on /\ new.step = s
  BY DEF StopCall, Typed
<1> HIDE DEF new
<1>4. /\ \A k \in Callers : k /= c => stopOf'[k] = stopOf[k]
      /\ stopOf'[c].on = stopOf[c].on /\ stopOf'[c].step \in Returning
  BY <1>1, <1>2, <1>3 DEF Typed
<1> QED BY <1>4 DEF StopProcess, StopSettled, StopProjected, StopSideOnly

\* Steps that leave the call of stop() of a user or of the shutdown alone.
LEMMA StopCallKept ==
    ASSUME Typed, [RecoveryNext]_recoveryVars, NEW c \in {"shutdown", "user"}, ~StopProcess(c),
           c = "shutdown" => ~ShutDown, c = "user" => ~CallStop /\ ~AnswerStop
    PROVE  stopOf'[c] = stopOf[c]
<1>0. c \in Callers /\ {"shutdown", "user", "recovery"} \subseteq Callers
  BY DEF Callers
<1>1. CASE Activate \/ Finish
  BY <1>1 DEF Activate, Finish, Store, Prepare, BecomeReady, RecordLaunch, Project, Publish,
     Settle, Report, Decide, Announce, LaunchOnly
<1>2. CASE AskStart \/ AskStop \/ Drain \/ UNCHANGED recoveryVars \/ \E l \in Launches : Exit(l)
  BY <1>2 DEF AskStart, AskStop, StartOnly, Drain, recoveryVars, Exit, LaunchOnly
<1>3. ASSUME NEW k \in Callers, StopProcess(k) PROVE stopOf'[c] = stopOf[c]
  BY <1>0, <1>3, StopProcessMoves
<1>4. CASE StopServer
  <2>1. CASE CallStop
    BY <1>0, <2>1, EnterStopMoves DEF CallStop
  <2>2. CASE AnswerStop
    BY <1>0, <2>2 DEF AnswerStop, Typed
  <2> QED BY <1>4, <2>1, <2>2 DEF StopServer, ReadStatus, MarkStopping
<1>5. CASE StartServer
  BY <1>5 DEF StartServer, PreflightStart, MarkStarting, CallStart, TaskEnded, AnswerStart,
     StartOnly
<1>6. ASSUME NEW r \in Slots, Recover(r) PROVE stopOf'[c] = stopOf[c]
  <2>1. CASE Preflighted(r)
    BY <1>0, <2>1, EnterStopMoves DEF Preflighted
  <2>2. CASE Relaunch(r)
    BY <1>0, <2>2 DEF Relaunch, Typed
  <2> QED BY <1>6, <2>1, <2>2 DEF Recover, Fire, Resume, Recovered, TryAgain, Reschedule
<1>7. CASE ShutDown
  BY <1>0, <1>7, EnterStopMoves DEF ShutDown
<1> QED BY <1>1, <1>2, <1>3, <1>4, <1>5, <1>6, <1>7 DEF RecoveryNext

\* From the shutdown on no launch begins.
LEMMA NextDraining ==
    ASSUME BaseInv, Draining, [RecoveryNext]_recoveryVars
    PROVE  Draining'
<1> SUFFICES ASSUME ShuttingDown'
             PROVE  /\ stopOf'["shutdown"].step \in {"wait", "project", "returned"}
                    /\ stopOf'["shutdown"].on = launch'.n
                    /\ stopOf'["shutdown"].step \in Returning => PreviousOver'
  BY DEF Draining
<1>0. Typed /\ "shutdown" \in Callers
  BY DEF BaseInv, Callers
<1>1. CASE ShutDown
  <2>1. stopOf'["shutdown"].on = launch.n
        /\ stopOf'["shutdown"].step = (IF launch.n = 0 THEN "returned" ELSE "wait")
        /\ Moved(launch') /\ launch'.step = launch.step
    BY <1>0, <1>1, EnterStopMoves DEF ShutDown
  <2>2. launch.n = 0 => launch.step = "none"
    BY DEF BaseInv, Begun
  <2> QED BY <2>1, <2>2 DEF Moved, PreviousOver, Returning
<1>2. CASE ~ShutDown
  <2>1. ShuttingDown
    BY <1>2 DEF RecoveryNext, ShuttingDown, AskStart, AskStop, StartOnly, Drain, recoveryVars,
       Exit, LaunchOnly, Activate, Finish, Store, Prepare, BecomeReady, RecordLaunch, Project,
       Publish, Settle, Report, Decide, Announce, StopServer, ReadStatus, MarkStopping,
       CallStop, AnswerStop, StopOnly, StopProcess, StopSettled, StopProjected, StopSideOnly,
       StartServer, PreflightStart, MarkStarting, CallStart, TaskEnded, AnswerStart, Recover,
       Fire, Resume, Preflighted, Relaunch, Recovered, TryAgain, Reschedule, RecoverOnly
  <2>2. launch'.n = launch.n /\ (PreviousOver => PreviousOver')
    <3>1. CASE Activate
      BY <1>0, <3>1, ActivateMoves DEF Moved, PreviousOver, Going
    <3>2. CASE Finish
      BY <1>0, <3>2, FinishMoves DEF PreviousOver
    <3>3. CASE ~Activate /\ ~Finish
      BY <1>0, <2>1, <3>3, OtherMoves DEF Moved, PreviousOver
    <3> QED BY <3>1, <3>2, <3>3
  <2>3. CASE StopProcess("shutdown")
    <3>1. stopOf["shutdown"].step = "wait" => PreviousOver
      BY <1>0, <2>1, <2>3, StopProcessMoves DEF LaunchIsOver, Draining, PreviousOver
    <3>2. PreviousOver
      BY <1>0, <2>1, <2>3, <3>1, StopProcessMoves DEF Draining, Returning
    <3> QED BY <1>0, <2>1, <2>2, <2>3, <3>2, StopProcessMoves DEF Draining, Returning
  <2>4. CASE ~StopProcess("shutdown")
    BY <1>0, <1>2, <2>1, <2>2, <2>4, StopCallKept DEF Draining
  <2> QED BY <2>3, <2>4
<1> QED BY <1>1, <1>2

\* After the shutdown a timer that fires finds it and ends.
LEMMA NextDone ==
    ASSUME BaseInv, DoneIsFinal, [RecoveryNext]_recoveryVars
    PROVE  DoneIsFinal'
<1> SUFFICES ASSUME shutdown' = "done"
             PROVE  stopOf'["shutdown"].step = "returned" /\ starter'.step = "idle" /\ RecoveriesOver'
  BY DEF DoneIsFinal
<1>0. Typed /\ "shutdown" \in Callers
  BY DEF BaseInv, Callers
<1>1. CASE Drain
  BY <1>1 DEF Drain, Drained, RecoveriesOver
<1>2. CASE ~Drain
  <2>1. shutdown = "done" /\ ~ShutDown /\ ShuttingDown
    BY <1>2 DEF RecoveryNext, ShuttingDown, AskStart, AskStop, StartOnly, recoveryVars, Exit,
       LaunchOnly, ShutDown, Activate, Finish, Store, Prepare, BecomeReady, RecordLaunch,
       Project, Publish, Settle, Report, Decide, Announce, StopServer, ReadStatus, MarkStopping,
       CallStop, AnswerStop, StopOnly, StopProcess, StopSettled, StopProjected, StopSideOnly,
       StartServer, PreflightStart, MarkStarting, CallStart, TaskEnded, AnswerStart, Recover,
       Fire, Resume, Preflighted, Relaunch, Recovered, TryAgain, Reschedule, RecoverOnly
  <2>2. stopOf["shutdown"].step = "returned" /\ starter.step = "idle" /\ RecoveriesOver
    BY <2>1 DEF DoneIsFinal
  <2>3. ~StopProcess("shutdown")
    BY <1>0, <2>2, StopProcessMoves
  <2>4. stopOf'["shutdown"].step = "returned"
    BY <1>0, <2>1, <2>2, <2>3, StopCallKept
  <2>5. ~StartServer /\ ~AskStart
    BY <2>1, <2>2 DEF StartServer, PreflightStart, MarkStarting, CallStart, TaskEnded,
       AnswerStart, AskStart
  <2>6. starter'.step = "idle"
    BY <1>2, <2>1, <2>2, <2>5 DEF RecoveryNext, AskStop, AbortStart, recoveryVars, Exit,
       LaunchOnly, Activate, Finish, Store, Prepare, BecomeReady, RecordLaunch, Project,
       Publish, Settle, Report, Decide, Announce, StopServer, ReadStatus, MarkStopping,
       CallStop, AnswerStop, StopOnly, StopProcess, StopSettled, StopProjected, StopSideOnly,
       Recover, Fire, Resume, Preflighted, Relaunch, Recovered, TryAgain, Reschedule,
       RecoverOnly
  <2>7. RecoveriesOver'
    <3>1. CASE AskStop
      BY <1>0, <2>2, <3>1, IdleTyped DEF AskStop, CancelRestart, RecoveriesOver, Typed
    <3>2. ASSUME NEW r \in Slots, Recover(r) PROVE RecoveriesOver'
      <4>1. EndRecovery(r)
        BY <2>1, <2>2, <3>2 DEF Recover, Fire, Resume, Preflighted, Relaunch, Recovered,
           TryAgain, Reschedule, RecoveriesOver, StillDue
      <4> QED BY <1>0, <2>2, <4>1, IdleTyped DEF EndRecovery, RecoveriesOver, Typed
    <3>3. CASE UNCHANGED slot
      BY <2>2, <3>3 DEF RecoveriesOver
    <3>4. CASE ~AskStop /\ ~(\E r \in Slots : Recover(r))
      <4>1. UNCHANGED slot
        BY <1>2, <2>1, <2>5, <3>4 DEF RecoveryNext, recoveryVars, Exit, NoRecovery, Activate,
           Finish, Store, Prepare, BecomeReady, RecordLaunch, Project, Publish, Settle, Report,
           Decide, Announce, StopServer, ReadStatus, MarkStopping, CallStop, AnswerStop,
           StopOnly, StopProcess, StopSettled, StopProjected, StopSideOnly
      <4> QED BY <3>3, <4>1
    <3> QED BY <3>1, <3>2, <3>4
  <2> QED BY <2>4, <2>6, <2>7
<1> QED BY <1>1, <1>2

\* ShutdownFinal: after the shutdown hooks no child runs and no start, launch or
\* recovery is left that could bring one up.
THEOREM ShutdownFinalHolds == RecoverySpec => []ShutdownFinal
<1>1. RecoveryInit => Draining /\ DoneIsFinal
  BY DEF RecoveryInit, Draining, DoneIsFinal, ShuttingDown
<1>2. BaseInv /\ Draining /\ DoneIsFinal /\ [RecoveryNext]_recoveryVars => Draining' /\ DoneIsFinal'
  BY NextDraining, NextDone
<1>3. BaseInv /\ Draining /\ DoneIsFinal => ShutdownFinal
  BY DEF BaseInv, ChildIsLatest, Draining, DoneIsFinal, ShutdownFinal, ShuttingDown,
     PreviousOver, Returning
<1> QED BY <1>1, <1>2, <1>3, BaseInvariance, PTL DEF RecoverySpec

-----------------------------------------------------------------------------
(* StopWins: what the cancellation reaches, and what it outdates *)

\* No epoch is ahead of the present one.
Epochs == launch.epoch <= epoch /\ \A r \in Slots : slot[r].epoch <= epoch

\* A server that was never launched has nothing to recover.
Untouched == launch.n = 0 => \A r \in Slots : slot[r].step = "idle"

\* A restart between its preflight and its launch holds the server.
Held == \A r \in Slots : slot[r].step \in {"preflight", "stopping"} => restart.by = r

\* What each step of a recovery does to the slots, field by field.
LEMMA AtMoves ==
    ASSUME Typed, NEW r \in Slots, NEW s \in SlotSteps, At(r, s)
    PROVE  /\ slot'[r] \in Slot /\ slot'[r].step = s /\ slot'[r].epoch = slot[r].epoch
           /\ slot'[r].attempt = slot[r].attempt /\ slot'[r].launch = slot[r].launch
           /\ \A k \in Slots : k /= r => slot'[k] = slot[k]
<1> DEFINE new == [slot[r] EXCEPT !.step = s]
<1>1. /\ new \in Slot /\ new.step = s /\ new.epoch = slot[r].epoch
      /\ new.attempt = slot[r].attempt /\ new.launch = slot[r].launch
  BY DEF Slot, Typed
<1>2. slot' = [slot EXCEPT ![r] = new]
  BY DEF At
<1> HIDE DEF new
<1> QED BY <1>1, <1>2 DEF Typed

LEMMA EndMoves ==
    ASSUME Typed, NEW r \in Slots, EndRecovery(r)
    PROVE  slot'[r] = IdleSlot /\ \A k \in Slots : k /= r => slot'[k] = slot[k]
BY DEF EndRecovery, Typed

LEMMA AnnounceMoves ==
    ASSUME Typed, Announce
    PROVE  \/ UNCHANGED slot
           \/ /\ ~ShuttingDown /\ launch.epoch = epoch
              /\ \E r \in Slots : /\ slot[r].step = "idle"
                                  /\ slot'[r].step = "timer" /\ slot'[r].epoch = epoch
                                  /\ slot'[r].attempt = launch.attempt /\ slot'[r].launch = 0
                                  /\ \A k \in Slots : k /= r => slot'[k] = slot[k]
<1>1. CASE ShuttingDown \/ launch.epoch /= epoch
  BY <1>1 DEF Announce
<1>2. CASE ~(ShuttingDown \/ launch.epoch /= epoch)
  <2> DEFINE new == [IdleSlot EXCEPT !.step = "timer", !.attempt = launch.attempt, !.epoch = launch.epoch]
  <2>1. PICK r \in Slots : slot[r].step = "idle" /\ slot' = [slot EXCEPT ![r] = new]
    BY <1>2 DEF Announce
  <2>2. new.step = "timer" /\ new.epoch = epoch /\ new.attempt = launch.attempt /\ new.launch = 0
    BY <1>2, IdleTyped DEF Slot
  <2> HIDE DEF new
  <2> QED BY <1>2, <2>1, <2>2 DEF Typed
<1> QED BY <1>1, <1>2

\* A cleared timer frees a slot; cancelRestart() begins a new epoch as well.
LEMMA ClearMoves ==
    ASSUME Typed, ClearTimer
    PROVE  \A k \in Slots : slot'[k] \in {slot[k], IdleSlot}
BY DEF ClearTimer, Typed

LEMMA CancelMoves ==
    ASSUME Typed, CancelRestart
    PROVE  epoch' = epoch + 1 /\ \A k \in Slots : slot'[k] \in {slot[k], IdleSlot}
BY DEF CancelRestart, Typed

\* restart() launches, or fails.
LEMMA RelaunchMoves ==
    ASSUME Typed, NEW r \in Slots, Relaunch(r)
    PROVE  \/ /\ slot'[r].step = "failed" /\ UNCHANGED <<launch, task, recovered>>
              /\ slot'[r].epoch = slot[r].epoch /\ slot'[r].attempt = slot[r].attempt
              /\ slot'[r].launch = slot[r].launch
              /\ \A k \in Slots : k /= r => slot'[k] = slot[k]
           \/ /\ NewLaunch /\ PreviousOver /\ ~restart.aborted
              /\ recovered' = IF slot[r].epoch = epoch THEN recovered + 1 ELSE recovered
              /\ slot'[r].step = "await" /\ slot'[r].launch = launch.n + 1
              /\ slot'[r].epoch = slot[r].epoch /\ slot'[r].attempt = slot[r].attempt
              /\ \A k \in Slots : k /= r => slot'[k] = slot[k]
<1>1. CASE restart.aborted \/ ShuttingDown \/ ~PreviousOver
  BY <1>1, AtMoves DEF Relaunch, SlotSteps
<1>2. CASE ~(restart.aborted \/ ShuttingDown \/ ~PreviousOver)
  <2> DEFINE new == [slot[r] EXCEPT !.step = "await", !.launch = launch.n + 1]
  <2>1. slot' = [slot EXCEPT ![r] = new]
    BY <1>2 DEF Relaunch
  <2>2. /\ new.step = "await" /\ new.launch = launch.n + 1
        /\ new.epoch = slot[r].epoch /\ new.attempt = slot[r].attempt
    BY DEF Typed, Slot
  <2> HIDE DEF new
  <2> QED BY <1>2, <2>1, <2>2 DEF Relaunch, Typed
<1> QED BY <1>1, <1>2

\* The awaited launch is up, or it has failed.
LEMMA RecoveredMoves ==
    ASSUME Typed, NEW r \in Slots, Recovered(r)
    PROVE  \/ EndRecovery(r)
           \/ /\ task[slot[r].launch] = "failed" /\ slot'[r].step = "failed" /\ slot'[r].launch = 0
              /\ slot'[r].epoch = slot[r].epoch /\ slot'[r].attempt = slot[r].attempt
              /\ \A k \in Slots : k /= r => slot'[k] = slot[k]
<1> DEFINE new == [slot[r] EXCEPT !.step = "failed", !.launch = 0]
<1>1. CASE slot' = [slot EXCEPT ![r] = new] /\ task[slot[r].launch] = "failed"
  <2>1. new.step = "failed" /\ new.epoch = slot[r].epoch /\ new.attempt = slot[r].attempt /\ new.launch = 0
    BY DEF Typed, Slot
  <2> HIDE DEF new
  <2> QED BY <1>1, <2>1 DEF Typed
<1> QED BY <1>1 DEF Recovered

\* A failed attempt is followed by the next one, or by none.
LEMMA TryAgainMoves ==
    ASSUME Typed, NEW r \in Slots, TryAgain(r)
    PROVE  \/ EndRecovery(r)
           \/ /\ slot'[r].step = "announce" /\ slot'[r].launch = slot[r].launch
              /\ slot'[r].epoch = slot[r].epoch /\ slot'[r].attempt = slot[r].attempt + 1
              /\ \A k \in Slots : k /= r => slot'[k] \in {slot[k], IdleSlot}
<1> DEFINE new == [slot[r] EXCEPT !.step = "announce", !.attempt = @ + 1]
<1>1. CASE MayTryAgain(r)
  <2>1. slot' = [k \in Slots |-> IF k = r THEN new ELSE IF k = mapped THEN IdleSlot ELSE slot[k]]
    BY <1>1 DEF TryAgain
  <2>2. /\ new.step = "announce" /\ new.launch = slot[r].launch
        /\ new.epoch = slot[r].epoch /\ new.attempt = slot[r].attempt + 1
    BY DEF Typed, Slot
  <2> HIDE DEF new
  <2> QED BY <2>1, <2>2
<1> QED BY <1>1 DEF TryAgain

\* A recovery keeps its epoch through all its steps, and touches another one
\* only to clear its timer.
LEMMA RecoverMoves ==
    ASSUME Typed, NEW r \in Slots, Recover(r)
    PROVE  /\ \A k \in Slots : k /= r => slot'[k] \in {slot[k], IdleSlot}
           /\ slot'[r] = IdleSlot \/ slot'[r].epoch = slot[r].epoch
           /\ slot[r].step /= "idle"
           /\ UNCHANGED <<epoch, asked, stopper, starter>>
<1> USE DEF SlotSteps, RecoverOnly
<1>1. CASE Fire(r)
  BY <1>1, AtMoves, EndMoves DEF Fire
<1>2. CASE Resume(r)
  BY <1>2, AtMoves, EndMoves DEF Resume
<1>3. CASE Preflighted(r)
  BY <1>3, AtMoves DEF Preflighted
<1>4. CASE Relaunch(r)
  BY <1>4, RelaunchMoves DEF Relaunch
<1>5. CASE Recovered(r)
  BY <1>5, RecoveredMoves, EndMoves DEF Recovered
<1>6. CASE TryAgain(r)
  BY <1>6, TryAgainMoves, EndMoves DEF TryAgain
<1>7. CASE Reschedule(r)
  BY <1>7, AtMoves, EndMoves DEF Reschedule
<1> QED BY <1>1, <1>2, <1>3, <1>4, <1>5, <1>6, <1>7 DEF Recover

\* Who writes the slots and the epoch.
LEMMA SlotsMove ==
    ASSUME Typed, [RecoveryNext]_recoveryVars
    PROVE  \/ UNCHANGED <<slot, epoch>>
           \/ (AskStop \/ ShutDown) /\ CancelRestart
           \/ Decide /\ ClearTimer /\ UNCHANGED epoch
           \/ Announce /\ UNCHANGED epoch
           \/ \E r \in Slots : Recover(r)
<1>1. CASE Activate
  BY <1>1, ActivateMoves DEF NoRecovery, LaunchOnly
<1>2. CASE Finish
  BY <1>2 DEF Finish, Settle, Report, Decide, Announce, NoRecovery, LaunchOnly
<1>3. CASE AskStop \/ ShutDown
  BY <1>3 DEF AskStop, ShutDown
<1>4. CASE AskStart \/ Drain \/ UNCHANGED recoveryVars \/ \E l \in Launches : Exit(l)
  BY <1>4 DEF AskStart, StartOnly, Drain, recoveryVars, Exit, LaunchOnly, NoRecovery
<1>5. CASE StartServer
  BY <1>5 DEF StartServer, PreflightStart, MarkStarting, CallStart, TaskEnded, AnswerStart,
     StartOnly
<1>6. CASE StopServer
  BY <1>6 DEF StopServer, ReadStatus, MarkStopping, CallStop, AnswerStop, StopOnly
<1>7. CASE \E c \in Callers : StopProcess(c)
  BY <1>7 DEF StopProcess, StopSettled, StopProjected, StopSideOnly
<1> QED BY <1>1, <1>2, <1>3, <1>4, <1>5, <1>6, <1>7 DEF RecoveryNext

\* Epochs only grow, and what is given an epoch gets the present one.
LEMMA NextEpochs ==
    ASSUME Typed, Epochs, [RecoveryNext]_recoveryVars
    PROVE  Epochs'
<1>0. /\ epoch \in Nat /\ launch.epoch \in Nat /\ \A k \in Slots : slot[k].epoch \in Nat
      /\ IdleSlot.epoch = 0
  BY IdleTyped DEF Typed, Slot, Launch
<1>1. epoch' \in {epoch, epoch + 1}
  BY SlotsMove, RecoverMoves, CancelMoves DEF Decide, Announce
<1>2. launch'.epoch \in {launch.epoch, epoch, 0}
  BY ActivateMoves, FinishMoves, OtherMoves, NewLaunchMoves DEF Moved
<1>3. \A k \in Slots : slot'[k].epoch \in {slot[k].epoch, epoch, 0}
  <2>1. CASE UNCHANGED slot
    BY <2>1
  <2>2. CASE CancelRestart \/ ClearTimer
    BY <1>0, <2>2, CancelMoves, ClearMoves
  <2>3. CASE Announce
    BY <2>3, AnnounceMoves
  <2>4. CASE \E r \in Slots : Recover(r)
    BY <1>0, <2>4, RecoverMoves
  <2> QED BY <2>1, <2>2, <2>3, <2>4, SlotsMove
<1> QED BY <1>0, <1>1, <1>2, <1>3 DEF Epochs

\* A recovery is announced by a launch that has failed.
LEMMA NextUntouched ==
    ASSUME BaseInv, Untouched, [RecoveryNext]_recoveryVars
    PROVE  Untouched'
<1>0. Typed /\ Begun /\ launch.n \in Nat
  BY Bounds DEF BaseInv, Typed, Launch
<1> SUFFICES ASSUME launch'.n = 0, NEW k \in Slots PROVE slot'[k].step = "idle"
  BY DEF Untouched
<1>1. launch.n = 0
  BY <1>0, ActivateMoves, FinishMoves, OtherMoves, NewLaunchMoves DEF Moved
<1>2. launch.step = "none" /\ \A r \in Slots : slot[r].step = "idle"
  BY <1>0, <1>1 DEF Begun, Untouched
<1>3. ~Decide /\ ~Announce
  BY <1>2 DEF Decide, Announce
<1>4. ~ \E r \in Slots : Recover(r)
  BY <1>0, <1>2, RecoverMoves
<1> QED BY <1>0, <1>2, <1>3, <1>4, SlotsMove, CancelMoves, IdleTyped

\* The slot that holds the server is the one that took it.
LEMMA NextHeld ==
    ASSUME Typed, Held, [RecoveryNext]_recoveryVars
    PROVE  Held'
<1> SUFFICES ASSUME NEW k \in Slots, slot'[k].step \in {"preflight", "stopping"} PROVE restart'.by = k
  BY DEF Held
<1>1. ASSUME NEW r \in Slots, Recover(r) PROVE restart'.by = k
  <2>1. CASE k = r
    <3>1. slot'[k].step /= "idle"
      OBVIOUS
    <3>2. CASE Resume(r)
      BY <2>1, <3>1, <3>2, AtMoves, EndMoves, IdleTyped DEF Resume, SlotSteps
    <3>3. CASE Preflighted(r)
      BY <2>1, <3>1, <3>3, AtMoves DEF Preflighted, SlotSteps, Held
    <3>4. CASE ~Resume(r) /\ ~Preflighted(r)
      <4>1. slot'[r].step \notin {"preflight", "stopping"}
        BY <1>1, <3>4, AtMoves, EndMoves, IdleTyped, RelaunchMoves, RecoveredMoves,
           TryAgainMoves DEF Recover, Fire, Reschedule, SlotSteps
      <4> QED BY <2>1, <4>1
    <3> QED BY <3>2, <3>3, <3>4
  <2>2. CASE k /= r
    <3>1. slot'[k] = slot[k] /\ restart.by = k
      BY <1>1, <2>2, RecoverMoves, IdleTyped DEF Held
    <3>2. restart.by /= 0 /\ restart.by /= r
      BY <2>2, <3>1, Bounds DEF Slots
    <3> QED BY <1>1, <3>1, <3>2 DEF Held, Recover, Fire, Resume, Preflighted, Relaunch,
       Recovered, TryAgain, Reschedule
  <2> QED BY <2>1, <2>2
<1>2. CASE ~ \E r \in Slots : Recover(r)
  <2>1. slot[k].step \in {"preflight", "stopping"}
    BY <1>2, SlotsMove, CancelMoves, ClearMoves, AnnounceMoves, IdleTyped
  <2>2. restart'.by = restart.by
    BY <1>2, AbortTyped DEF RecoveryNext, AskStart, AskStop, StartOnly, Drain, recoveryVars,
       Exit, LaunchOnly, ShutDown, Activate, Finish, Store, Prepare, BecomeReady, RecordLaunch,
       Project, Publish, Settle, Report, Decide, Announce, StopServer, ReadStatus, MarkStopping,
       CallStop, AnswerStop, StopOnly, StopProcess, StopSettled, StopProjected, StopSideOnly,
       StartServer, PreflightStart, MarkStarting, CallStart, TaskEnded, AnswerStart, Typed
  <2> QED BY <2>1, <2>2 DEF Held
<1> QED BY <1>1, <1>2

-----------------------------------------------------------------------------
\* A stop that is asked is under way until it is answered.
StopStage ==
    /\ asked = "stop" => stopper /= "idle"
    /\ asked = "stopped" => stopper = "idle"

\* stop() has aborted the restart that was under way.
Called == asked = "stopped" \/ (asked = "stop" /\ stopper = "stop")

\* After cancelRestart() and the abort, the start under way is aborted and every
\* recovery past its timer belongs to an earlier epoch.
Outdated ==
    asked \in {"stop", "stopped"} =>
        /\ starter.step = "idle" \/ starter.aborted
        /\ \A r \in Slots : slot[r].step \in {"idle", "timer"} \/ slot[r].epoch /= epoch

\* The restart that held the server when stop() was called is aborted.
RestartAborted == Called => restart.by = 0 \/ restart.aborted

\* The latest launch is over and recorded as stopped.
LaunchStopped == PreviousOver /\ (launch.n /= 0 => status[launch.n] = "stopped")

\* The user's stop() waits for the latest launch and returns when it is stopped.
StopAwaits ==
    asked = "stop" /\ stopper = "stop" =>
        /\ stopOf["user"].step \in {"wait", "project", "returned"}
        /\ stopOf["user"].on = launch.n
        /\ stopOf["user"].step \in Returning => LaunchStopped

\* A stop that was carried out leaves the launch stopped until the next start.
StoppedStays == asked = "stopped" => LaunchStopped

\* The inductive invariant behind StopWins.
StopInv == /\ Epochs /\ Untouched /\ Held /\ StopStage
           /\ Outdated /\ RestartAborted /\ StopAwaits /\ StoppedStays

\* Who asks and who answers.
LEMMA AskedMoves ==
    ASSUME Typed, [RecoveryNext]_recoveryVars, ~AskStart, ~AskStop, ~StopServer
    PROVE  UNCHANGED <<asked, stopper>>
BY DEF RecoveryNext, StartOnly, Drain, recoveryVars, Exit, LaunchOnly, ShutDown, Activate,
   Finish, Store, Prepare, BecomeReady, RecordLaunch, Project, Publish, Settle, Report, Decide,
   Announce, StopProcess, StopSettled, StopProjected, StopSideOnly, StartServer, PreflightStart,
   MarkStarting, CallStart, TaskEnded, AnswerStart, Recover, Fire, Resume, Preflighted,
   Relaunch, Recovered, TryAgain, Reschedule, RecoverOnly

\* The stages of a stop.
LEMMA NextStage ==
    ASSUME Typed, StopStage, [RecoveryNext]_recoveryVars
    PROVE  StopStage'
<1>1. CASE AskStart \/ AskStop
  BY <1>1 DEF AskStart, AskStop, StartOnly, StopStage
<1>2. CASE StopServer
  BY <1>2 DEF StopServer, ReadStatus, MarkStopping, CallStop, AnswerStop, StopOnly, Answer,
     StopStage
<1>3. CASE ~AskStart /\ ~AskStop /\ ~StopServer
  BY <1>3, AskedMoves DEF StopStage
<1> QED BY <1>1, <1>2, <1>3

\* Once the stop of a user has aborted what was under way, nothing launches.
LEMMA NothingLaunched ==
    ASSUME BaseInv, StopInv, Called, [RecoveryNext]_recoveryVars
    PROVE  launch'.n = launch.n /\ (PreviousOver => PreviousOver')
<1>0. Typed
  BY DEF BaseInv
<1>1. starter.step = "idle" \/ starter.aborted
  BY DEF StopInv, Outdated, Called
<1>2. \A r \in Slots : slot[r].step = "stopping" => restart.aborted
  BY Bounds DEF StopInv, Held, RestartAborted, Slots
<1>3. CASE Activate
  BY <1>0, <1>3, ActivateMoves DEF Moved, PreviousOver, Going
<1>4. CASE Finish
  BY <1>0, <1>4, FinishMoves DEF PreviousOver
<1>5. CASE ~Activate /\ ~Finish
  BY <1>0, <1>1, <1>2, <1>5, OtherMoves DEF Moved, PreviousOver
<1> QED BY <1>3, <1>4, <1>5

\* A stopped launch stays stopped: nothing launches, settles or reports.
LEMMA StoppedKept ==
    ASSUME BaseInv, StopInv, Called, LaunchStopped, [RecoveryNext]_recoveryVars
    PROVE  LaunchStopped'
<1>0. Typed /\ launch'.n = launch.n /\ PreviousOver'
  BY NothingLaunched DEF BaseInv, LaunchStopped
<1> SUFFICES ASSUME launch.n /= 0 PROVE status'[launch.n] = "stopped"
  BY <1>0 DEF LaunchStopped
<1>1. launch.n \in Launches /\ status[launch.n] = "stopped" /\ status \in [Launches -> Statuses]
  BY <1>0, Bounds DEF Typed, Launch, Launches, LaunchStopped
<1>2. ~NewLaunch
  BY <1>0, NewLaunchMoves, Bounds DEF Typed, Launch
<1>3. ~Activate /\ ~Finish
  BY <1>0, ActivateMoves, FinishMoves DEF LaunchStopped, PreviousOver, Going
<1>4. ASSUME NEW c \in Callers, StopProcess(c) PROVE status'[launch.n] = "stopped"
  BY <1>1, <1>4 DEF StopProcess, StopSettled, StopProjected
<1>5. CASE ~ \E c \in Callers : StopProcess(c)
  <2>1. UNCHANGED status
    BY <1>2, <1>3, <1>5 DEF RecoveryNext, AskStart, AskStop, Drain, recoveryVars, Exit,
       ShutDown, StopServer, ReadStatus, MarkStopping, CallStop, AnswerStop, StopOnly,
       StartServer, PreflightStart, MarkStarting, CallStart, TaskEnded, AnswerStart, Recover,
       Fire, Resume, Preflighted, Relaunch, Recovered, TryAgain, Reschedule, LaunchKept
  <2> QED BY <1>1, <2>1
<1> QED BY <1>4, <1>5

\* No step after the cancellation belongs to the present epoch: a timer that fires
\* while the stop is carried out is what TimersOutlastStops excludes, and one that
\* fires later finds the launch stopped.
LEMMA NextOutdated ==
    ASSUME BaseInv, StopInv, TimersOutlastStops, [RecoveryNext]_recoveryVars
    PROVE  Outdated'
<1>0. Typed /\ IdleSlot.step = "idle"
  BY IdleTyped DEF BaseInv
<1> SUFFICES ASSUME asked' \in {"stop", "stopped"}
             PROVE  /\ starter'.step = "idle" \/ starter'.aborted
                    /\ \A k \in Slots : slot'[k].step \in {"idle", "timer"} \/ slot'[k].epoch /= epoch'
  BY DEF Outdated
<1>1. CASE AskStop \/ (ShutDown /\ CancelRestart)
  <2>1. CancelRestart /\ AbortStart
    BY <1>1 DEF AskStop, ShutDown
  <2>2. epoch \in Nat /\ \A k \in Slots : slot[k].epoch \in Nat /\ slot[k].epoch <= epoch
    BY <1>0 DEF Typed, Slot, StopInv, Epochs
  <2>3. \A k \in Slots : slot'[k].step = "idle" \/ slot'[k].epoch /= epoch'
    BY <1>0, <2>1, <2>2, CancelMoves
  <2> QED BY <1>0, <2>1, <2>3, AbortStartTyped DEF Typed
<1>2. CASE ~AskStop /\ ~(ShutDown /\ CancelRestart)
  <2>1. asked \in {"stop", "stopped"} /\ ~AskStart
    BY <1>2, AskedMoves, <1>0 DEF AskStart, StopServer, ReadStatus, MarkStopping, CallStop,
       AnswerStop, Answer, StopOnly
  <2>2. /\ starter.step = "idle" \/ starter.aborted
        /\ \A k \in Slots : slot[k].step \in {"idle", "timer"} \/ slot[k].epoch /= epoch
    BY <2>1 DEF StopInv, Outdated
  <2>3. starter'.step = "idle" \/ starter'.aborted
    <3>1. CASE StartServer
      <4>1. starter \in StartCall /\ starter.aborted
        BY <1>0, <2>2, <3>1 DEF Typed, StartServer, PreflightStart, MarkStarting, CallStart,
           TaskEnded, AnswerStart
      <4> QED BY <3>1, <4>1, StartAtTyped, StarterTyped
              DEF StartServer, PreflightStart, MarkStarting, CallStart, TaskEnded, AnswerStart
    <3>2. CASE ShutDown
      BY <1>0, <3>2, AbortStartTyped DEF ShutDown, Typed
    <3>3. CASE ~StartServer /\ ~ShutDown
      <4>1. UNCHANGED starter
        BY <1>2, <2>1, <3>3 DEF RecoveryNext, Drain, recoveryVars, Exit, LaunchOnly, Activate,
           Finish, Store, Prepare, BecomeReady, RecordLaunch, Project, Publish, Settle, Report,
           Decide, Announce, StopServer, ReadStatus, MarkStopping, CallStop, AnswerStop,
           StopOnly, StopProcess, StopSettled, StopProjected, StopSideOnly, Recover, Fire,
           Resume, Preflighted, Relaunch, Recovered, TryAgain, Reschedule, RecoverOnly
      <4> QED BY <2>2, <4>1
    <3> QED BY <3>1, <3>2, <3>3
  <2>4. ASSUME NEW k \in Slots PROVE slot'[k].step \in {"idle", "timer"} \/ slot'[k].epoch /= epoch'
    <3>1. CASE UNCHANGED <<slot, epoch>>
      BY <2>2, <3>1
    <3>2. CASE ClearTimer /\ UNCHANGED epoch
      BY <1>0, <2>2, <3>2, ClearMoves
    <3>3. CASE Announce /\ UNCHANGED epoch
      BY <1>0, <2>2, <3>3, AnnounceMoves
    <3>4. ASSUME NEW r \in Slots, Recover(r)
          PROVE  slot'[k].step \in {"idle", "timer"} \/ slot'[k].epoch /= epoch'
      <4>1. epoch' = epoch /\ (k /= r => slot'[k] \in {slot[k], IdleSlot})
            /\ (slot'[r] = IdleSlot \/ slot'[r].epoch = slot[r].epoch) /\ slot[r].step /= "idle"
        BY <1>0, <3>4, RecoverMoves
      <4>2. CASE k /= r
        BY <1>0, <2>2, <4>1, <4>2
      <4>3. CASE k = r /\ slot[r].step /= "timer"
        BY <1>0, <2>2, <4>1, <4>3
      <4>4. CASE k = r /\ slot[r].step = "timer"
        <5>1. Fire(r)
          BY <3>4, <4>4 DEF Recover, Fire, Resume, Preflighted, Relaunch, Recovered, TryAgain,
             Reschedule
        <5>2. asked = "stopped"
          BY <2>1, <5>1 DEF Fire, StopInv, StopStage
        <5>3. launch.n /= 0
          BY <4>1 DEF StopInv, Untouched
        <5>4. ~StillDue(r)
          BY <5>2, <5>3 DEF StopInv, StoppedStays, LaunchStopped, StillDue
        <5>5. slot'[r] = IdleSlot
          BY <1>0, <5>1, <5>4, EndMoves DEF Fire
        <5> QED BY <1>0, <4>4, <5>5
      <4> QED BY <4>2, <4>3, <4>4
    <3> QED BY <1>0, <1>2, <3>1, <3>2, <3>3, <3>4, SlotsMove
  <2> QED BY <2>3, <2>4
<1> QED BY <1>1, <1>2

\* No restart takes the server after the abort.
LEMMA NextAborted ==
    ASSUME BaseInv, StopInv, [RecoveryNext]_recoveryVars
    PROVE  RestartAborted'
<1>0. Typed /\ restart \in Restart
  BY DEF BaseInv, Typed
<1> SUFFICES ASSUME Called' PROVE restart'.by = 0 \/ restart'.aborted
  BY DEF RestartAborted
<1>1. CASE CallStop \/ ShutDown
  BY <1>0, <1>1, AbortTyped DEF CallStop, ShutDown
<1>2. CASE ~CallStop /\ ~ShutDown
  <2>1. Called
    BY <1>0, <1>2, AskedMoves DEF Called, AskStart, AskStop, StartOnly, StopServer, ReadStatus,
       MarkStopping, AnswerStop, StopOnly, Answer
  <2>2. restart.by = 0 \/ restart.aborted
    BY <2>1 DEF StopInv, RestartAborted
  <2>3. \A r \in Slots : ~(slot[r].step = "log" /\ slot[r].epoch = epoch)
    BY <2>1 DEF StopInv, Outdated, Called
  <2>4. UNCHANGED restart \/ Release
    BY <1>2, <2>3 DEF RecoveryNext, AskStart, AskStop, StartOnly, Drain, recoveryVars, Exit,
       LaunchOnly, Activate, Finish, Store, Prepare, BecomeReady, RecordLaunch, Project,
       Publish, Settle, Report, Decide, Announce, StopServer, ReadStatus, MarkStopping,
       AnswerStop, StopOnly, StopProcess, StopSettled, StopProjected, StopSideOnly, StartServer,
       PreflightStart, MarkStarting, CallStart, TaskEnded, AnswerStart, Recover, Fire, Resume,
       Preflighted, Relaunch, Recovered, TryAgain, Reschedule, RecoverOnly
  <2> QED BY <2>2, <2>4 DEF Release
<1> QED BY <1>1, <1>2

\* The stop waits for the launch it has closed: no other one begins meanwhile.
LEMMA NextAwaits ==
    ASSUME BaseInv, StopInv, [RecoveryNext]_recoveryVars
    PROVE  StopAwaits'
<1>0. Typed /\ Begun /\ "user" \in Callers
  BY DEF BaseInv, Callers
<1> SUFFICES ASSUME asked' = "stop", stopper' = "stop"
             PROVE  /\ stopOf'["user"].step \in {"wait", "project", "returned"}
                    /\ stopOf'["user"].on = launch'.n
                    /\ stopOf'["user"].step \in Returning => LaunchStopped'
  BY DEF StopAwaits
<1>1. CASE CallStop
  <2>1. Moved(launch') /\ launch'.step = launch.step /\ stopOf'["user"].on = launch.n
        /\ stopOf'["user"].step = IF launch.n = 0 THEN "returned" ELSE "wait"
    BY <1>0, <1>1, EnterStopMoves DEF CallStop
  <2> QED BY <1>0, <2>1 DEF Moved, Begun, LaunchStopped, PreviousOver, Returning
<1>2. CASE ~CallStop
  <2>1. asked = "stop" /\ stopper = "stop" /\ ~AnswerStop
    BY <1>0, <1>2, AskedMoves DEF AskStart, AskStop, StartOnly, StopServer, ReadStatus,
       MarkStopping, AnswerStop, StopOnly, Answer
  <2>2. /\ stopOf["user"].step \in {"wait", "project", "returned"}
        /\ stopOf["user"].on = launch.n
        /\ stopOf["user"].step \in Returning => LaunchStopped
    BY <2>1 DEF StopInv, StopAwaits
  <2>3. launch'.n = launch.n /\ (LaunchStopped => LaunchStopped')
    BY <2>1, NothingLaunched, StoppedKept DEF Called
  <2>4. CASE ~StopProcess("user")
    BY <1>0, <1>2, <2>1, <2>2, <2>3, <2>4, StopCallKept
  <2>5. CASE StopProcess("user")
    <3>1. stopOf'["user"].on = launch.n /\ stopOf'["user"].step \in Returning /\ launch' = launch
      BY <1>0, <2>2, <2>5, StopProcessMoves
    <3>2. CASE stopOf["user"].step = "project"
      BY <2>2, <2>3, <3>1, <3>2 DEF Returning
    <3>3. CASE stopOf["user"].step = "wait"
      <4>1. launch.step = "done"
        BY <1>0, <2>2, <2>5, <3>3, StopProcessMoves DEF LaunchIsOver
      <4>2. launch.n \in Launches /\ status \in [Launches -> Statuses]
        BY <1>0, <4>1, Bounds DEF Begun, Typed, Launch, Launches
      <4>3. status'[launch.n] = "stopped"
        BY <2>2, <2>5, <3>3, <4>2 DEF StopProcess, StopSettled, StopProjected
      <4> QED BY <3>1, <4>1, <4>3 DEF LaunchStopped, PreviousOver, Returning
    <3> QED BY <1>0, <2>5, <3>2, <3>3, StopProcessMoves
  <2> QED BY <2>4, <2>5
<1> QED BY <1>1, <1>2

\* What the stop has awaited holds when it is answered, and afterwards.
LEMMA NextStopped ==
    ASSUME BaseInv, StopInv, [RecoveryNext]_recoveryVars
    PROVE  StoppedStays'
<1> SUFFICES ASSUME asked' = "stopped" PROVE LaunchStopped'
  BY DEF StoppedStays
<1>0. Typed
  BY DEF BaseInv
<1>1. CASE AnswerStop /\ asked = "stop"
  <2>1. LaunchStopped
    BY <1>1 DEF AnswerStop, StopInv, StopAwaits, Returning
  <2>2. Called
    BY <1>1 DEF AnswerStop, Called
  <2> QED BY <2>1, <2>2, StoppedKept
<1>2. CASE ~(AnswerStop /\ asked = "stop")
  <2>1. asked = "stopped"
    BY <1>0, <1>2, AskedMoves DEF AskStart, AskStop, StopServer, ReadStatus, MarkStopping,
       CallStop, AnswerStop, StopOnly, Answer
  <2> QED BY <2>1, StoppedKept DEF StopInv, StoppedStays, Called
<1> QED BY <1>1, <1>2

\* StopWins: once stopServer() has been carried out no child serves until the next
\* start.  The restart delay is longer than any stop: without that a timer armed
\* before the stop can fire inside it and escape the cancellation
\* (MCManagedRecoveryFast).
THEOREM StopWinsHolds == ASSUME TimersOutlastStops PROVE RecoverySpec => []StopWins
<1>1. RecoveryInit => StopInv
  BY InitTyped, IdleTyped DEF RecoveryInit, StopInv, Epochs, Untouched, Held, StopStage,
     Outdated, RestartAborted, Called, StopAwaits, StoppedStays, NoLaunch
<1>2. BaseInv /\ StopInv /\ [RecoveryNext]_recoveryVars => StopInv'
  BY NextEpochs, NextUntouched, NextHeld, NextStage, NextOutdated, NextAborted, NextAwaits,
     NextStopped DEF StopInv, BaseInv
<1>3. BaseInv /\ StopInv => StopWins
  BY DEF BaseInv, ChildIsLatest, StopInv, StoppedStays, LaunchStopped, PreviousOver, StopWins,
     Serving
<1> QED BY <1>1, <1>2, <1>3, BaseInvariance, PTL DEF RecoverySpec

-----------------------------------------------------------------------------
(* RecoveryBounded: one valid restart, and its attempt *)

\* One step of a recovery: where it goes, and what becomes of the counters.
LEMMA RecoverSteps ==
    ASSUME Typed, NEW r \in Slots, Recover(r)
    PROVE  \/ slot'[r] = IdleSlot /\ UNCHANGED <<attempts, recovered>>
           \/ /\ slot[r].step = "timer" /\ slot'[r].step = "log" /\ slot[r].epoch = epoch
              /\ attempts' = slot[r].attempt /\ recovered' = recovered
              /\ slot'[r].attempt = slot[r].attempt /\ slot'[r].launch = slot[r].launch
           \/ /\ \/ slot[r].step = "log" /\ slot'[r].step = "preflight" /\ slot[r].epoch = epoch
                 \/ slot[r].step = "preflight" /\ slot'[r].step = "stopping"
                 \/ slot[r].step \in {"log", "preflight", "stopping"} /\ slot'[r].step = "failed"
                 \/ slot[r].step = "announce" /\ slot'[r].step = "timer"
              /\ UNCHANGED <<attempts, recovered>>
              /\ slot'[r].attempt = slot[r].attempt /\ slot'[r].launch = slot[r].launch
           \/ /\ slot[r].step = "stopping" /\ slot'[r].step = "await" /\ NewLaunch
              /\ attempts' = attempts
              /\ recovered' = IF slot[r].epoch = epoch THEN recovered + 1 ELSE recovered
              /\ slot'[r].attempt = slot[r].attempt /\ slot'[r].launch = launch.n + 1
           \/ /\ slot[r].step = "await" /\ slot'[r].step = "failed" /\ task[slot[r].launch] = "failed"
              /\ UNCHANGED <<attempts, recovered>>
              /\ slot'[r].attempt = slot[r].attempt /\ slot'[r].launch = 0
           \/ /\ slot[r].step = "failed" /\ slot'[r].step = "announce"
              /\ UNCHANGED <<attempts, recovered>>
              /\ slot'[r].attempt = slot[r].attempt + 1 /\ slot'[r].launch = slot[r].launch
<1> USE DEF SlotSteps
<1>1. CASE Fire(r)
  BY <1>1, AtMoves, EndMoves DEF Fire, StillDue, LaunchKept
<1>2. CASE Resume(r)
  BY <1>2, AtMoves, EndMoves DEF Resume, LaunchKept
<1>3. CASE Preflighted(r)
  BY <1>3, AtMoves DEF Preflighted
<1>4. CASE Relaunch(r)
  BY <1>4, RelaunchMoves DEF Relaunch
<1>5. CASE Recovered(r)
  BY <1>5, RecoveredMoves, EndMoves DEF Recovered, LaunchKept
<1>6. CASE TryAgain(r)
  BY <1>6, TryAgainMoves, EndMoves DEF TryAgain, LaunchKept
<1>7. CASE Reschedule(r)
  BY <1>7, AtMoves, EndMoves DEF Reschedule, LaunchKept
<1> QED BY <1>1, <1>2, <1>3, <1>4, <1>5, <1>6, <1>7 DEF Recover

\* The launch that a recovery awaits exists.
Known == \A r \in Slots : /\ slot[r].launch <= launch.n
                          /\ slot[r].step = "await" => slot[r].launch /= 0

\* A launch under way has not failed; one whose failure is decided upon was up.
Undecided ==
    ~PreviousOver => /\ task[launch.n] \in {"pending", "up"}
                     /\ launch.step \in {"decide", "announce"} => task[launch.n] = "up"

\* A restart that may still launch the server in the present epoch.
Valid(r) == /\ slot[r].step /= "idle" /\ slot[r].epoch = epoch
            /\ ~(slot[r].step = "await" /\ task[slot[r].launch] = "up")

\* There is one such restart at most.
OneRecovery == \A r, k \in Slots : Valid(r) /\ Valid(k) => r = k

\* While a launch is under way, only the restart that awaits it is valid.
RecoversLatest ==
    \A r \in Slots : ~PreviousOver /\ Valid(r) =>
        slot[r].step = "await" /\ slot[r].launch = launch.n

\* A restart that holds the server finds the launch over, and is alone.
RestartAlone ==
    \A r \in Slots : slot[r].step \in {"preflight", "stopping"} =>
        PreviousOver /\ \A k \in Slots : Valid(k) => k = r

\* How far the launches by recovery are behind the attempt of a valid restart.
CountOf(r) ==
    /\ slot[r].step \in {"timer", "announce", "log", "preflight", "stopping"} =>
         recovered < slot[r].attempt
    /\ slot[r].step \in {"log", "preflight", "stopping"} => slot[r].attempt <= attempts
    /\ slot[r].step \in {"await", "failed"} => recovered <= slot[r].attempt

\* The launches by recovery are behind the attempts, behind the attempt that a
\* failure announces, and behind those of the valid restarts.
Counted ==
    /\ recovered <= attempts
    /\ launch.step = "announce" /\ launch.epoch = epoch => recovered < launch.attempt
    /\ \A r \in Slots : Valid(r) => CountOf(r)

\* The inductive invariant behind RecoveryBounded.
CountInv == /\ Epochs /\ Held /\ Known /\ Undecided
            /\ OneRecovery /\ RecoversLatest /\ RestartAlone /\ Counted

\* A recovery awaits the launch it has made.
LEMMA NextKnown ==
    ASSUME Typed, Known, [RecoveryNext]_recoveryVars
    PROVE  Known'
<1>0. launch.n \in Nat /\ IdleSlot.launch = 0 /\ IdleSlot.step = "idle"
      /\ \A k \in Slots : slot[k].launch \in Nat
  BY IdleTyped, Bounds DEF Typed, Launch, Slot
<1>1. launch'.n = launch.n \/ (launch'.n = launch.n + 1 /\ NewLaunch)
  BY ActivateMoves, FinishMoves, OtherMoves, NewLaunchMoves DEF Moved
<1> SUFFICES ASSUME NEW k \in Slots
             PROVE  slot'[k].launch <= launch'.n /\ (slot'[k].step = "await" => slot'[k].launch /= 0)
  BY DEF Known
<1>2. slot[k].launch <= launch.n /\ (slot[k].step = "await" => slot[k].launch /= 0)
  BY DEF Known
<1>3. CASE slot'[k] \in {slot[k], IdleSlot}
  BY <1>0, <1>1, <1>2, <1>3
<1>4. CASE Announce
  BY <1>0, <1>1, <1>2, <1>4, AnnounceMoves
<1>5. CASE Recover(k)
  BY <1>0, <1>1, <1>2, <1>5, RecoverSteps, NewLaunchMoves
<1> QED BY <1>3, <1>4, <1>5, SlotsMove, CancelMoves, ClearMoves, RecoverMoves

\* Who writes the tasks.
LEMMA TaskMoves ==
    ASSUME Typed, Undecided, [RecoveryNext]_recoveryVars, Begun
    PROVE  \/ UNCHANGED task
           \/ Activate /\ task' = [task EXCEPT ![launch.n] = "up"]
           \/ Finish /\ launch'.step = "done"
              /\ task' = [task EXCEPT ![launch.n] = IF @ = "pending" THEN "failed" ELSE @]
           \/ NewLaunch
<1>1. CASE Activate
  BY <1>1 DEF Activate, Store, Prepare, BecomeReady, RecordLaunch, Project, Publish
<1>2. CASE Finish
  BY <1>2, StepMoves DEF Finish, Settle, Report, Decide, Announce, LaunchEnds, Typed,
     LaunchSteps
<1>3. CASE ~Activate /\ ~Finish
  BY <1>3 DEF RecoveryNext, AskStart, AskStop, Drain, recoveryVars, Exit, ShutDown, StopServer,
     ReadStatus, MarkStopping, CallStop, AnswerStop, StopOnly, StopProcess, StopSettled,
     StopProjected, StopSideOnly, StartServer, PreflightStart, MarkStarting, CallStart,
     TaskEnded, AnswerStart, Recover, Fire, Resume, Preflighted, Relaunch, Recovered, TryAgain,
     Reschedule, LaunchKept
<1> QED BY <1>1, <1>2, <1>3

\* A task that somebody awaits outlives its launch.
LEMMA NewLaunchTask ==
    ASSUME Typed, NewLaunch
    PROVE  /\ task'[launch.n + 1] = "pending"
           /\ \A l \in Launches : l /= launch.n + 1 /\ Awaited(l) => task'[l] = task[l]
BY DEF NewLaunch

\* A task that has ended keeps its result for who awaits it.
LEMMA UpStays ==
    ASSUME BaseInv, Known, Undecided, [RecoveryNext]_recoveryVars,
           NEW k \in Slots, slot[k].step = "await", task[slot[k].launch] = "up"
    PROVE  task'[slot[k].launch] = "up"
<1>0. Typed /\ Begun /\ launch.n \in Nat /\ slot[k].launch \in Launches /\ slot[k].launch <= launch.n
      /\ task \in [Launches -> Tasks] /\ Awaited(slot[k].launch)
  BY Bounds DEF BaseInv, Typed, Slot, Launch, Known, Launches, Awaited
<1>1. CASE NewLaunch
  BY <1>0, <1>1, NewLaunchTask
<1>2. CASE ~NewLaunch
  BY <1>0, <1>2, TaskMoves
<1> QED BY <1>1, <1>2

\* A task fails only with the end of its launch, and succeeds before it.
LEMMA NextUndecided ==
    ASSUME BaseInv, Undecided, [RecoveryNext]_recoveryVars
    PROVE  Undecided'
<1>0. Typed /\ Begun /\ launch.n \in 0..MaxLaunches /\ (launch.step /= "none" => launch.n \in Launches)
      /\ task \in [Launches -> Tasks]
  BY Bounds DEF BaseInv, Typed, Begun, Launch, Launches
<1>1. CASE Activate
  <2>1. launch'.n = launch.n /\ launch'.step \in Going /\ ~PreviousOver /\ launch.n \in Launches
    BY <1>0, <1>1, ActivateMoves DEF Moved, PreviousOver, Going
  <2>2. task'[launch.n] \in {"pending", "up"}
    BY <1>0, <1>1, <2>1 DEF Activate, Store, Prepare, BecomeReady, RecordLaunch, Project,
       Publish, Undecided
  <2> QED BY <2>1, <2>2 DEF Undecided, Going
<1>2. CASE Finish
  <2>1. launch'.n = launch.n /\ ~PreviousOver /\ launch.n \in Launches
    BY <1>0, <1>2, FinishMoves DEF PreviousOver
  <2>2. ~PreviousOver' => UNCHANGED task
    BY <1>0, <1>2, StepMoves DEF PreviousOver, Finish, Settle, Report, Decide, Announce,
       LaunchEnds, LaunchSteps, Typed
  <2>3. launch'.step \in {"decide", "announce"} => task[launch.n] = "up"
    <3>1. CASE Settle
      BY <1>0, <3>1, StepMoves DEF Settle, LaunchSteps, Typed
    <3>2. CASE Report
      BY <1>0, <3>2, StepMoves DEF Report, LaunchEnds, LaunchSteps, Typed
    <3>3. CASE Decide \/ Announce
      BY <2>1, <3>3 DEF Decide, Announce, Undecided
    <3> QED BY <1>2, <3>1, <3>2, <3>3 DEF Finish
  <2> QED BY <2>1, <2>2, <2>3 DEF Undecided
<1>3. CASE ~Activate /\ ~Finish
  <2>1. CASE NewLaunch
    BY <2>1, NewLaunchMoves, NewLaunchTask, <1>0 DEF Undecided
  <2>2. CASE ~NewLaunch
    BY <1>0, <1>3, <2>2, OtherMoves, TaskMoves DEF Undecided, Moved, PreviousOver
  <2> QED BY <2>1, <2>2
<1> QED BY <1>1, <1>2, <1>3

\* A restart that is valid after a step was so before, or is the one that the
\* step has scheduled for a failed launch.
LEMMA ValidMoves ==
    ASSUME BaseInv, Epochs, Known, Undecided, [RecoveryNext]_recoveryVars,
           NEW k \in Slots, Valid(k)'
    PROVE  /\ epoch' = epoch
           /\ \/ Valid(k) /\ (slot'[k] = slot[k] \/ Recover(k))
              \/ /\ Announce /\ slot[k].step = "idle" /\ slot'[k].step = "timer"
                 /\ launch.epoch = epoch /\ slot'[k].attempt = launch.attempt
                 /\ \A j \in Slots : j /= k => slot'[j] = slot[j]
<1>0. Typed /\ slot'[k].step /= "idle" /\ slot'[k].epoch = epoch' /\ IdleSlot.step = "idle"
      /\ slot[k].epoch \in Nat /\ epoch \in Nat /\ slot[k].epoch <= epoch
  BY IdleTyped DEF BaseInv, Valid, Typed, Slot, Epochs
<1>1. ASSUME slot'[k] = slot[k], epoch' = epoch PROVE Valid(k)
  BY <1>0, <1>1, UpStays DEF Valid
<1>2. CASE UNCHANGED <<slot, epoch>>
  BY <1>1, <1>2
<1>3. CASE CancelRestart
  BY <1>0, <1>3, CancelMoves
<1>4. CASE ClearTimer /\ UNCHANGED epoch
  BY <1>0, <1>1, <1>4, ClearMoves
<1>5. CASE Announce /\ UNCHANGED epoch
  <2>1. CASE UNCHANGED slot
    BY <1>1, <1>5, <2>1
  <2>2. CASE ~UNCHANGED slot
    <3>1. PICK r \in Slots : /\ launch.epoch = epoch
                             /\ slot[r].step = "idle" /\ slot'[r].step = "timer"
                             /\ slot'[r].attempt = launch.attempt
                             /\ \A j \in Slots : j /= r => slot'[j] = slot[j]
      BY <1>0, <1>5, <2>2, AnnounceMoves
    <3>2. CASE k = r
      BY <1>5, <3>1, <3>2
    <3>3. CASE k /= r
      BY <1>1, <1>5, <3>1, <3>3
    <3> QED BY <3>2, <3>3
  <2> QED BY <2>1, <2>2
<1>6. ASSUME NEW r \in Slots, Recover(r)
      PROVE  epoch' = epoch /\ Valid(k) /\ (slot'[k] = slot[k] \/ Recover(k))
  <2>1. epoch' = epoch
    BY <1>0, <1>6, RecoverMoves
  <2>2. CASE k /= r
    BY <1>0, <1>1, <1>6, <2>1, <2>2, RecoverMoves
  <2>3. CASE k = r
    <3>1. slot[k].step /= "idle" /\ slot[k].epoch = epoch
      BY <1>0, <1>6, <2>1, <2>3, RecoverMoves
    <3>2. ~(slot[k].step = "await" /\ task[slot[k].launch] = "up")
      BY <1>0, <1>6, <2>3, RecoverSteps
    <3> QED BY <1>6, <2>1, <2>3, <3>1, <3>2 DEF Valid
  <2> QED BY <2>2, <2>3
<1> QED BY <1>0, <1>2, <1>3, <1>4, <1>5, <1>6, SlotsMove

\* A launch whose failure is being decided upon leaves no valid restart: what
\* recovered it has succeeded.
LEMMA NothingValid ==
    ASSUME BaseInv, Undecided, RecoversLatest, launch.step \in {"decide", "announce"},
           NEW k \in Slots
    PROVE  ~Valid(k)
<1>1. ~PreviousOver /\ task[launch.n] = "up"
  BY DEF PreviousOver, Undecided
<1> QED BY <1>1 DEF RecoversLatest, Valid

\* A failure announces a restart only when no other one is valid.
LEMMA NextOne ==
    ASSUME BaseInv, Epochs, Known, Undecided, OneRecovery, RecoversLatest,
           [RecoveryNext]_recoveryVars
    PROVE  OneRecovery'
<1> SUFFICES ASSUME NEW r \in Slots, NEW k \in Slots, Valid(r)', Valid(k)', r /= k PROVE FALSE
  BY DEF OneRecovery
<1>1. CASE Valid(r) /\ Valid(k)
  BY <1>1 DEF OneRecovery
<1>2. CASE Announce
  <2>1. ~Valid(r) /\ ~Valid(k)
    BY <1>2, NothingValid DEF Announce
  <2>2. slot[k].step = "idle" /\ slot'[k].step = "timer" /\ slot'[k] = slot[k]
    BY <2>1, ValidMoves
  <2> QED BY <2>2
<1>3. CASE ~Announce
  BY <1>1, <1>3, ValidMoves
<1> QED BY <1>1, <1>2, <1>3

\* What a recovery does to the launch.
LEMMA RecoverLaunch ==
    ASSUME Typed, NEW r \in Slots, Recover(r)
    PROVE  \/ Moved(launch') /\ launch'.step = launch.step
           \/ NewLaunch /\ Relaunch(r) /\ slot[r].step = "stopping"
<1>0. UNCHANGED launch => Moved(launch') /\ launch'.step = launch.step
  BY DEF Typed, Moved
<1>1. CASE Preflighted(r)
  BY <1>0, <1>1, EnterStopMoves DEF Preflighted, Callers
<1>2. CASE Relaunch(r)
  BY <1>0, <1>2 DEF Relaunch
<1>3. CASE Fire(r) \/ Resume(r) \/ Recovered(r) \/ TryAgain(r) \/ Reschedule(r)
  BY <1>0, <1>3 DEF Fire, Resume, Recovered, TryAgain, Reschedule, LaunchKept
<1> QED BY <1>1, <1>2, <1>3 DEF Recover

\* What is over stays so until the next launch.
LEMMA OverStays ==
    ASSUME Typed, PreviousOver, [RecoveryNext]_recoveryVars, ~NewLaunch
    PROVE  PreviousOver' /\ launch'.n = launch.n
<1>1. ~Activate /\ ~Finish
  BY ActivateMoves, FinishMoves DEF PreviousOver, Going
<1> QED BY <1>1, OtherMoves DEF PreviousOver, Moved

\* Who launches the server is the restart that holds it, or a start that no valid
\* restart overlaps (StartsApart).
LEMMA NextLatest ==
    ASSUME BaseInv, Epochs, Known, Undecided, RecoversLatest, RestartAlone,
           StartsApart', [RecoveryNext]_recoveryVars
    PROVE  RecoversLatest'
<1> SUFFICES ASSUME NEW k \in Slots, ~PreviousOver', Valid(k)'
             PROVE  slot'[k].step = "await" /\ slot'[k].launch = launch'.n
  BY DEF RecoversLatest
<1>0. Typed /\ launch.n \in Nat /\ IdleSlot.step = "idle"
  BY IdleTyped, Bounds DEF BaseInv, Typed, Launch
<1>1. CASE Announce
  BY <1>0, <1>1, StepMoves DEF Announce, LaunchEnds, Typed, LaunchSteps, PreviousOver
<1>2. CASE ~Announce
  <2>1. Valid(k) /\ (slot'[k] = slot[k] \/ Recover(k))
    BY <1>2, ValidMoves
  <2>2. CASE NewLaunch
    <3>1. launch'.n = launch.n + 1 /\ launch'.step = "store" /\ ~Activate /\ ~Finish
      BY <1>0, <2>2, NewLaunchMoves, ActivateMoves, FinishMoves DEF Going
    <3>2. CASE starter' = [starter EXCEPT !.step = "await", !.launch = launch.n + 1]
      <4>1. starter'.step = "await" /\ starter'.launch = launch'.n
        BY <1>0, <3>1, <3>2 DEF Typed, StartCall
      <4> QED BY <3>1, <4>1 DEF StartsApart, Launching, Valid
    <3>3. ASSUME NEW r \in Slots, Relaunch(r), slot[r].step = "stopping"
          PROVE  slot'[k].step = "await" /\ slot'[k].launch = launch'.n
      <4>1. k = r
        BY <2>1, <3>3 DEF RestartAlone
      <4> QED BY <1>0, <3>1, <3>3, <4>1, RelaunchMoves
    <3> QED BY <1>0, <3>1, <3>2, <3>3, OtherMoves DEF Moved
  <2>3. CASE ~NewLaunch
    <3>1. ~PreviousOver
      BY <1>0, <2>3, OverStays
    <3>2. slot[k].step = "await" /\ slot[k].launch = launch.n
      BY <2>1, <3>1 DEF RecoversLatest
    <3>3. launch'.n = launch.n
      BY <1>0, <2>3, ActivateMoves, FinishMoves, OtherMoves DEF Moved
    <3>4. slot'[k] = slot[k]
      <4>1. CASE Recover(k)
        <5>1. task[slot[k].launch] /= "failed"
          BY <3>1, <3>2 DEF Undecided
        <5> QED BY <1>0, <3>2, <4>1, <5>1, RecoverSteps DEF Valid
      <4> QED BY <2>1, <4>1
    <3> QED BY <3>2, <3>3, <3>4
  <2> QED BY <2>2, <2>3
<1> QED BY <1>1, <1>2

\* A restart takes the server when the launch is over, and nothing launches or
\* fails until it gives the server back.
LEMMA NextAlone ==
    ASSUME BaseInv, Epochs, Held, Known, Undecided, OneRecovery, RecoversLatest, RestartAlone,
           [RecoveryNext]_recoveryVars
    PROVE  RestartAlone'
<1> SUFFICES ASSUME NEW k \in Slots, slot'[k].step \in {"preflight", "stopping"}
             PROVE  PreviousOver' /\ \A j \in Slots : Valid(j)' => j = k
  BY DEF RestartAlone
<1>0. Typed /\ IdleSlot.step = "idle" /\ k /= 0
  BY IdleTyped, Bounds DEF BaseInv, Slots
<1>1. ASSUME PreviousOver, UNCHANGED launch \/ ~NewLaunch,
             \A j \in Slots : Valid(j) => j = k
      PROVE  PreviousOver' /\ \A j \in Slots : Valid(j)' => j = k
  <2>1. ~Announce
    BY <1>1 DEF Announce, PreviousOver
  <2>2. PreviousOver'
    BY <1>0, <1>1, OverStays DEF PreviousOver
  <2> QED BY <1>1, <2>1, <2>2, ValidMoves
<1>2. CASE slot[k].step \in {"preflight", "stopping"}
  <2>1. restart.by = k /\ PreviousOver /\ \A j \in Slots : Valid(j) => j = k
    BY <1>2 DEF Held, RestartAlone
  <2>2. ~NewLaunch
    <3> SUFFICES ASSUME NewLaunch PROVE FALSE
      OBVIOUS
    <3>1. launch'.n = launch.n + 1 /\ launch.n \in Nat /\ ~Activate /\ ~Finish
      BY <1>0, <2>1, NewLaunchMoves, ActivateMoves, FinishMoves, Bounds DEF Going, PreviousOver,
         Typed, Launch
    <3>2. PICK r \in Slots : Relaunch(r) /\ slot[r].step = "stopping"
      BY <1>0, <2>1, <3>1, OtherMoves DEF Moved
    <3>3. r = k
      BY <2>1, <3>2 DEF Held
    <3> QED BY <1>0, <3>2, <3>3, RelaunchMoves
  <2> QED BY <1>1, <2>1, <2>2
<1>3. CASE slot[k].step \notin {"preflight", "stopping"}
  <2>1. Recover(k)
    BY <1>0, <1>3, SlotsMove, CancelMoves, ClearMoves, AnnounceMoves, RecoverMoves
  <2>2. slot[k].step = "log" /\ slot[k].epoch = epoch
    BY <1>0, <1>3, <2>1, RecoverSteps
  <2>3. Valid(k)
    BY <2>2 DEF Valid
  <2>4. UNCHANGED launch
    BY <2>1, <2>2 DEF Recover, Fire, Resume, Preflighted, Relaunch, Recovered, TryAgain,
       Reschedule, LaunchKept
  <2> QED BY <1>1, <2>2, <2>3, <2>4 DEF OneRecovery, RecoversLatest
<1> QED BY <1>2, <1>3

\* Who writes the counters.
LEMMA CountersMove ==
    ASSUME Typed, [RecoveryNext]_recoveryVars
    PROVE  \/ UNCHANGED <<attempts, recovered>>
           \/ (AskStop \/ ShutDown) /\ CancelRestart
           \/ \E r \in Slots : Recover(r)
<1>1. CASE AskStop \/ ShutDown
  BY <1>1 DEF AskStop, ShutDown
<1>2. CASE Activate \/ Finish
  BY <1>2 DEF Activate, Store, Prepare, BecomeReady, RecordLaunch, Project, Publish,
     Finish, Settle, Report, Decide, Announce, NoRecovery, LaunchOnly
<1>3. CASE AskStart \/ Drain \/ UNCHANGED recoveryVars \/ \E l \in Launches : Exit(l)
  BY <1>3 DEF AskStart, StartOnly, Drain, recoveryVars, Exit, LaunchOnly, NoRecovery
<1>4. CASE StartServer
  BY <1>4 DEF StartServer, PreflightStart, MarkStarting, CallStart, TaskEnded, AnswerStart,
     StartOnly
<1>5. CASE StopServer
  BY <1>5 DEF StopServer, ReadStatus, MarkStopping, CallStop, AnswerStop, StopOnly
<1>6. CASE \E c \in Callers : StopProcess(c)
  BY <1>6 DEF StopProcess, StopSettled, StopProjected, StopSideOnly
<1> QED BY <1>1, <1>2, <1>3, <1>4, <1>5, <1>6 DEF RecoveryNext

\* The failure of a launch is given the next attempt.
LEMMA DecideCounts ==
    ASSUME Typed, Finish, launch'.step = "announce", recovered <= attempts
    PROVE  launch'.attempt > recovered
<1>0. launch \in Launch /\ attempts \in Nat /\ recovered \in Nat
  BY Bounds DEF Typed
<1>1. ~Settle /\ ~Report /\ ~Announce
  BY <1>0, StepMoves DEF Settle, Report, Announce, LaunchEnds, LaunchSteps
<1>2. Decide
  BY <1>1 DEF Finish
<1>3. ~(ShuttingDown \/ ~MayRetry)
  BY <1>0, <1>2, StepMoves DEF Decide, LaunchEnds, LaunchSteps
<1>4. launch' = [launch EXCEPT !.step = "announce", !.attempt = attempts + 1, !.epoch = epoch]
  BY <1>2, <1>3 DEF Decide
<1>5. launch'.attempt = attempts + 1
  BY <1>0, <1>4 DEF Launch
<1> QED BY <1>0, <1>5

\* A step of a recovery keeps the counts: the timer writes its attempt to the map,
\* and the launch uses it up.
LEMMA RecoverCounted ==
    ASSUME BaseInv, Epochs, Known, Undecided, OneRecovery, Counted,
           [RecoveryNext]_recoveryVars, NEW r \in Slots, Recover(r)
    PROVE  Counted'
<1>0. Typed /\ epoch' = epoch /\ attempts \in Nat /\ recovered \in Nat /\ IdleSlot.step = "idle"
      /\ \A k \in Slots : slot[k].attempt \in Nat
  BY RecoverMoves, IdleTyped, Bounds DEF BaseInv, Typed, Slot
<1>1. CASE Valid(r)
  <2>1. CountOf(r) /\ recovered <= attempts
    BY <1>1 DEF Counted
  <2>2. recovered' <= attempts'
    BY <1>0, <1>1, <2>1, RecoverSteps DEF CountOf, Valid
  <2>3. ASSUME Valid(r)' PROVE CountOf(r)'
    BY <1>0, <1>1, <2>1, <2>3, RecoverSteps DEF CountOf, Valid
  <2>4. ASSUME NEW k \in Slots, Valid(k)' PROVE k = r
    <3>1. slot'[k].step /= "idle"
      BY <2>4 DEF Valid
    <3>2. CASE k /= r
      <4>1. slot'[k] = slot[k]
        BY <1>0, <3>1, <3>2, RecoverMoves
      <4>2. Valid(k)
        BY <2>4, <3>1, <4>1, ValidMoves
      <4> QED BY <1>1, <4>2 DEF OneRecovery
    <3> QED BY <3>2
  <2>5. ASSUME launch'.step = "announce", launch'.epoch = epoch' PROVE recovered' < launch'.attempt
    BY <1>0, <2>5, RecoverLaunch, RecoverSteps, NewLaunchMoves DEF Moved, Counted
  <2> QED BY <2>2, <2>3, <2>4, <2>5 DEF Counted
<1>2. CASE ~Valid(r)
  <2>1. UNCHANGED <<attempts, recovered>> /\ ~Valid(r)'
    <3>1. ~Valid(r)'
      BY <1>0, <1>2, ValidMoves, RecoverMoves
    <3>2. UNCHANGED <<attempts, recovered>>
      BY <1>0, <1>2, RecoverSteps DEF Valid
    <3> QED BY <3>1, <3>2
  <2>2. ASSUME NEW k \in Slots, Valid(k)' PROVE CountOf(k)'
    <3>1. slot'[k].step /= "idle" /\ k /= r
      BY <2>1, <2>2 DEF Valid
    <3>2. slot'[k] = slot[k]
      BY <1>0, <3>1, RecoverMoves
    <3>3. Valid(k)
      BY <2>2, <3>1, <3>2, ValidMoves
    <3> QED BY <2>1, <3>2, <3>3 DEF Counted, CountOf
  <2>3. ASSUME launch'.step = "announce", launch'.epoch = epoch' PROVE recovered' < launch'.attempt
    BY <1>0, <2>1, <2>3, RecoverLaunch, NewLaunchMoves DEF Moved, Counted
  <2> QED BY <2>1, <2>2, <2>3 DEF Counted
<1> QED BY <1>1, <1>2

\* Every step keeps the counts.
LEMMA NextCounted ==
    ASSUME BaseInv, Epochs, Known, Undecided, OneRecovery, Counted,
           [RecoveryNext]_recoveryVars
    PROVE  Counted'
<1>0. Typed /\ epoch \in Nat /\ launch.epoch \in Nat /\ launch.epoch <= epoch
  BY DEF BaseInv, Typed, Launch, Epochs
<1>1. CASE (AskStop \/ ShutDown) /\ CancelRestart
  <2>1. attempts' = 0 /\ recovered' = 0 /\ epoch' = epoch + 1
    BY <1>1 DEF CancelRestart
  <2>2. launch'.epoch = launch.epoch
    BY <1>0, <1>1, AskStopMoves, ShutDownMoves DEF Moved
  <2>3. \A k \in Slots : ~Valid(k)'
    BY <1>0, <2>1, ValidMoves
  <2> QED BY <1>0, <2>1, <2>2, <2>3 DEF Counted
<1>2. CASE \E r \in Slots : Recover(r)
  BY <1>2, RecoverCounted
<1>3. CASE ~((AskStop \/ ShutDown) /\ CancelRestart) /\ ~ \E r \in Slots : Recover(r)
  <2>1. UNCHANGED <<attempts, recovered>> /\ epoch' = epoch
    BY <1>0, <1>3, CountersMove, SlotsMove
  <2>2. ASSUME NEW k \in Slots, Valid(k)' PROVE CountOf(k)'
    <3>1. CASE Valid(k) /\ slot'[k] = slot[k]
      BY <2>1, <3>1 DEF Counted, CountOf
    <3>2. CASE Announce /\ slot'[k].step = "timer" /\ launch.epoch = epoch
               /\ slot'[k].attempt = launch.attempt
      BY <2>1, <3>2 DEF Counted, CountOf, Announce
    <3> QED BY <1>3, <2>2, <3>1, <3>2, ValidMoves
  <2>3. ASSUME launch'.step = "announce", launch'.epoch = epoch' PROVE recovered' < launch'.attempt
    <3>1. CASE Finish
      <4>1. launch'.attempt > recovered
        BY <1>0, <2>3, <3>1, DecideCounts DEF Counted
      <4>2. launch'.attempt \in Nat /\ recovered \in Nat
        BY <1>0, <3>1, FinishMoves, Bounds DEF Launch, Typed
      <4> QED BY <2>1, <4>1, <4>2
    <3>2. CASE Activate
      BY <1>0, <2>3, <3>2, ActivateMoves DEF Going
    <3>3. CASE ~Activate /\ ~Finish
      BY <1>0, <2>1, <2>3, <3>3, OtherMoves, NewLaunchMoves DEF Moved, Counted
    <3> QED BY <3>1, <3>2, <3>3
  <2> QED BY <2>1, <2>2, <2>3 DEF Counted
<1> QED BY <1>1, <1>2, <1>3

\* RecoveryBounded: recovery launches the server at most maxRestartAttempts times
\* until somebody stops it, as long as no start launches it while it is being
\* recovered (MCManagedRecoveryOverrun shows two such recoveries otherwise).
THEOREM RecoveryBoundedHolds == RecoverySpec /\ []StartsApart => []RecoveryBounded
<1>1. RecoveryInit => CountInv
  BY InitTyped, IdleTyped DEF RecoveryInit, CountInv, Epochs, Held, Known, Undecided,
     OneRecovery, RecoversLatest, RestartAlone, Counted, Valid, CountOf, NoLaunch, PreviousOver
<1>2. BaseInv /\ CountInv /\ StartsApart' /\ [RecoveryNext]_recoveryVars => CountInv'
  BY NextEpochs, NextHeld, NextKnown, NextUndecided, NextOne, NextLatest, NextAlone, NextCounted
     DEF CountInv, BaseInv
<1>3. BaseInv /\ CountInv => RecoveryBounded
  BY Bounds DEF BaseInv, Typed, CountInv, Counted, RecoveryBounded
<1> QED BY <1>1, <1>2, <1>3, BaseInvariance, PTL DEF RecoverySpec

-----------------------------------------------------------------------------
(* A single start: what the run of ManagedRecovery checks *)

\* The first start finds nothing launched and nothing to recover, and the start
\* under way awaits a launch that exists.
FirstStart ==
    /\ startCalls = 0 => launch.n = 0 /\ starter.step = "idle"
    /\ starter.step \in {"preflight", "mark", "call"} => launch.n = 0
    /\ starter.launch <= launch.n
    /\ Launching => \A r \in Slots : slot[r].step = "idle"

\* Who writes the start: its own steps, the launch it makes, and the next one asked.
LEMMA StarterMoves ==
    ASSUME Typed, [RecoveryNext]_recoveryVars
    PROVE  \/ AskStart /\ starter'.step = "preflight" /\ starter'.launch = 0
           \/ /\ startCalls' = startCalls
              /\ starter.step = "idle" => starter'.step = "idle"
              /\ starter'.step \in {"preflight", "mark", "call"} =>
                   starter.step \in {"preflight", "mark", "call"}
              /\ \/ starter.step = "call" /\ NewLaunch
                 \/ /\ starter'.launch \in {starter.launch, 0}
                    /\ starter'.step = "await" => starter.step = "await"
                                                /\ starter'.launch = starter.launch
<1>0. starter \in StartCall /\ IdleStart.launch = 0 /\ IdleStart.step = "idle"
  BY DEF Typed, IdleStart
<1>1. CASE AskStart
  BY <1>1 DEF AskStart, IdleStart
<1>2. CASE AskStop \/ ShutDown
  BY <1>0, <1>2, AbortStartTyped DEF AskStop, ShutDown
<1>3. CASE StartServer
  <2>1. UNCHANGED startCalls
    BY <1>3 DEF StartServer, PreflightStart, MarkStarting, CallStart, TaskEnded, AnswerStart
  <2>2. CASE CallStart /\ NewLaunch
    <3>1. starter.step = "call" /\ starter'.step \in {"await", "cancelled", "failed"}
      BY <1>0, <2>2, StartAtTyped DEF CallStart, StartCall
    <3> QED BY <2>1, <2>2, <3>1
  <2>3. CASE ~(CallStart /\ NewLaunch)
    BY <1>0, <1>3, <2>1, <2>3, StartAtTyped
       DEF StartServer, PreflightStart, MarkStarting, CallStart, TaskEnded, AnswerStart
  <2> QED BY <2>2, <2>3
<1>4. CASE ~AskStart /\ ~AskStop /\ ~ShutDown /\ ~StartServer
  <2>1. UNCHANGED <<starter, startCalls>>
    BY <1>4 DEF RecoveryNext, Drain, recoveryVars, Exit, LaunchOnly, Activate, Finish, Store, Prepare,
       BecomeReady, RecordLaunch, Project, Publish, Settle, Report, Decide, Announce, StopServer,
       ReadStatus, MarkStopping, CallStop, AnswerStop, StopOnly, StopProcess, StopSettled,
       StopProjected, StopSideOnly, Recover, Fire, Resume, Preflighted, Relaunch, Recovered,
       TryAgain, Reschedule, RecoverOnly
  <2> QED BY <1>0, <2>1
<1> QED BY <1>1, <1>2, <1>3, <1>4

\* With one start, the launch it makes is the first.
LEMMA NextFirst ==
    ASSUME MaxStartCalls = 1, BaseInv, Untouched, FirstStart, [RecoveryNext]_recoveryVars
    PROVE  FirstStart'
<1>0. /\ Typed /\ launch.n \in Nat /\ starter.launch \in Nat /\ startCalls \in {0, 1}
      /\ IdleSlot.step = "idle"
  BY IdleTyped, Bounds DEF BaseInv, Typed, Launch, StartCall
<1>1. CASE NewLaunch
  <2>1. launch'.n = launch.n + 1 /\ launch'.step = "store" /\ ~Activate /\ ~Finish
    BY <1>0, <1>1, NewLaunchMoves, ActivateMoves, FinishMoves DEF Going
  <2>2. CASE starter.step = "call" /\ UNCHANGED slot
             /\ starter' = [starter EXCEPT !.step = "await", !.launch = launch.n + 1]
    <3>1. starter'.step = "await" /\ starter'.launch = launch.n + 1
      BY <1>0, <2>2 DEF Typed, StartCall
    <3>2. \A r \in Slots : slot'[r].step = "idle"
      BY <2>2 DEF FirstStart, Untouched
    <3>3. startCalls' /= 0
      BY <1>0, <2>2, StarterMoves DEF FirstStart, AskStart
    <3> QED BY <1>0, <2>1, <3>1, <3>2, <3>3 DEF FirstStart
  <2>3. ASSUME NEW r \in Slots, Relaunch(r), slot[r].step = "stopping" PROVE FirstStart'
    <3>1. launch.n /= 0 /\ starter' = starter /\ startCalls' = startCalls
      BY <2>3 DEF Untouched, Relaunch, RecoverOnly
    <3>2. ~Launching'
      BY <1>0, <2>1, <3>1 DEF FirstStart, Launching
    <3> QED BY <1>0, <2>1, <3>1, <3>2 DEF FirstStart
  <2> QED BY <1>0, <2>1, <2>2, <2>3, OtherMoves DEF Moved
<1>2. CASE ~NewLaunch
  <2>1. launch'.n = launch.n
    BY <1>0, <1>2, ActivateMoves, FinishMoves, OtherMoves DEF Moved
  <2>2. /\ startCalls' = 0 => launch'.n = 0 /\ starter'.step = "idle"
        /\ starter'.step \in {"preflight", "mark", "call"} => launch'.n = 0
        /\ starter'.launch <= launch'.n
    <3>1. CASE AskStart
      BY <1>0, <2>1, <3>1, StarterMoves DEF AskStart, FirstStart
    <3>2. CASE ~AskStart
      BY <1>0, <1>2, <2>1, <3>2, StarterMoves DEF FirstStart
    <3> QED BY <3>1, <3>2
  <2>3. ASSUME Launching', NEW k \in Slots PROVE slot'[k].step = "idle"
    <3>1. launch.step = "store"
      BY <1>0, <1>2, <2>3, ActivateMoves, FinishMoves, OtherMoves DEF Launching, Going
    <3>2. Launching
      BY <1>0, <1>2, <2>1, <2>3, <3>1, StarterMoves DEF Launching
    <3>3. \A r \in Slots : slot[r].step = "idle"
      BY <3>2 DEF FirstStart
    <3>4. ~Announce /\ ~ \E r \in Slots : Recover(r)
      BY <1>0, <3>1, <3>3, RecoverMoves DEF Announce
    <3> QED BY <1>0, <3>3, <3>4, SlotsMove, CancelMoves, ClearMoves
  <2> QED BY <2>2, <2>3 DEF FirstStart
<1> QED BY <1>1, <1>2

\* RecoveryBounded without a hypothesis on the behaviour: a server that is
\* started once is launched by recovery at most maxRestartAttempts times until
\* somebody stops it, whatever stops, exits and timers do.
THEOREM RecoveryBoundedOnce ==
    ASSUME MaxStartCalls = 1 PROVE RecoverySpec => []RecoveryBounded
<1>1. RecoveryInit => Untouched /\ FirstStart
  BY DEF RecoveryInit, Untouched, FirstStart, NoLaunch, IdleStart, IdleSlot, Launching
<1>2. BaseInv /\ Untouched /\ FirstStart /\ [RecoveryNext]_recoveryVars => Untouched' /\ FirstStart'
  BY NextUntouched, NextFirst
<1>3. FirstStart => StartsApart
  BY DEF FirstStart, StartsApart
<1>4. RecoverySpec => []StartsApart
  BY <1>1, <1>2, <1>3, BaseInvariance, PTL DEF RecoverySpec
<1> QED BY <1>4, RecoveryBoundedHolds, PTL
=============================================================================
