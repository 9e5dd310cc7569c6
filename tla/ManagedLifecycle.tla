-------------------------- MODULE ManagedLifecycle --------------------------
(***************************************************************************)
(* The lifecycle of one managed MCP server, shared by API processes:       *)
(*   managed-mcp-lifecycle-coordinator.service.ts  start, stop, event,     *)
(*                                                 reconcile               *)
(*   managed-mcp-lifecycle.store.ts                compareAndSwap          *)
(*   managed-mcp-channel.ts                        the child process       *)
(*                                                                         *)
(* The record is one database row, replaced by compare-and-swap.  Every    *)
(* commit of the coordinator changes the generation or moves its state on, *)
(* never back, so the value read stands for the token read with it.        *)
(* A handler is cut at its awaits: between two steps of one handler other  *)
(* handlers of the process, other processes and the children go on.        *)
(*                                                                         *)
(* A process is one incarnation of the API server: it does not come back   *)
(* after Crash, which also stands for onModuleDestroy.  A process has one  *)
(* start and one stop under way (startingServers, ServerStatus.STOPPING).  *)
(*                                                                         *)
(* Operators that precede a definition and that nothing uses are slips of  *)
(* that definition: substituted for it, each makes a property fail.        *)
(***************************************************************************)
EXTENDS Naturals, FiniteSets

CONSTANTS
    Procs,          \* incarnations of API processes that share the database
    MaxGeneration,  \* bound: generations (the code stops at 2^31 - 1)
    MaxStops,       \* bound: calls of stop()
    MaxCrashes      \* bound: processes that crash

ASSUME LifecycleAssumption ==
    MaxGeneration \in Nat \ {0} /\ MaxStops \in Nat /\ MaxCrashes \in Nat

Generations == 1..MaxGeneration

VARIABLES
    record,     \* the lifecycle row: generation, state, terminal.verifiedByParent
    handle,     \* handles.get(serverId) of a process: the generation it owns, or 0
    start,      \* the start() of a process
    stop,       \* the stop() of a process
    watch,      \* observeClosed() and event() of a generation
    parent,     \* the process that committed a generation's start, or none
    child,      \* the child process of a generation
    closing,    \* generations whose channel is being closed by its parent
    down,       \* processes that are gone
    stops       \* bound: calls of stop() so far

vars == <<record, handle, start, stop, watch, parent, child, closing, down, stops>>

Open == {"starting", "current", "stopping"}
Terminal == {"stopped", "failed", "abandoned"}
Record == [gen : 0..MaxGeneration, state : Open \cup Terminal \cup {"absent"}, verified : BOOLEAN]
Absent == [gen |-> 0, state |-> "absent", verified |-> FALSE]
Entry(g, state) == [gen |-> g, state |-> state, verified |-> FALSE]
Ended(g, state, verified) == [gen |-> g, state |-> state, verified |-> verified]

Alive == {"booting", "accepted", "ready"}
StartSteps == {"idle", "check", "supersede", "prepare", "spawn", "handshake", "ready", "current", "fail", "drop"}
StopSteps == {"idle", "approve", "retry", "finalize", "close", "end"}
WatchSteps == {"off", "on", "commit", "clean"}

NoStart == [step |-> "idle", seen |-> Absent, old |-> 0]
NoStop == [step |-> "idle", seen |-> Absent, verified |-> FALSE]
Unwatched == [step |-> "off", seen |-> Absent]

(* Typing: the record parses (parseManagedLifecycleRecord), and generations   *)
(* end at the largest one.                                                    *)
TypeOK ==
    /\ record \in Record
    /\ handle \in [Procs -> 0..MaxGeneration]
    /\ start \in [Procs -> [step : StartSteps, seen : Record, old : 0..MaxGeneration]]
    /\ stop \in [Procs -> [step : StopSteps, seen : Record, verified : BOOLEAN]]
    /\ watch \in [Generations -> [step : WatchSteps, seen : Record]]
    /\ parent \in [Generations -> SUBSET Procs]
    /\ child \in [Generations -> Alive \cup {"none", "exited"}]
    /\ closing \subseteq Generations
    /\ down \subseteq Procs /\ stops \in 0..MaxStops

Init ==
    /\ record = Absent
    /\ handle = [p \in Procs |-> 0]
    /\ start = [p \in Procs |-> NoStart]
    /\ stop = [p \in Procs |-> NoStop]
    /\ watch = [g \in Generations |-> Unwatched]
    /\ parent = [g \in Generations |-> {}]
    /\ child = [g \in Generations |-> "none"]
    /\ closing = {} /\ down = {} /\ stops = 0

(* A compare-and-swap finds the row it has read.                              *)
WinsWhenAbsent(seen) == seen = Absent \/ record = seen
Wins(seen) == record = seen

Starting(p, step) == start[p].step = step
Stopping(p, step) == stop[p].step = step
StartTo(p, step) == start' = [start EXCEPT ![p].step = step]
StopTo(p, step) == stop' = [stop EXCEPT ![p].step = step]
EndStart(p) == start' = [start EXCEPT ![p] = NoStart]
EndStop(p) == stop' = [stop EXCEPT ![p] = NoStop]
Gen(p) == start[p].seen.gen + 1
SetHandle(p, g) == handle' = [handle EXCEPT ![p] = g]
Close(g) == closing' = IF child[g] \in Alive THEN closing \cup {g} ELSE closing
Up(p) == p \notin down

-----------------------------------------------------------------------------
(* start()                                                                    *)

(* A generation that is current or mid-start is not started over: rejected.   *)
MayStart == record.gen < MaxGeneration /\ record.state \notin {"starting", "current"}

BeginStart(p) ==
    /\ Up(p) /\ Starting(p, "idle") /\ MayStart
    /\ start' = [start EXCEPT ![p] = [step |-> "check", seen |-> record, old |-> 0]]
    /\ UNCHANGED <<record, handle, stop, watch, parent, child, closing, down, stops>>

(* A handle left by an earlier generation is closed first.                    *)
CloseSuperseded(p) ==
    /\ Starting(p, "check")
    /\ \/ handle[p] = 0 /\ StartTo(p, "prepare") /\ UNCHANGED <<handle, closing>>
       \/ /\ handle[p] # 0
          /\ start' = [start EXCEPT ![p].step = "supersede", ![p].old = handle[p]]
          /\ SetHandle(p, 0) /\ Close(handle[p])
    /\ UNCHANGED <<record, stop, watch, parent, child, down, stops>>

Superseded(p) ==
    /\ Starting(p, "supersede") /\ child[start[p].old] = "exited"
    /\ StartTo(p, "prepare")
    /\ UNCHANGED <<record, handle, stop, watch, parent, child, closing, down, stops>>

(* Capture, permit or approval fails: nothing has been written.               *)
PrepareFails(p) ==
    /\ Starting(p, "prepare") /\ EndStart(p)
    /\ UNCHANGED <<record, handle, stop, watch, parent, child, closing, down, stops>>

CommitStarting(p) ==
    /\ Starting(p, "prepare")
    /\ \/ /\ Wins(start[p].seen)
          /\ record' = Entry(Gen(p), "starting")
          /\ parent' = [parent EXCEPT ![Gen(p)] = @ \cup {p}]
          /\ StartTo(p, "spawn")
       \/ ~Wins(start[p].seen) /\ EndStart(p) /\ UNCHANGED <<record, parent>>
    /\ UNCHANGED <<handle, stop, watch, child, closing, down, stops>>

Spawn(p) ==
    /\ Starting(p, "spawn")
    /\ \/ child' = [child EXCEPT ![Gen(p)] = "booting"] /\ StartTo(p, "handshake")
       \/ StartTo(p, "fail") /\ UNCHANGED child
    /\ UNCHANGED <<record, handle, stop, watch, parent, closing, down, stops>>

(* The channel resolves when the child accepts the handoff and rejects when   *)
(* the child has exited.                                                      *)
Accepted(p) ==
    /\ Starting(p, "handshake")
    /\ \/ /\ child[Gen(p)] = "booting"
          /\ child' = [child EXCEPT ![Gen(p)] = "accepted"]
          /\ SetHandle(p, Gen(p)) /\ StartTo(p, "ready")
       \/ child[Gen(p)] = "exited" /\ StartTo(p, "fail") /\ UNCHANGED <<child, handle>>
    /\ UNCHANGED <<record, stop, watch, parent, closing, down, stops>>

(* ready resolves unless the parent has closed the channel; it rejects when   *)
(* the child has exited.                                                      *)
Ready(p) ==
    /\ Starting(p, "ready")
    /\ \/ /\ child[Gen(p)] = "accepted" /\ Gen(p) \notin closing
          /\ child' = [child EXCEPT ![Gen(p)] = "ready"]
          /\ StartTo(p, "current") /\ UNCHANGED handle
       \/ /\ child[Gen(p)] = "exited"
          /\ SetHandle(p, 0) /\ StartTo(p, "fail") /\ UNCHANGED child
    /\ UNCHANGED <<record, stop, watch, parent, closing, down, stops>>

(* failTransition(): a terminal that the parent has seen, unless another      *)
(* handler was first.                                                         *)
FailTransition(p) ==
    /\ Starting(p, "fail") /\ EndStart(p)
    /\ record' = IF Wins(Entry(Gen(p), "starting")) THEN Ended(Gen(p), "failed", TRUE) ELSE record
    /\ UNCHANGED <<handle, stop, watch, parent, child, closing, down, stops>>

(* A start that lost its record closes the child it has brought up.           *)
KeepLoser(p) ==
    /\ EndStart(p) /\ UNCHANGED <<record, handle, watch, closing>>
DropLoser(p) ==
    /\ SetHandle(p, 0) /\ Close(Gen(p))
    /\ StartTo(p, "drop") /\ UNCHANGED <<record, watch>>

WatchLive(g) == watch' = [watch EXCEPT ![g].step = IF child[g] \in Alive THEN "on" ELSE "off"]
Watch(g) == watch' = [watch EXCEPT ![g].step = "on"]

CommitCurrent(p) ==
    /\ Starting(p, "current")
    /\ \/ /\ Wins(Entry(Gen(p), "starting"))
          /\ record' = Entry(Gen(p), "current")
          /\ Watch(Gen(p))
          /\ EndStart(p) /\ UNCHANGED <<handle, closing>>
       \/ ~Wins(Entry(Gen(p), "starting")) /\ DropLoser(p)
    /\ UNCHANGED <<stop, parent, child, down, stops>>

Dropped(p) ==
    /\ Starting(p, "drop") /\ child[Gen(p)] = "exited" /\ EndStart(p)
    /\ UNCHANGED <<record, handle, stop, watch, parent, child, closing, down, stops>>

-----------------------------------------------------------------------------
(* stop() and finalizeStop()                                                  *)

MayStop(p) == record.state = "starting" \/ (record.state = "current" /\ handle[p] = record.gen)

(* The ownership check comes after the read; the commit that follows succeeds *)
(* only on the record as read, so the two are one step.                       *)
BeginStop(p) ==
    /\ Up(p) /\ Stopping(p, "idle")
    /\ stops < MaxStops /\ stops' = stops + 1
    /\ \E step \in {"approve", "finalize"} :
          /\ IF step = "approve" THEN MayStop(p) ELSE record.state = "stopping"
          /\ stop' = [stop EXCEPT ![p] = [step |-> step, seen |-> record, verified |-> FALSE]]
    /\ UNCHANGED <<record, handle, start, watch, parent, child, closing, down>>

StopDenied(p) ==
    /\ Stopping(p, "approve") /\ EndStop(p)
    /\ UNCHANGED <<record, handle, start, watch, parent, child, closing, down, stops>>

CommitStopping(p) ==
    /\ Stopping(p, "approve")
    /\ \/ /\ Wins(stop[p].seen)
          /\ record' = Entry(record.gen, "stopping")
          /\ stop' = [stop EXCEPT ![p].step = "finalize", ![p].seen = record']
       \/ ~Wins(stop[p].seen) /\ StopTo(p, "retry") /\ UNCHANGED record
    /\ UNCHANGED <<handle, start, watch, parent, child, closing, down, stops>>

RetryStop(p) ==
    /\ Stopping(p, "retry")
    /\ \/ /\ record.state = "stopping"
          /\ stop' = [stop EXCEPT ![p].step = "finalize", ![p].seen = record]
       \/ record.state # "stopping" /\ EndStop(p)
    /\ UNCHANGED <<record, handle, start, watch, parent, child, closing, down, stops>>

(* The owner closes its child and waits for the exit; nobody else can.        *)
Finalize(p) ==
    /\ Stopping(p, "finalize")
    /\ \/ /\ handle[p] = stop[p].seen.gen
          /\ SetHandle(p, 0) /\ Close(stop[p].seen.gen)
          /\ StopTo(p, "close")
       \/ handle[p] # stop[p].seen.gen /\ StopTo(p, "end") /\ UNCHANGED <<handle, closing>>
    /\ UNCHANGED <<record, start, watch, parent, child, down, stops>>

CloseSent(g) == g \in closing
CloseSeen(g) == child[g] = "exited"

Closed(p) ==
    /\ Stopping(p, "close") /\ CloseSeen(stop[p].seen.gen)
    /\ stop' = [stop EXCEPT ![p].step = "end", ![p].verified = TRUE]
    /\ UNCHANGED <<record, handle, start, watch, parent, child, closing, down, stops>>

CommitStopped(p) ==
    /\ Stopping(p, "end") /\ EndStop(p)
    /\ record' = IF Wins(stop[p].seen)
                 THEN Ended(stop[p].seen.gen, "stopped", stop[p].verified) ELSE record
    /\ UNCHANGED <<handle, start, watch, parent, child, closing, down, stops>>

-----------------------------------------------------------------------------
(* observeClosed() and event()                                                *)

Owns(g) == \E p \in parent[g] : Up(p) /\ handle[p] = g
Unwatch(g) == watch' = [watch EXCEPT ![g] = Unwatched]

(* The handle is looked at when the child has gone and again with the record; *)
(* a handle once dropped does not come back, so the second look is enough.    *)
Observe(g) ==
    /\ watch[g].step = "on" /\ child[g] = "exited"
    /\ LET open == record.gen = g /\ record.state \in Open /\ Owns(g) IN
       watch' = [watch EXCEPT ![g] = IF open THEN [step |-> "commit", seen |-> record] ELSE Unwatched]
    /\ UNCHANGED <<record, handle, start, stop, parent, child, closing, down, stops>>

EventCommit(g) ==
    /\ watch[g].step = "commit"
    /\ \/ /\ Wins(watch[g].seen)
          /\ record' = Ended(g, IF record.state = "stopping" THEN "stopped" ELSE "failed", TRUE)
          /\ watch' = [watch EXCEPT ![g].step = "clean"]
       \/ ~Wins(watch[g].seen) /\ Unwatch(g) /\ UNCHANGED record
    /\ UNCHANGED <<handle, start, stop, parent, child, closing, down, stops>>

(* The handle may have gone to another generation meanwhile.                  *)
DropsAny(p, g) == p \in parent[g]
Drops(p, g) == p \in parent[g] /\ handle[p] = g

EventClean(g) ==
    /\ watch[g].step = "clean" /\ Unwatch(g)
    /\ handle' = [p \in Procs |-> IF Drops(p, g) THEN 0 ELSE handle[p]]
    /\ UNCHANGED <<record, start, stop, parent, child, closing, down, stops>>

-----------------------------------------------------------------------------
(* Children, crashes and the explicit recovery                                *)

(* A child may fail at any time; it goes when its parent closes the channel   *)
(* (a kill follows), when the parent is gone (IPC disconnect), and when it    *)
(* does not get through the handshake in time.                                *)
ChildExits(g) ==
    /\ child[g] \in Alive /\ child' = [child EXCEPT ![g] = "exited"]
    /\ closing' = closing \ {g}
    /\ UNCHANGED <<record, handle, start, stop, watch, parent, down, stops>>

MustExit(g) == g \in closing \/ parent[g] \subseteq down \/ child[g] \in {"booting", "accepted"}

Crash(p) ==
    /\ Up(p) /\ Cardinality(down) < MaxCrashes /\ down' = down \cup {p}
    /\ SetHandle(p, 0) /\ EndStart(p) /\ EndStop(p)
    /\ watch' = [g \in Generations |-> IF p \in parent[g] THEN Unwatched ELSE watch[g]]
    /\ UNCHANGED <<record, parent, child, closing, stops>>

(* reconcile() ends a generation that its caller does not own, and also its   *)
(* own one that is not current yet or no longer; nobody asks whether another  *)
(* owner lives.  Its read and its commit are one step: a commit that loses    *)
(* changes nothing, and a current handle does not move while the record stays.*)
Reconcile(p) ==
    /\ Up(p) /\ record.state \in Open
    /\ record.state = "current" => handle[p] # record.gen
    /\ record' = Ended(record.gen, IF record.state = "stopping" THEN "stopped" ELSE "abandoned", FALSE)
    /\ UNCHANGED <<handle, start, stop, watch, parent, child, closing, down, stops>>

-----------------------------------------------------------------------------
StartStep(p) ==
    \/ CloseSuperseded(p) \/ Superseded(p) \/ PrepareFails(p) \/ CommitStarting(p) \/ Spawn(p)
    \/ Accepted(p) \/ Ready(p) \/ FailTransition(p) \/ CommitCurrent(p) \/ Dropped(p)
StopStep(p) ==
    \/ StopDenied(p) \/ CommitStopping(p) \/ RetryStop(p)
    \/ Finalize(p) \/ Closed(p) \/ CommitStopped(p)
EventStep(g) == Observe(g) \/ EventCommit(g) \/ EventClean(g)

Next ==
    \/ \E p \in Procs : BeginStart(p) \/ BeginStop(p) \/ StartStep(p) \/ StopStep(p) \/ Crash(p) \/ Reconcile(p)
    \/ \E g \in Generations : EventStep(g) \/ ChildExits(g)

Spec == Init /\ [][Next]_vars

(* Fairness: a handler that runs goes on, a child that must exit does.        *)
FairSpec ==
    /\ Spec
    /\ \A p \in Procs : WF_vars(StartStep(p)) /\ WF_vars(StopStep(p))
    /\ \A g \in Generations : WF_vars(EventStep(g)) /\ WF_vars(ChildExits(g) /\ MustExit(g))

-----------------------------------------------------------------------------
(* A terminal that claims the parent has seen the child go is backed by the   *)
(* exit of that child, whoever wrote it and whatever raced it (terminal(),    *)
(* verifiedByParent).                                                         *)
VerifiedMeansExited == record.verified => child[record.gen] \in {"none", "exited"}

(* A current child that nobody has closed is in the handles of the process    *)
(* that started it, as long as that process lives: the only one that can stop *)
(* it (stop(), the ownership check).                                          *)
CurrentIsOwned ==
    LET g == record.gen IN
    record.state = "current" /\ child[g] \in Alive /\ g \notin closing /\ ~(parent[g] \subseteq down)
        => Owns(g)

(* No generation is started twice: one process commits it, and it has a child *)
(* only when the record has been through it (single winner of start()).       *)
SingleWinner ==
    \A g \in Generations :
        /\ Cardinality(parent[g]) <= 1
        /\ child[g] # "none" => parent[g] # {} /\ g <= record.gen

(* A child whose generation is over, superseded or ended by another process,  *)
(* goes away in the end (start() closes the child whose commit it lost),      *)
(* unless reconcile() took the generation from a live owner after it was      *)
(* current.  A generation taken while it starts or stops is no exception.     *)
Over(g) == child[g] \in Alive /\ (record.gen # g \/ record.state \in Terminal)
TakenFromLive(g) ==
    record.gen = g /\ record.state = "abandoned" /\ watch[g].step = "on" /\ Owns(g)
OverEnds ==
    \A g \in Generations : []~TakenFromLive(g) => (Over(g) ~> ~Over(g))

(* The same without the exception, which the code does not ensure: nobody     *)
(* closes the child of a live owner whose current generation is reconciled by *)
(* another process (reconcile() looks at its own handles only).               *)
TakenOverEnds == \A g \in Generations : Over(g) ~> ~Over(g)

(* A current child that has exited is noticed by its parent, which moves the  *)
(* record on, unless the parent is gone (observeClosed(), event()).           *)
Unnoticed ==
    /\ record.state = "current" /\ child[record.gen] = "exited"
    /\ ~(parent[record.gen] \subseteq down)
ExitNoticed == Unnoticed ~> ~Unnoticed

(* At most one child is ready at a time, closed ones apart: what a foreign    *)
(* start, stop and event failing closed is said to ensure.                    *)
OneReadyChild == Cardinality({g \in Generations : child[g] = "ready" /\ g \notin closing}) <= 1
=============================================================================
