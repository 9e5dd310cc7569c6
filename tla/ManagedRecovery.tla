--------------------------- MODULE ManagedRecovery ---------------------------
(***************************************************************************)
(* One managed MCP server in one API process: starts and stops asked by    *)
(* users, the child process, and the automatic recovery of a failed child. *)
(*   managed-mcp-process.service.ts    start, activate, finish, stop,      *)
(*                                     restart: the launches of the server *)
(*   process-error-handler.service.ts  recovery with backoff and epochs    *)
(*   server-manager.service.ts         startServer, stopServer, the row    *)
(*   server-lifecycle.service.ts       what they call in between           *)
(*                                                                         *)
(* Every handler is cut at its awaits; what runs between two awaits is one *)
(* action.  A status written to the database is the action at which the    *)
(* write takes effect.  The server has managedMcpMode = trusted_ipc_v1,    *)
(* autoRestart on and its health check off; the database does not fail.    *)
(*                                                                         *)
(* Operators that precede a definition and that nothing uses are slips of  *)
(* that definition: substituted for it, each makes a property fail.        *)
(***************************************************************************)
EXTENDS Naturals, FiniteSets

CONSTANTS
    MaxAttempts,        \* config.maxRestartAttempts
    MaxStartCalls,      \* bound: calls of startServer()
    MaxStopCalls,       \* bound: calls of stopServer()
    MaxLaunches,        \* bound: launches
    MaxSlots,           \* bound: restarts scheduled or under way at once
    MayShutDown,        \* whether the application is shut down
    TimersOutlastStops  \* whether RESTART_DELAY is longer than any stopServer()

ASSUME RecoveryAssumption ==
    /\ {MaxAttempts, MaxLaunches, MaxSlots} \subseteq Nat \ {0}
    /\ {MaxStartCalls, MaxStopCalls} \subseteq Nat
    /\ {MayShutDown, TimersOutlastStops} \subseteq BOOLEAN

Launches == 1..MaxLaunches
Slots == 1..MaxSlots
Callers == {"user", "recovery", "shutdown"}

VARIABLES
    row,        \* the status column of the server
    launch,     \* launches.get(id): the latest launch and where it is
    status,     \* info.status of each launch that somebody can still read
    task,       \* the promise a launch's caller awaits
    alive,      \* launches whose child process runs
    stopOf,     \* ManagedMcpProcessService.stop() of each caller
    restart,    \* restarts.get(id): the slot that holds it, and its signal
    slot,       \* restarts that are scheduled or under way
    mapped,     \* restartTimers.get(id): the slot of the timer, or 0
    epoch,      \* restartEpochs.get(id)
    attempts,   \* restartAttempts.get(id)
    starter,    \* ServerManagerService.startServer()
    stopper,    \* ServerManagerService.stopServer()
    shutdown,   \* the onModuleDestroy hooks
    asked,      \* history: what the user asked last, and what was answered
    recovered,  \* history: launches by recovery in the present epoch
    startCalls,     \* bound: calls of startServer() so far
    stopCalls       \* bound: calls of stopServer() so far

recoveryVars == <<row, launch, status, task, alive, stopOf, restart, slot, mapped, epoch,
                  attempts, starter, stopper, shutdown, asked, recovered, startCalls, stopCalls>>

Rows == {"stopped", "starting", "running", "stopping", "error"}
LaunchSteps == {"none", "store", "prepare", "handshake", "record", "project", "announced",
                "up", "cleanup", "settling", "decide", "announce", "done"}
SlotSteps == {"idle", "timer", "log", "preflight", "stopping", "await", "failed", "announce"}

NoLaunch == [n |-> 0, step |-> "none", spawned |-> FALSE, closing |-> FALSE,
             stopReq |-> FALSE, attempt |-> 0, epoch |-> 0]
IdleStop == [step |-> "idle", on |-> 0]
IdleSlot == [step |-> "idle", attempt |-> 0, epoch |-> 0, launch |-> 0]
IdleStart == [step |-> "idle", launch |-> 0, aborted |-> FALSE]

RecoveryTypeOK ==
    /\ row \in Rows
    /\ launch \in [n : 0..MaxLaunches, step : LaunchSteps, spawned : BOOLEAN, closing : BOOLEAN,
                   stopReq : BOOLEAN, attempt : 0..MaxAttempts, epoch : Nat]
    /\ status \in [Launches -> {"none", "starting", "running", "stopped", "error"}]
    /\ task \in [Launches -> {"none", "pending", "up", "failed"}]
    /\ alive \subseteq 1..launch.n
    /\ stopOf \in [Callers -> [step : {"idle", "wait", "project", "returned"}, on : 0..MaxLaunches]]
    /\ restart \in [by : 0..MaxSlots, aborted : BOOLEAN]
    /\ slot \in [Slots -> [step : SlotSteps, attempt : 0..MaxAttempts, epoch : Nat,
                           launch : 0..MaxLaunches]]
    /\ mapped \in 0..MaxSlots
    /\ epoch \in Nat
    /\ attempts \in 0..MaxAttempts
    /\ starter \in [step : {"idle", "preflight", "mark", "call", "await", "endpoint", "cancelled",
                            "failed"},
                    launch : 0..MaxLaunches, aborted : BOOLEAN]
    /\ stopper \in {"idle", "read", "mark", "call", "stop"}
    /\ shutdown \in {"no", "draining", "done"}
    /\ asked \in {"none", "start", "stop", "stopped", "told"}
    /\ recovered \in Nat /\ startCalls \in 0..MaxStartCalls /\ stopCalls \in 0..MaxStopCalls

RecoveryInit ==
    /\ row = "stopped" /\ launch = NoLaunch
    /\ status = [l \in Launches |-> "none"] /\ task = [l \in Launches |-> "none"]
    /\ alive = {}
    /\ stopOf = [c \in Callers |-> IdleStop]
    /\ restart = [by |-> 0, aborted |-> FALSE]
    /\ slot = [r \in Slots |-> IdleSlot] /\ mapped = 0
    /\ epoch = 0 /\ attempts = 0
    /\ starter = IdleStart /\ stopper = "idle" /\ shutdown = "no"
    /\ asked = "none" /\ recovered = 0 /\ startCalls = 0 /\ stopCalls = 0

-----------------------------------------------------------------------------
(* What the handlers share *)

ShuttingDown == shutdown /= "no"

ChildClosed == launch.spawned /\ launch.n \notin alive

\* assertActive()
Active == ~launch.stopReq /\ ~launch.closing /\ ~ChildClosed /\ ~ShuttingDown

\* The statuses under which a snapshot lets a preflight or a start pass.
Preflightable == {"stopped", "error", "starting", "running"}
Startable == {"stopped", "error", "starting"}

\* requestedStop without the abort: nobody closes the channel.
StopMarked(l) == [l EXCEPT !.stopReq = TRUE]

\* requestedStop and abort(): the channel closes, or is never opened.
StopRequested(l) == [l EXCEPT !.stopReq = TRUE, !.closing = TRUE]

\* start(): no restart holds the server and the previous launch is over.
PreviousOver == launch.step \in {"none", "done"}
MayLaunch == ~ShuttingDown /\ restart.by = 0 /\ PreviousOver

Watched(l) == \E c \in Callers : stopOf[c].step = "wait" /\ stopOf[c].on = l
Awaited(l) == starter.launch = l \/ \E r \in Slots : slot[r].launch = l

\* A new entry in the map; only its callers still reach the previous one.
NewLaunch ==
    LET l == launch.n + 1
    IN  /\ l \in Launches
        /\ launch' = [NoLaunch EXCEPT !.n = l, !.step = "store"]
        /\ status' = [k \in Launches |-> IF k = l THEN "starting"
                                         ELSE IF Watched(k) THEN status[k] ELSE "none"]
        /\ task' = [k \in Launches |-> IF k = l THEN "pending"
                                       ELSE IF Awaited(k) THEN task[k] ELSE "none"]

\* cancelRestart(): the mapped timer is cleared, every other one is outdated.
CancelRestart ==
    /\ epoch' = epoch + 1
    /\ slot' = [r \in Slots |-> IF r = mapped THEN IdleSlot ELSE slot[r]]
    /\ mapped' = 0 /\ attempts' = 0 /\ recovered' = 0

\* The abort of the controller that a start under way listens to.
AbortStart ==
    starter' = IF starter.step = "idle" THEN starter ELSE [starter EXCEPT !.aborted = TRUE]
HeardByLaunch == starter.step = "await" /\ starter.launch = launch.n /\ launch.step /= "done"

-----------------------------------------------------------------------------
(* A launch: activate() and finish() *)

Step(s) == launch' = [launch EXCEPT !.step = s]
Abandon == launch' = [launch EXCEPT !.step = "cleanup", !.closing = TRUE]
Go(s) == IF Active THEN Step(s) ELSE Abandon

LaunchOnly == UNCHANGED <<stopOf, restart, epoch, starter, stopper, shutdown, asked, recovered,
                          startCalls, stopCalls>>
NoRecovery == UNCHANGED <<slot, mapped, attempts>>

Store ==
    /\ launch.step = "store"
    /\ Go("prepare")
    /\ UNCHANGED <<row, status, task, alive>> /\ NoRecovery /\ LaunchOnly

\* startLifecycle(): the capture passes and the child is spawned, or not.
Prepare ==
    /\ launch.step = "prepare"
    /\ \/ /\ Active /\ row \in Startable
          /\ launch' = [launch EXCEPT !.step = "handshake", !.spawned = TRUE]
          /\ alive' = alive \cup {launch.n}
       \/ Abandon /\ UNCHANGED alive
    /\ UNCHANGED <<row, status, task>> /\ NoRecovery /\ LaunchOnly

\* handle.ready: only a child that nobody closes becomes ready.
BecomeReady ==
    /\ launch.step = "handshake"
    /\ Active \/ launch.stopReq \/ ChildClosed \/ ShuttingDown
    /\ Go("record")
    /\ status' = IF Active THEN [status EXCEPT ![launch.n] = "running"] ELSE status
    /\ UNCHANGED <<row, task, alive>> /\ NoRecovery /\ LaunchOnly

RecordLaunch ==
    /\ launch.step = "record"
    /\ Go("project")
    /\ UNCHANGED <<row, status, task, alive>> /\ NoRecovery /\ LaunchOnly

\* The listener of process.started, which activate() awaits.
Project ==
    /\ launch.step = "project"
    /\ row' = "running"
    /\ Step("announced")
    /\ UNCHANGED <<status, task, alive>> /\ NoRecovery /\ LaunchOnly

Publish ==
    /\ launch.step = "announced"
    /\ Go("up")
    /\ task' = IF Active THEN [task EXCEPT ![launch.n] = "up"] ELSE task
    /\ UNCHANGED <<row, status, alive>> /\ NoRecovery /\ LaunchOnly

\* A launch ends without its child: neither closed nor close() is awaited.
ChildForgotten == TRUE

\* The closed promise of the channel, and close().
ChildGone == launch.n \notin alive

\* finish(): after the activation has ended and the channel is closed.
Settle ==
    /\ launch.step \in {"up", "cleanup"}
    /\ ChildGone
    /\ Step("settling")
    /\ status' = [status EXCEPT ![launch.n] = IF launch.stopReq THEN "stopped" ELSE "error"]
    /\ UNCHANGED <<row, task, alive>> /\ NoRecovery /\ LaunchOnly

LaunchEnds ==
    /\ Step("done")
    /\ task' = [task EXCEPT ![launch.n] = IF @ = "pending" THEN "failed" ELSE @]

\* process.stopped or process.error; a startup that fails is its caller's.
Report ==
    /\ launch.step = "settling"
    /\ \/ status[launch.n] = "stopped" /\ row' = "stopped" /\ LaunchEnds
       \/ /\ status[launch.n] = "error" /\ task[launch.n] = "up"
          /\ row' = "error" /\ Step("decide") /\ UNCHANGED task
       \/ status[launch.n] = "error" /\ task[launch.n] /= "up" /\ LaunchEnds /\ UNCHANGED row
    /\ UNCHANGED <<status, alive>> /\ NoRecovery /\ LaunchOnly

\* One attempt too many.
MayRetryOnceMore == attempts <= MaxAttempts

MayRetry == attempts < MaxAttempts

\* scheduleRestart() up to its await: the timer in the map is cleared.
ClearTimer == slot' = [r \in Slots |-> IF r = mapped THEN IdleSlot ELSE slot[r]] /\ mapped' = 0

\* handleRestartLogic()
Decide ==
    /\ launch.step = "decide"
    /\ IF ShuttingDown \/ ~MayRetry
       THEN LaunchEnds /\ UNCHANGED <<slot, mapped>>
       ELSE /\ launch' = [launch EXCEPT !.step = "announce", !.attempt = attempts + 1,
                                        !.epoch = epoch]
            /\ ClearTimer /\ UNCHANGED task
    /\ UNCHANGED <<row, status, alive, attempts>> /\ LaunchOnly

\* scheduleRestart() after its await, for the listener of process.error.
Announce ==
    /\ launch.step = "announce"
    /\ IF ShuttingDown \/ launch.epoch /= epoch
       THEN UNCHANGED <<slot, mapped>>
       ELSE \E r \in Slots :
              /\ slot[r].step = "idle"
              /\ \A k \in Slots : slot[k].step = "idle" => r <= k
              /\ slot' = [slot EXCEPT ![r] = [IdleSlot EXCEPT !.step = "timer",
                             !.attempt = launch.attempt, !.epoch = launch.epoch]]
              /\ mapped' = r
    /\ LaunchEnds
    /\ UNCHANGED <<row, status, alive, attempts>> /\ LaunchOnly

\* The child exits: by itself at any time, or because its channel is closed.
Exit(l) ==
    /\ l \in alive
    /\ alive' = alive \ {l}
    /\ UNCHANGED <<row, launch, status, task>> /\ NoRecovery /\ LaunchOnly

Activate == Store \/ Prepare \/ BecomeReady \/ RecordLaunch \/ Project \/ Publish
Finish == Settle \/ Report \/ Decide \/ Announce

-----------------------------------------------------------------------------
(* stop() *)

StopSideOnly == UNCHANGED <<launch, task, alive, restart, slot, mapped, epoch, attempts, starter,
                            stopper, shutdown, asked, recovered, startCalls, stopCalls>>

LaunchIsOver(l) == l /= launch.n \/ launch.step = "done"

\* After close(), the task and finish(): a failed launch is marked stopped.
StopSettled(c) ==
    /\ stopOf[c].step = "wait"
    /\ LaunchIsOver(stopOf[c].on)
    /\ IF status[stopOf[c].on] = "stopped"
       THEN stopOf' = [stopOf EXCEPT ![c].step = "returned"] /\ UNCHANGED status
       ELSE /\ stopOf' = [stopOf EXCEPT ![c].step = "project"]
            /\ status' = [status EXCEPT ![stopOf[c].on] = "stopped"]
    /\ StopSideOnly /\ UNCHANGED row

StopProjected(c) ==
    /\ stopOf[c].step = "project"
    /\ row' = "stopped"
    /\ stopOf' = [stopOf EXCEPT ![c].step = "returned"]
    /\ StopSideOnly /\ UNCHANGED status

StopProcess(c) == StopSettled(c) \/ StopProjected(c)

\* stop() up to its first await, by a caller.
EnterStop(c) ==
    IF launch.n = 0
    THEN stopOf' = [stopOf EXCEPT ![c] = [step |-> "returned", on |-> 0]] /\ UNCHANGED launch
    ELSE /\ stopOf' = [stopOf EXCEPT ![c] = [step |-> "wait", on |-> launch.n]]
         /\ launch' = StopRequested(launch)

-----------------------------------------------------------------------------
(* executeRestart() and restart() *)

\* The check of a timer without the status of the launch.
StillDueAnyStatus(r) == ~ShuttingDown /\ slot[r].epoch = epoch

\* The check of a timer: nothing cancelled it and the launch has failed.
StillDue(r) == ~ShuttingDown /\ slot[r].epoch = epoch /\ status[launch.n] = "error"

RecoverOnly == UNCHANGED <<row, alive, epoch, starter, stopper, shutdown, asked, startCalls,
                           stopCalls>>
LaunchKept == UNCHANGED <<launch, status, task, recovered>>

At(r, s) == slot' = [slot EXCEPT ![r].step = s]
EndRecovery(r) == slot' = [slot EXCEPT ![r] = IdleSlot]

Fire(r) ==
    /\ slot[r].step = "timer"
    /\ TimersOutlastStops => stopper = "idle"
    /\ mapped' = 0
    /\ IF StillDue(r)
       THEN At(r, "log") /\ attempts' = slot[r].attempt
       ELSE EndRecovery(r) /\ UNCHANGED attempts
    /\ RecoverOnly /\ LaunchKept /\ UNCHANGED <<stopOf, restart>>

\* The second check, and restart() up to its first await.
Resume(r) ==
    /\ slot[r].step = "log"
    /\ IF ShuttingDown \/ slot[r].epoch /= epoch
       THEN EndRecovery(r) /\ UNCHANGED restart
       ELSE IF restart.by /= 0
       THEN At(r, "failed") /\ UNCHANGED restart
       ELSE At(r, "preflight") /\ restart' = [by |-> r, aborted |-> FALSE]
    /\ RecoverOnly /\ LaunchKept /\ UNCHANGED <<stopOf, mapped, attempts>>

Release == restart' = [by |-> 0, aborted |-> FALSE]

\* The preflight passes and the failed launch is stopped, or restart() rejects.
Preflighted(r) ==
    /\ slot[r].step = "preflight"
    /\ \/ /\ row \in Preflightable /\ ~restart.aborted
          /\ EnterStop("recovery") /\ At(r, "stopping") /\ UNCHANGED restart
       \/ At(r, "failed") /\ Release /\ UNCHANGED <<launch, stopOf>>
    /\ RecoverOnly /\ UNCHANGED <<status, task, mapped, attempts, recovered>>

\* restart() after its own stop(): a stop asked meanwhile cancels it.
Relaunch(r) ==
    /\ slot[r].step = "stopping"
    /\ stopOf["recovery"].step = "returned"
    /\ stopOf' = [stopOf EXCEPT !["recovery"] = IdleStop]
    /\ Release
    /\ IF restart.aborted \/ ShuttingDown \/ ~PreviousOver
       THEN At(r, "failed") /\ UNCHANGED <<launch, status, task, recovered>>
       ELSE /\ NewLaunch
            /\ slot' = [slot EXCEPT ![r].step = "await", ![r].launch = launch.n + 1]
            /\ recovered' = IF slot[r].epoch = epoch THEN recovered + 1 ELSE recovered
    /\ RecoverOnly /\ UNCHANGED <<mapped, attempts>>

\* The task of the new launch ends; a success keeps the attempts.
Recovered(r) ==
    /\ slot[r].step = "await"
    /\ \/ task[slot[r].launch] = "up" /\ EndRecovery(r)
       \/ /\ task[slot[r].launch] = "failed"
          /\ slot' = [slot EXCEPT ![r].step = "failed", ![r].launch = 0]
    /\ RecoverOnly /\ LaunchKept /\ UNCHANGED <<stopOf, restart, mapped, attempts>>

\* One attempt too few.
MayTryAgainOnceLess(r) ==
    /\ ~ShuttingDown /\ slot[r].epoch = epoch /\ slot[r].attempt + 1 < MaxAttempts
    /\ status[launch.n] = "error"

\* A failed attempt is followed by another one.
MayTryAgain(r) ==
    /\ ~ShuttingDown /\ slot[r].epoch = epoch /\ slot[r].attempt < MaxAttempts
    /\ status[launch.n] = "error"

TryAgain(r) ==
    /\ slot[r].step = "failed"
    /\ IF MayTryAgain(r)
       THEN /\ slot' = [k \in Slots |->
                          IF k = r THEN [slot[r] EXCEPT !.step = "announce", !.attempt = @ + 1]
                          ELSE IF k = mapped THEN IdleSlot ELSE slot[k]]
            /\ mapped' = 0
       ELSE EndRecovery(r) /\ UNCHANGED mapped
    /\ RecoverOnly /\ LaunchKept /\ UNCHANGED <<stopOf, restart, attempts>>

\* scheduleRestart() after its await, for a failed attempt.
Reschedule(r) ==
    /\ slot[r].step = "announce"
    /\ IF ShuttingDown \/ slot[r].epoch /= epoch
       THEN EndRecovery(r) /\ UNCHANGED mapped
       ELSE At(r, "timer") /\ mapped' = r
    /\ RecoverOnly /\ LaunchKept /\ UNCHANGED <<stopOf, restart, attempts>>

Recover(r) == \/ Fire(r) \/ Resume(r) \/ Preflighted(r) \/ Relaunch(r)
              \/ Recovered(r) \/ TryAgain(r) \/ Reschedule(r)

-----------------------------------------------------------------------------
(* startServer() *)

StartOnly == UNCHANGED <<alive, stopOf, restart, slot, mapped, epoch, attempts, stopper, shutdown,
                         recovered, stopCalls>>
StartAt(s) == starter' = [starter EXCEPT !.step = s]

\* The row read, its checks, and the cancellation reserved.
AskStart ==
    /\ starter.step = "idle" /\ ~ShuttingDown /\ startCalls < MaxStartCalls
    /\ row \notin {"running", "starting"}
    /\ starter' = [IdleStart EXCEPT !.step = "preflight"]
    /\ startCalls' = startCalls + 1 /\ asked' = "start"
    /\ UNCHANGED <<row, launch, status, task>> /\ StartOnly

\* A child that listens holds the port.
PortFree == alive = {} \/ (alive = {launch.n} /\ launch.step = "handshake")

\* preflightInboundAuth() and isPortAvailable().
PreflightStart ==
    /\ starter.step = "preflight"
    /\ \/ starter.aborted /\ StartAt("cancelled")
       \/ ~starter.aborted /\ row \in Preflightable /\ PortFree /\ StartAt("mark")
       \/ ~starter.aborted /\ starter' = IdleStart
    /\ UNCHANGED <<row, launch, status, task, asked, startCalls>> /\ StartOnly

MarkStarting ==
    /\ starter.step = "mark"
    /\ row' = "starting" /\ StartAt("call")
    /\ UNCHANGED <<launch, status, task, asked, startCalls>> /\ StartOnly

\* The lifecycle service checks once more and calls start().
CallStart ==
    /\ starter.step = "call"
    /\ \/ starter.aborted /\ StartAt("cancelled") /\ UNCHANGED <<launch, status, task>>
       \/ ~starter.aborted /\ StartAt("failed") /\ UNCHANGED <<launch, status, task>>
       \/ /\ ~starter.aborted /\ row \in Preflightable /\ MayLaunch
          /\ NewLaunch
          /\ starter' = [starter EXCEPT !.step = "await", !.launch = launch.n + 1]
    /\ UNCHANGED <<row, asked, startCalls>> /\ StartOnly

\* The task has ended; a child that exited since is not a success.
TaskEnded ==
    /\ starter.step = "await"
    /\ task[starter.launch] /= "pending"
    /\ IF starter.aborted THEN StartAt("cancelled")
       ELSE IF task[starter.launch] = "up" /\ status[launch.n] = "running" THEN StartAt("endpoint")
       ELSE StartAt("failed")
    /\ UNCHANGED <<row, launch, status, task, asked, startCalls>> /\ StartOnly

\* A success writes the endpoint only: READY has projected the status already.
AnswerStart ==
    /\ \/ starter.step = "endpoint" /\ UNCHANGED row
       \/ starter.step = "cancelled" /\ row' = "stopped"
       \/ starter.step = "failed" /\ row' = "error"
    /\ starter' = IdleStart
    /\ UNCHANGED <<launch, status, task, asked, startCalls>> /\ StartOnly

StartServer == PreflightStart \/ MarkStarting \/ CallStart \/ TaskEnded \/ AnswerStart

-----------------------------------------------------------------------------
(* stopServer() *)

AskStop ==
    /\ stopper = "idle" /\ stopCalls < MaxStopCalls
    /\ AbortStart
    /\ launch' = IF HeardByLaunch THEN StopRequested(launch) ELSE launch
    /\ CancelRestart
    /\ stopper' = "read" /\ stopCalls' = stopCalls + 1 /\ asked' = "stop"
    /\ UNCHANGED <<row, status, task, alive, stopOf, restart, shutdown, startCalls>>

StopOnly == UNCHANGED <<status, task, alive, slot, mapped, epoch, attempts, starter, shutdown,
                        recovered, startCalls, stopCalls>>

Answer(a) == asked' = IF asked = "stop" THEN a ELSE asked

\* The row read: a server that reads stopped is left alone.  Stopping, which is
\* refused too, would be another stop's.
ReadStatus ==
    /\ stopper = "read"
    /\ \/ row = "stopped" /\ stopper' = "idle" /\ Answer("told")
       \/ row /= "stopped" /\ stopper' = "mark" /\ UNCHANGED asked
    /\ StopOnly /\ UNCHANGED <<row, launch, stopOf, restart>>

MarkStopping ==
    /\ stopper = "mark"
    /\ row' = "stopping" /\ stopper' = "call"
    /\ StopOnly /\ UNCHANGED <<launch, stopOf, restart, asked>>

\* stop() aborts a restart that is under way.
CallStop ==
    /\ stopper = "call"
    /\ EnterStop("user") /\ stopper' = "stop"
    /\ restart' = [restart EXCEPT !.aborted = restart.by /= 0]
    /\ StopOnly /\ UNCHANGED <<row, asked>>

AnswerStop ==
    /\ stopper = "stop"
    /\ stopOf["user"].step = "returned"
    /\ stopOf' = [stopOf EXCEPT !["user"] = IdleStop]
    /\ row' = "stopped" /\ stopper' = "idle" /\ Answer("stopped")
    /\ StopOnly /\ UNCHANGED <<launch, restart>>

StopServer == ReadStatus \/ MarkStopping \/ CallStop \/ AnswerStop

-----------------------------------------------------------------------------
(* onModuleDestroy() of the three services, up to their first awaits *)

ShutDown ==
    /\ MayShutDown /\ shutdown = "no"
    /\ shutdown' = "draining"
    /\ AbortStart
    /\ restart' = [restart EXCEPT !.aborted = restart.by /= 0]
    /\ EnterStop("shutdown")
    /\ IF mapped /= 0 THEN CancelRestart
       ELSE UNCHANGED <<slot, mapped, epoch, attempts, recovered>>
    /\ UNCHANGED <<row, status, task, alive, stopper, asked, startCalls, stopCalls>>

RecoveriesOver == \A r \in Slots : slot[r].step \in {"idle", "timer"}

\* The hooks do not await the stop of the launches.
DrainedUnstopped == starter.step = "idle" /\ RecoveriesOver

\* The launches are stopped, the start and the recoveries have ended.
Drained == stopOf["shutdown"].step = "returned" /\ starter.step = "idle" /\ RecoveriesOver

Drain ==
    /\ shutdown = "draining" /\ Drained
    /\ shutdown' = "done"
    /\ UNCHANGED <<row, launch, status, task, alive, stopOf, restart, slot, mapped, epoch, attempts,
                   starter, stopper, asked, recovered, startCalls, stopCalls>>

-----------------------------------------------------------------------------
RecoveryNext ==
    \/ AskStart \/ AskStop \/ ShutDown
    \/ Activate \/ Finish \/ StartServer \/ StopServer \/ Drain
    \/ \E l \in Launches : Exit(l)
    \/ \E c \in Callers : StopProcess(c)
    \/ \E r \in Slots : Recover(r)

RecoverySpec == RecoveryInit /\ [][RecoveryNext]_recoveryVars

\* A closed channel ends its child: asked to stop, and killed after shutdownMs.
ClosedExits == launch.closing /\ Exit(launch.n)

\* Database calls, timers and file reads come back; children may run for ever.
RecoveryFairness ==
    /\ WF_recoveryVars(Activate) /\ WF_recoveryVars(Finish) /\ WF_recoveryVars(ClosedExits)
    /\ WF_recoveryVars(StartServer) /\ WF_recoveryVars(StopServer) /\ WF_recoveryVars(Drain)
    /\ \A c \in Callers : WF_recoveryVars(StopProcess(c))
    /\ \A r \in Slots : WF_recoveryVars(Recover(r))

FairRecoverySpec == RecoverySpec /\ RecoveryFairness

-----------------------------------------------------------------------------
(* Properties *)

\* A child that nobody is closing.
Serving == \E l \in alive : ~(l = launch.n /\ launch.closing)

\* However starts, stops and recoveries overlap, the server never has two
\* child processes: each launch waits for the end of the previous one.
OneChild == Cardinality(alive) <= 1

\* Once stopServer() has been carried out, no child serves until the next start:
\* no start, restart or timer that was under way brings one up afterwards.
StopWins == asked = "stopped" => ~Serving

\* Who is told that the server is stopped has a stopped server.
StopTold == asked = "told" => ~Serving

\* Until somebody stops the server, recovery launches it at most
\* maxRestartAttempts times, whatever timers and failures overlap.  Here the
\* server is started while nothing recovers it (StartsApart): a start that
\* overlaps a recovery can leave two of them, and then there is no such bound.
RecoveryBounded == recovered <= MaxAttempts

\* When a start launches the server, no restart that is still valid is scheduled
\* or under way.
Launching == starter.step = "await" /\ starter.launch = launch.n /\ launch.step = "store"
StartsApart == Launching => \A r \in Slots : slot[r].step /= "idle" => slot[r].epoch /= epoch

\* Nothing is under way.
AtRest ==
    /\ launch.step \in {"none", "up", "done"} /\ (launch.step = "up" => launch.n \in alive)
    /\ starter.step = "idle" /\ stopper = "idle" /\ shutdown /= "draining"
    /\ \A c \in Callers : stopOf[c].step \in {"idle", "returned"}
    /\ \A r \in Slots : slot[r].step = "idle"

\* When all has settled, a server shown as running has its child.
RunningIsReal == AtRest /\ row = "running" => alive /= {}

\* After the shutdown hooks nothing runs and nothing is left that could start.
ShutdownFinal ==
    shutdown = "done" =>
        alive = {} /\ starter.step = "idle" /\ launch.step \in {"none", "done"} /\ RecoveriesOver

\* stop(), finish(), restart() and the shutdown hooks wait for each other, and
\* every stop and every shutdown comes to its end.
StopsEnd == (stopper /= "idle" ~> stopper = "idle") /\ (shutdown = "draining" ~> shutdown = "done")

\* A published child that nobody stops is gone, and its end is not yet reported.
Failed(l) == /\ launch.n = l /\ launch.step \in {"up", "settling"} /\ ~launch.stopReq
             /\ task[l] = "up" /\ l \notin alive

\* A published child that fails is replaced, unless the attempts are used up or
\* somebody stops it, starts another one or shuts down meanwhile.
FailureAnswered ==
    \A l \in Launches :
        Failed(l) ~> Serving \/ attempts = MaxAttempts \/ starter.launch > l
                     \/ stopper /= "idle" \/ ShuttingDown
=============================================================================
