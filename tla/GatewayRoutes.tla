---------------------------- MODULE GatewayRoutes ----------------------------
(***************************************************************************)
(* The route table of the gateway: GatewayRouteSnapshotService, its        *)
(* catalog of active routes, and the requests that change both.            *)
(*                                                                         *)
(* A deployment loads the row of its runtime asset, saves it, plans a      *)
(* candidate, replays it and activates it: in one transaction the routes   *)
(* in memory are switched first and the row is committed after.  A stop    *)
(* or a delete changes the row and then tells the snapshot service, which  *)
(* takes the routes away at once and remembers the asset as removed.  A    *)
(* reload reads the committed rows and replaces the table unless the       *)
(* lifecycle has moved on meanwhile.  Requests are asynchronous: between   *)
(* any two of their steps those of other requests run.                     *)
(*                                                                         *)
(* The routes of one revision of one asset are one value.  Generations go  *)
(* on counting across a restart, where the code begins again at 0.         *)
(***************************************************************************)
EXTENDS Integers, FiniteSets

CONSTANTS
    Assets, Revisions,
    Deploys, Stops,     \* requests, each used once
    AssetOf,            \* the asset a request names
    None, Unset,        \* no route; no rollback entry
    MaxCrashes          \* bound: how often the process goes down

ASSUME AssetOfAssumption == AssetOf \in [Deploys \cup Stops -> Assets]
ASSUME NamesAssumption == None \notin Revisions /\ Unset \notin Revisions /\ None # Unset
ASSUME CrashesAssumption == MaxCrashes \in Nat

VARIABLES
    row,        \* RuntimeAssetEntity: status and metadata.activeRevision
    persisted,  \* GatewayRouteSnapshotEntity: the revisions ever activated
    deploy, stop,
    served,     \* snapshot: the revision whose routes answer requests
    candidates, \* candidateSnapshots
    rollback,   \* rollbackSnapshots
    catalog,    \* activeRouteCatalog
    generation, removed,
    reload, queued,
    up, crashes,
    held,       \* history: what the row said since the asset's last event
    deployedAt, \* history: generation of the last deployed event
    settled     \* history: generation the last finished reload began at

memory   == <<served, candidates, rollback, catalog>>
refresh  == <<reload, queued>>
epoch    == <<generation, removed>>
process  == <<up, crashes>>
history  == <<held, deployedAt, settled>>
vars     == <<row, persisted, deploy, stop, memory, epoch, refresh, process, history>>

Route    == Revisions \cup {None}
Statuses == {"draft", "active", "offline", "deleted"}
Row      == [status : Statuses, revision : Route]
NoRow    == [status |-> "deleted", revision |-> None]
Draft    == [status |-> "draft", revision |-> None]
Active(r) == [status |-> "active", revision |-> r]

\* What a row lets the gateway serve: an active row with an active revision.
Live(r)  == IF r.status = "active" THEN r.revision ELSE None

Idle     == [pc |-> "idle", row |-> NoRow, planned |-> None, revision |-> None,
             previous |-> None]
DeploySteps == {"idle", "loaded", "saved", "planned", "passed", "activating",
                "switched", "committed", "done"}
Deployment  == [pc : DeploySteps, row : Row, planned : Route, revision : Route,
                previous : Route]
Stopping    == [pc : {"idle", "loaded", "offline", "gone", "done"}, row : Row]
Reload      == [pc : {"idle", "reading", "read"}, generation : Nat,
                rows : [Assets -> Route]]
NoRows      == [a \in Assets |-> None]

TypeOK ==
    /\ row \in [Assets -> Row]
    /\ persisted \subseteq Assets \X Revisions
    /\ deploy \in [Deploys -> Deployment]
    /\ stop \in [Stops -> Stopping]
    /\ served \in [Assets -> Route]
    /\ candidates \subseteq Assets \X Revisions
    /\ rollback \in [Assets -> Route \cup {Unset}]
    /\ catalog \in [Assets -> Route]
    /\ generation \in Nat
    /\ removed \subseteq Assets
    /\ reload \in Reload
    /\ queued \in BOOLEAN
    /\ up \in BOOLEAN
    /\ crashes \in 0..MaxCrashes
    /\ held \in [Assets -> SUBSET Route]
    /\ deployedAt \in Nat
    /\ settled \in Nat

\* A started process: every asset is a draft or active, and the first reload
\* has put the active ones into the table.
Init ==
    /\ row \in [Assets -> {Draft} \cup {Active(r) : r \in Revisions}]
    /\ persisted = {p \in Assets \X Revisions : row[p[1]] = Active(p[2])}
    /\ deploy = [d \in Deploys |-> Idle]
    /\ stop = [s \in Stops |-> [pc |-> "idle", row |-> NoRow]]
    /\ served = [a \in Assets |-> Live(row[a])]
    /\ catalog = served
    /\ candidates = {}
    /\ rollback = [a \in Assets |-> Unset]
    /\ generation = 0
    /\ removed = {}
    /\ reload = [pc |-> "idle", generation |-> 0, rows |-> NoRows]
    /\ queued = FALSE
    /\ up = TRUE
    /\ crashes = 0
    /\ held = [a \in Assets |-> {Live(row[a])}]
    /\ deployedAt = 0
    /\ settled = 0

-----------------------------------------------------------------------------
(* Reloads.                                                                *)

Started == [pc |-> "reading", generation |-> generation, rows |-> NoRows]

\* reload() after the generation has become g: at most one runs, and any
\* number of requests meanwhile leave one more to run after it.
UncoalescedReload(g) ==
    /\ reload' = IF reload.pc = "idle"
                   THEN [pc |-> "reading", generation |-> g, rows |-> NoRows] ELSE reload
    /\ UNCHANGED queued
RequestReload(g) ==
    /\ reload' = IF reload.pc = "idle"
                   THEN [pc |-> "reading", generation |-> g, rows |-> NoRows] ELSE reload
    /\ queued' = (queued \/ reload.pc # "idle")

\* The finally block of reload(): the queued one starts at once.
EndReload ==
    /\ reload' = IF queued THEN Started ELSE [reload EXCEPT !.pc = "idle"]
    /\ queued' = FALSE
    /\ settled' = reload.generation

\* The read view shows committed rows.  On the shared SQL.js connection it
\* would show those of an open transaction too.
Writing(a) == {d \in Deploys : AssetOf[d] = a /\ deploy[d].pc = "switched"}
SharedRows ==
    [a \in Assets |-> IF Writing(a) = {} THEN Live(row[a])
                      ELSE deploy[CHOOSE d \in Writing(a) : TRUE].revision]
CommittedRows == [a \in Assets |-> Live(row[a])]

ReadRows ==
    /\ up
    /\ reload.pc = "reading"
    /\ reload' = [reload EXCEPT !.pc = "read", !.rows = CommittedRows]
    /\ UNCHANGED <<row, persisted, deploy, stop, memory, epoch, queued, process, history>>

\* The read is refused while another transaction is open, or fails.
FailReload ==
    /\ up
    /\ reload.pc = "reading"
    /\ EndReload
    /\ UNCHANGED <<row, persisted, deploy, stop, memory, epoch, process, held, deployedAt>>

\* The lifecycle has not moved since the reload began.
AlwaysCurrent == TRUE
StillCurrent == generation = reload.generation

RawRows == reload.rows
Verified == [a \in Assets |-> IF a \in removed THEN None ELSE reload.rows[a]]

PublishReload ==
    /\ up
    /\ reload.pc = "read"
    /\ StillCurrent
    /\ served' = Verified
    /\ catalog' = Verified
    /\ EndReload
    /\ UNCHANGED <<row, persisted, deploy, stop, candidates, rollback, epoch, process,
                   held, deployedAt>>

DropReload ==
    /\ up
    /\ reload.pc = "read"
    /\ ~ StillCurrent
    /\ EndReload
    /\ UNCHANGED <<row, persisted, deploy, stop, memory, epoch, process, held, deployedAt>>

-----------------------------------------------------------------------------
(* Rows.                                                                   *)

\* TypeORM's save of a loaded entity makes the row what the entity says,
\* whatever it has become since, and inserts it when it is gone.
SaveRow(a, r) ==
    /\ row' = [row EXCEPT ![a] = r]
    /\ held' = [held EXCEPT ![a] = @ \cup {Live(r)}]

\* The event of a forgets what the row said before it.
ForgetBefore(a) == held' = [held EXCEPT ![a] = {Live(row[a])}]

-----------------------------------------------------------------------------
(* A deployment.                                                           *)

LoadForDeploy(d) ==
    /\ up
    /\ deploy[d].pc = "idle"
    /\ row[AssetOf[d]].status # "deleted"
    /\ deploy' = [deploy EXCEPT ![d].pc = "loaded", ![d].row = row[AssetOf[d]]]
    /\ UNCHANGED <<row, persisted, stop, memory, epoch, refresh, process, history>>

\* The policy binding goes into the loaded row, and all of it is saved.
SaveBinding(d) ==
    /\ up
    /\ deploy[d].pc = "loaded"
    /\ SaveRow(AssetOf[d], deploy[d].row)
    /\ deploy' = [deploy EXCEPT ![d].pc = "saved"]
    /\ UNCHANGED <<persisted, stop, memory, epoch, refresh, process, deployedAt, settled>>

\* planCandidate: a candidate for the behaviour of the moment.
Plan(d, r) ==
    /\ up
    /\ deploy[d].pc = "saved"
    /\ row[AssetOf[d]].status # "deleted"
    /\ candidates' = candidates \cup {<<AssetOf[d], r>>}
    /\ deploy' = [deploy EXCEPT ![d].pc = "planned", ![d].revision = r,
                                ![d].planned = row[AssetOf[d]].revision]
    /\ UNCHANGED <<row, persisted, stop, served, rollback, catalog, epoch, refresh,
                   process, history>>

\* Blocked by a precondition, the row is gone, or the database fails: then a
\* candidate that is planned already stays behind.
Abandon(d) ==
    /\ up
    /\ deploy[d].pc \in {"loaded", "saved", "planned"}
    /\ deploy' = [deploy EXCEPT ![d].pc = "done"]
    /\ UNCHANGED <<row, persisted, stop, memory, epoch, refresh, process, history>>

ReplayPasses(d) ==
    /\ up
    /\ deploy[d].pc = "planned"
    /\ deploy' = [deploy EXCEPT ![d].pc = "passed"]
    /\ UNCHANGED <<row, persisted, stop, memory, epoch, refresh, process, history>>

\* A failed replay, a stale candidate, or an error before the routes are
\* switched: discardCandidate.
Discard(d) ==
    /\ up
    /\ deploy[d].pc \in {"planned", "passed", "activating"}
    /\ candidates' = candidates \ {<<AssetOf[d], deploy[d].revision>>}
    /\ deploy' = [deploy EXCEPT ![d].pc = "done"]
    /\ UNCHANGED <<row, persisted, stop, served, rollback, catalog, epoch, refresh,
                   process, history>>

\* The transaction finds the active revision the plan was made for, and
\* activateCandidate notes what is served before it goes to the database.
StillPlanned(d) ==
    /\ row[AssetOf[d]].status # "deleted"
    /\ row[AssetOf[d]].revision = deploy[d].planned

BeginActivation(d) ==
    /\ up
    /\ deploy[d].pc = "passed"
    /\ StillPlanned(d)
    /\ <<AssetOf[d], deploy[d].revision>> \in candidates
    /\ deploy' = [deploy EXCEPT ![d].pc = "activating", ![d].previous = served[AssetOf[d]]]
    /\ UNCHANGED <<row, persisted, stop, memory, epoch, refresh, process, history>>

\* The routes in memory are switched inside the open transaction.
SwitchRoutes(d) ==
    /\ up
    /\ deploy[d].pc = "activating"
    /\ rollback' = [rollback EXCEPT ![AssetOf[d]] = deploy[d].previous]
    /\ served' = [served EXCEPT ![AssetOf[d]] = deploy[d].revision]
    /\ candidates' = candidates \ {<<AssetOf[d], deploy[d].revision>>}
    /\ deploy' = [deploy EXCEPT ![d].pc = "switched"]
    /\ UNCHANGED <<row, persisted, stop, catalog, epoch, refresh, process, history>>

CommitActivation(d) ==
    /\ up
    /\ deploy[d].pc = "switched"
    /\ SaveRow(AssetOf[d], Active(deploy[d].revision))
    /\ persisted' = persisted \cup {<<AssetOf[d], deploy[d].revision>>}
    /\ deploy' = [deploy EXCEPT ![d].pc = "committed"]
    /\ UNCHANGED <<stop, memory, epoch, refresh, process, deployedAt, settled>>

\* rollbackRuntimeAsset: what was noted, if anything still is.
Unrestored(a) == served
Restored(a) == IF rollback[a] = Unset THEN served ELSE [served EXCEPT ![a] = rollback[a]]

RollBack(d) ==
    /\ up
    /\ deploy[d].pc = "switched"
    /\ served' = Restored(AssetOf[d])
    /\ rollback' = [rollback EXCEPT ![AssetOf[d]] = Unset]
    /\ deploy' = [deploy EXCEPT ![d].pc = "done"]
    /\ UNCHANGED <<row, persisted, stop, candidates, catalog, epoch, refresh, process,
                   history>>

\* After the commit the run and a control event are saved; either may fail,
\* and then the deployed event is never emitted.
LoseDeployed(d) ==
    /\ up
    /\ deploy[d].pc = "committed"
    /\ deploy' = [deploy EXCEPT ![d].pc = "done"]
    /\ UNCHANGED <<row, persisted, stop, memory, epoch, refresh, process, history>>

EmitDeployed(d) ==
    /\ up
    /\ deploy[d].pc = "committed"
    /\ generation' = generation + 1
    /\ removed' = removed \ {AssetOf[d]}
    /\ RequestReload(generation + 1)
    /\ ForgetBefore(AssetOf[d])
    /\ deployedAt' = generation + 1
    /\ deploy' = [deploy EXCEPT ![d].pc = "done"]
    /\ UNCHANGED <<row, persisted, stop, memory, process, settled>>

-----------------------------------------------------------------------------
(* A stop or a delete.                                                     *)

LoadForStop(s) ==
    /\ up
    /\ stop[s].pc = "idle"
    /\ row[AssetOf[s]].status # "deleted"
    /\ stop' = [stop EXCEPT ![s] = [pc |-> "loaded", row |-> row[AssetOf[s]]]]
    /\ UNCHANGED <<row, persisted, deploy, memory, epoch, refresh, process, history>>

SaveOffline(s) ==
    /\ up
    /\ stop[s].pc = "loaded"
    /\ SaveRow(AssetOf[s], [stop[s].row EXCEPT !.status = "offline"])
    /\ stop' = [stop EXCEPT ![s].pc = "offline"]
    /\ UNCHANGED <<persisted, deploy, memory, epoch, refresh, process, deployedAt, settled>>

\* deleteRuntimeAsset removes the row and keeps the persisted snapshots.
DeleteRow(s) ==
    /\ up
    /\ stop[s].pc = "loaded"
    /\ SaveRow(AssetOf[s], NoRow)
    /\ stop' = [stop EXCEPT ![s].pc = "gone"]
    /\ UNCHANGED <<persisted, deploy, memory, epoch, refresh, process, deployedAt, settled>>

\* The control event of a stop cannot be saved: nobody is told.
LoseStopped(s) ==
    /\ up
    /\ stop[s].pc = "offline"
    /\ stop' = [stop EXCEPT ![s].pc = "done"]
    /\ UNCHANGED <<row, persisted, deploy, memory, epoch, refresh, process, history>>

\* removeRuntimeAsset, in one synchronous step.
WithoutAsset(table, a) == [table EXCEPT ![a] = None]

EmitRemoved(s) ==
    /\ up
    /\ stop[s].pc \in {"offline", "gone"}
    /\ generation' = generation + 1
    /\ removed' = removed \cup {AssetOf[s]}
    /\ served' = WithoutAsset(served, AssetOf[s])
    /\ catalog' = WithoutAsset(catalog, AssetOf[s])
    /\ ForgetBefore(AssetOf[s])
    /\ stop' = [stop EXCEPT ![s].pc = "done"]
    /\ UNCHANGED <<row, persisted, deploy, candidates, rollback, refresh, process,
                   deployedAt, settled>>

-----------------------------------------------------------------------------
(* The process.                                                            *)

Crash ==
    /\ up
    /\ crashes < MaxCrashes
    /\ up' = FALSE
    /\ crashes' = crashes + 1
    /\ deploy' = [d \in Deploys |-> IF deploy[d].pc = "idle" THEN Idle
                                    ELSE [Idle EXCEPT !.pc = "done"]]
    /\ stop' = [s \in Stops |-> IF stop[s].pc = "idle" THEN stop[s]
                                ELSE [pc |-> "done", row |-> NoRow]]
    /\ served' = NoRows
    /\ catalog' = NoRows
    /\ candidates' = {}
    /\ rollback' = [a \in Assets |-> Unset]
    /\ removed' = {}
    /\ reload' = [pc |-> "idle", generation |-> generation, rows |-> NoRows]
    /\ queued' = FALSE
    /\ UNCHANGED <<row, persisted, generation, history>>

\* onModuleInit: the application starts with the committed rows or not at all.
Restart ==
    /\ ~ up
    /\ up' = TRUE
    /\ served' = CommittedRows
    /\ catalog' = CommittedRows
    /\ settled' = generation
    /\ UNCHANGED <<row, persisted, deploy, stop, candidates, rollback, epoch, refresh,
                   crashes, held, deployedAt>>

-----------------------------------------------------------------------------
DeployStep(d) ==
    \/ LoadForDeploy(d) \/ SaveBinding(d)
    \/ \E r \in Revisions : Plan(d, r)
    \/ Abandon(d) \/ ReplayPasses(d) \/ Discard(d)
    \/ BeginActivation(d) \/ SwitchRoutes(d)
    \/ CommitActivation(d) \/ RollBack(d)
    \/ LoseDeployed(d) \/ EmitDeployed(d)

StopStep(s) ==
    \/ LoadForStop(s) \/ SaveOffline(s) \/ DeleteRow(s)
    \/ LoseStopped(s) \/ EmitRemoved(s)

ReloadStep == ReadRows \/ FailReload \/ PublishReload \/ DropReload

Next ==
    \/ \E d \in Deploys : DeployStep(d)
    \/ \E s \in Stops : StopStep(s)
    \/ ReloadStep
    \/ Crash \/ Restart

\* A pending read of the database returns or fails; requests may stop anywhere.
Spec == Init /\ [][Next]_vars /\ WF_vars(ReloadStep)

-----------------------------------------------------------------------------
(* Properties.                                                             *)

\* The catalog lists revisions an activation has committed: neither a
\* candidate, nor the routes of an open transaction, nor a rollback gets in.
CatalogIsCommitted ==
    \A a \in Assets : catalog[a] # None => <<a, catalog[a]>> \in persisted

\* A stopped or deleted asset stays out of the catalog until it is deployed
\* again, whatever a late reload read and whatever a stale save of its row
\* has put back into the database.
RemovedUnlisted == \A a \in removed : catalog[a] = None

InFlight(a) == {d \in Deploys : AssetOf[d] = a /\ deploy[d].pc \notin {"idle", "done"}}

\* Routes that were never committed answer requests only while the activation
\* that put them there is still open.
ServedIsCommitted ==
    \A a \in Assets :
        served[a] # None =>
            \/ <<a, served[a]>> \in persisted
            \/ \E d \in InFlight(a) : deploy[d].pc = "switched" /\ deploy[d].revision = served[a]

\* A reload publishes for each asset what its row has said since the last
\* event of that asset, never what it said before: a reload that began before
\* a deployment does not put the old revision back.
FreshPublication ==
    [][PublishReload => \A a \in Assets : a \in removed \/ catalog'[a] \in held[a]]_vars

\* Every deployed event is followed by a reload that began no earlier than the
\* event, however many events one running reload has coalesced.
RefreshSettles ==
    \A g \in 1..(Cardinality(Deploys) + Cardinality(Stops)) :
        deployedAt = g ~> (settled >= g \/ ~ up)

\* A stopped or deleted asset that nobody is deploying serves no requests.
StoppedStaysDown == \A a \in removed : InFlight(a) = {} => served[a] = None
=============================================================================
