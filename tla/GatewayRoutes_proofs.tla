------------------------ MODULE GatewayRoutes_proofs ------------------------
(***************************************************************************)
(* Proofs about GatewayRoutes, for any assets, revisions and requests, also*)
(* for several deployments of one asset at once.                           *)
(*                                                                         *)
(* What the catalog lists comes from the rows a reload has read, and what  *)
(* the rows say comes from an activation, directly or through the stale    *)
(* copy of a request.  So the invariant says of rows, copies and read rows *)
(* what CatalogIsCommitted says of the catalog.  Freshness rests on the    *)
(* generation: an event that forgets what a row has said moves it.         *)
(* What the routes in memory serve rests on the rollback entries as well,  *)
(* and there it matters that the deployments of one asset do not overlap.  *)
(***************************************************************************)
EXTENDS GatewayRoutes, TLAPS

\* No route of asset a, or one that an activation has committed.
Good(a, r) == r = None \/ <<a, r>> \in persisted

\* A deployment past its plan has a revision to activate.
Chosen ==
    \A d \in Deploys :
        deploy[d].pc \in {"planned", "passed", "activating", "switched"}
            => deploy[d].revision \in Revisions

RowsCommitted == \A a \in Assets : Good(a, Live(row[a]))

CopiesCommitted ==
    \A d \in Deploys : deploy[d].pc = "loaded" => Good(AssetOf[d], Live(deploy[d].row))

ReadCommitted == \A a \in Assets : Good(a, reload.rows[a])

DownForgets == ~ up => removed = {}

RowsHeld == \A a \in Assets : Live(row[a]) \in held[a]

ReadHeld ==
    /\ reload.generation <= generation
    /\ reload.pc = "read" /\ reload.generation = generation =>
           \A a \in Assets : reload.rows[a] \in held[a]

Listed == \A a \in Assets : Good(a, catalog[a])

IInv ==
    /\ TypeOK /\ Chosen
    /\ RowsCommitted /\ CopiesCommitted /\ ReadCommitted /\ Listed
    /\ DownForgets /\ RemovedUnlisted
    /\ RowsHeld /\ ReadHeld

-----------------------------------------------------------------------------
\* Live reads a route from a row.
LEMMA LiveIsRoute == ASSUME NEW r \in Row PROVE Live(r) \in Route
BY DEF Live, Row, Route

\* An activated row serves its revision.
LEMMA LiveActive == ASSUME NEW r PROVE Live(Active(r)) = r
BY DEF Live, Active

\* Neither a stopped nor a deleted asset is served.
LEMMA LiveStopped ==
    /\ Live(NoRow) = None
    /\ \A r \in Row : Live([r EXCEPT !.status = "offline"]) = None
BY DEF Live, NoRow, Row

\* The rows that requests make are rows.
LEMMA RowsMade ==
    /\ NoRow \in Row
    /\ \A r \in Route : Active(r) \in Row
    /\ \A r \in Row : [r EXCEPT !.status = "offline"] \in Row
BY DEF NoRow, Row, Active, Route, Statuses

\* The steps that a deployment takes keep it a deployment.
LEMMA DeploymentSteps ==
    ASSUME NEW D \in Deployment, NEW p \in DeploySteps
    PROVE  /\ [D EXCEPT !.pc = p] \in Deployment
           /\ [D EXCEPT !.pc = p].pc = p
           /\ [D EXCEPT !.pc = p].revision = D.revision
           /\ [D EXCEPT !.pc = p].row = D.row
BY DEF Deployment

-----------------------------------------------------------------------------
(* Types. *)

LEMMA InitTyped == Init => TypeOK
<1> SUFFICES ASSUME Init PROVE TypeOK
  OBVIOUS
<1>1. row \in [Assets -> Row]
  BY DEF Init, Row, Draft, Active, Statuses, Route
<1>2. Idle \in Deployment
  BY RowsMade DEF Idle, Deployment, DeploySteps, Route
<1>3. NoRows \in [Assets -> Route]
  BY DEF NoRows, Route
<1>4. \A a \in Assets : Live(row[a]) \in Route
  BY <1>1, LiveIsRoute
<1>5. reload \in Reload
  BY <1>3 DEF Init, Reload
<1>6. stop \in [Stops -> Stopping]
  BY RowsMade DEF Init, Stopping
<1> QED
  <2>1. deploy \in [Deploys -> Deployment]
    BY <1>2 DEF Init
  <2>2. /\ served \in [Assets -> Route] /\ catalog \in [Assets -> Route]
        /\ held \in [Assets -> SUBSET Route] /\ rollback \in [Assets -> Route \cup {Unset}]
    BY <1>4 DEF Init
  <2>3. persisted \subseteq Assets \X Revisions /\ candidates \subseteq Assets \X Revisions
    BY DEF Init
  <2>4. generation \in Nat /\ deployedAt \in Nat /\ settled \in Nat /\ removed \subseteq Assets
    BY DEF Init
  <2>5. crashes \in 0..MaxCrashes
    BY CrashesAssumption DEF Init
  <2>6. queued \in BOOLEAN /\ up \in BOOLEAN
    BY Zenon DEF Init
  <2> QED
    BY <1>1, <1>5, <1>6, <2>1, <2>2, <2>3, <2>4, <2>5, <2>6 DEF TypeOK

\* A reload that is requested or ends is one that reads or none.
LEMMA ReloadTyped ==
    ASSUME TypeOK
    PROVE  /\ \A g \in Nat : RequestReload(g) => reload' \in Reload /\ queued' \in BOOLEAN
           /\ EndReload => reload' \in Reload /\ queued' \in BOOLEAN /\ settled' \in Nat
<1>1. NoRows \in [Assets -> Route]
  BY DEF NoRows, Route
<1>2. reload \in Reload /\ generation \in Nat /\ queued \in BOOLEAN
  BY DEF TypeOK
<1>3. \A g \in Nat : [pc |-> "reading", generation |-> g, rows |-> NoRows] \in Reload
  BY <1>1 DEF Reload
<1>4. [reload EXCEPT !.pc = "idle"] \in Reload
  BY <1>2 DEF Reload
<1> QED
  BY <1>2, <1>3, <1>4 DEF RequestReload, EndReload, Started, Reload

\* The other updates of a deployment.
LEMMA DeploymentLoads ==
    ASSUME NEW D \in Deployment, NEW r \in Row, NEW p \in DeploySteps
    PROVE  [D EXCEPT !.pc = p, !.row = r] \in Deployment
BY DEF Deployment

LEMMA DeploymentPlans ==
    ASSUME NEW D \in Deployment, NEW r \in Route, NEW q \in Route, NEW p \in DeploySteps
    PROVE  [D EXCEPT !.pc = p, !.revision = r, !.planned = q] \in Deployment
BY DEF Deployment

LEMMA DeploymentNotes ==
    ASSUME NEW D \in Deployment, NEW q \in Route, NEW p \in DeploySteps
    PROVE  [D EXCEPT !.pc = p, !.previous = q] \in Deployment
BY DEF Deployment

LEMMA DeployTyped ==
    ASSUME TypeOK, Chosen, NEW d \in Deploys, DeployStep(d)
    PROVE  TypeOK'
<1> DEFINE a == AssetOf[d]
           D == deploy[d]
<1>1. /\ a \in Assets /\ D \in Deployment /\ row[a] \in Row /\ served[a] \in Route
      /\ D.row \in Row /\ D.revision \in Route /\ D.previous \in Route
      /\ row[a].revision \in Route
  BY AssetOfAssumption DEF TypeOK, Deployment, Row
<1>2. {"loaded", "saved", "planned", "passed", "activating", "switched", "committed", "done"}
        \subseteq DeploySteps
  BY DEF DeploySteps
<1>3. \A r \in Row : SaveRow(a, r) => row' \in [Assets -> Row] /\ held' \in [Assets -> SUBSET Route]
  BY <1>1, LiveIsRoute DEF SaveRow, TypeOK
<1>4. ForgetBefore(a) => held' \in [Assets -> SUBSET Route]
  BY <1>1, LiveIsRoute DEF ForgetBefore, TypeOK
<1>5. \A p \in DeploySteps :
        deploy' = [deploy EXCEPT ![d].pc = p] => deploy' \in [Deploys -> Deployment]
  BY <1>1, DeploymentSteps DEF TypeOK
<1>6. CASE LoadForDeploy(d)
  <2>1. deploy' \in [Deploys -> Deployment]
    BY <1>1, <1>2, <1>6, DeploymentLoads DEF LoadForDeploy, TypeOK
  <2> QED
    BY <1>6, <2>1 DEF LoadForDeploy, TypeOK, memory, epoch, refresh, process, history
<1>7. CASE SaveBinding(d)
  BY <1>1, <1>2, <1>3, <1>5, <1>7 DEF SaveBinding, TypeOK, memory, epoch, refresh, process
<1>8. ASSUME NEW r \in Revisions, Plan(d, r) PROVE TypeOK'
  <2>1. deploy' \in [Deploys -> Deployment]
    BY <1>1, <1>2, <1>8, DeploymentPlans DEF Plan, TypeOK, Route
  <2> QED
    BY <1>1, <1>8, <2>1 DEF Plan, TypeOK, epoch, refresh, process, history
<1>9. CASE Abandon(d)
  BY <1>2, <1>5, <1>9 DEF Abandon, TypeOK, memory, epoch, refresh, process, history
<1>10. CASE ReplayPasses(d)
  BY <1>2, <1>5, <1>10 DEF ReplayPasses, TypeOK, memory, epoch, refresh, process, history
<1>11. CASE Discard(d)
  BY <1>2, <1>5, <1>11 DEF Discard, TypeOK, epoch, refresh, process, history
<1>12. CASE BeginActivation(d)
  <2>1. deploy' \in [Deploys -> Deployment]
    BY <1>1, <1>2, <1>12, DeploymentNotes DEF BeginActivation, TypeOK
  <2> QED
    BY <1>12, <2>1 DEF BeginActivation, TypeOK, memory, epoch, refresh, process, history
<1>13. CASE SwitchRoutes(d)
  BY <1>1, <1>2, <1>5, <1>13 DEF SwitchRoutes, TypeOK, epoch, refresh, process, history
<1>14. CASE CommitActivation(d)
  <2>1. Active(D.revision) \in Row
    BY <1>1, RowsMade
  <2>2. D.revision \in Revisions
    BY <1>14 DEF Chosen, CommitActivation
  <2>3. row' \in [Assets -> Row] /\ held' \in [Assets -> SUBSET Route]
    BY <1>3, <1>14, <2>1 DEF CommitActivation
  <2>4. persisted' \subseteq Assets \X Revisions
    BY <1>1, <1>14, <2>2 DEF CommitActivation, TypeOK
  <2>5. deploy' \in [Deploys -> Deployment]
    BY <1>2, <1>5, <1>14 DEF CommitActivation
  <2> QED
    BY <1>14, <2>3, <2>4, <2>5 DEF CommitActivation, TypeOK, memory, epoch, refresh, process
<1>15. CASE RollBack(d)
  <2>1. served' \in [Assets -> Route]
    BY <1>1, <1>15 DEF RollBack, Restored, TypeOK
  <2> QED
    BY <1>1, <1>2, <1>5, <1>15, <2>1 DEF RollBack, TypeOK, epoch, refresh, process, history
<1>16. CASE LoseDeployed(d)
  BY <1>2, <1>5, <1>16 DEF LoseDeployed, TypeOK, memory, epoch, refresh, process, history
<1>17. CASE EmitDeployed(d)
  <2>1. generation + 1 \in Nat
    BY DEF TypeOK
  <2> QED
    BY <1>2, <1>4, <1>5, <1>17, <2>1, ReloadTyped DEF EmitDeployed, TypeOK, memory, process
<1> QED
  BY <1>6, <1>7, <1>8, <1>9, <1>10, <1>11, <1>12, <1>13, <1>14, <1>15, <1>16, <1>17
  DEF DeployStep

LEMMA StopTyped ==
    ASSUME TypeOK, NEW s \in Stops, StopStep(s)
    PROVE  TypeOK'
<1> DEFINE a == AssetOf[s]
<1>1. a \in Assets /\ stop[s] \in Stopping /\ row[a] \in Row /\ stop[s].row \in Row
  BY AssetOfAssumption DEF TypeOK, Stopping
<1>2. \A r \in Row : SaveRow(a, r) => row' \in [Assets -> Row] /\ held' \in [Assets -> SUBSET Route]
  BY <1>1, LiveIsRoute DEF SaveRow, TypeOK
<1>3. \A p \in {"offline", "gone", "done"} :
        stop' = [stop EXCEPT ![s].pc = p] => stop' \in [Stops -> Stopping]
  BY <1>1 DEF TypeOK, Stopping
<1>4. CASE LoadForStop(s)
  <2>1. stop' \in [Stops -> Stopping]
    BY <1>1, <1>4 DEF LoadForStop, TypeOK, Stopping
  <2> QED
    BY <1>4, <2>1 DEF LoadForStop, TypeOK, memory, epoch, refresh, process, history
<1>5. CASE SaveOffline(s)
  BY <1>1, <1>2, <1>3, <1>5, RowsMade DEF SaveOffline, TypeOK, memory, epoch, refresh, process
<1>6. CASE DeleteRow(s)
  BY <1>1, <1>2, <1>3, <1>6, RowsMade DEF DeleteRow, TypeOK, memory, epoch, refresh, process
<1>7. CASE LoseStopped(s)
  BY <1>3, <1>7 DEF LoseStopped, TypeOK, memory, epoch, refresh, process, history
<1>8. CASE EmitRemoved(s)
  <2>1. served' \in [Assets -> Route] /\ catalog' \in [Assets -> Route]
    BY <1>1, <1>8 DEF EmitRemoved, WithoutAsset, TypeOK, Route
  <2>2. held' \in [Assets -> SUBSET Route]
    BY <1>1, <1>8, LiveIsRoute DEF EmitRemoved, ForgetBefore, TypeOK
  <2>3. stop' \in [Stops -> Stopping] /\ generation' \in Nat /\ removed' \subseteq Assets
    BY <1>1, <1>3, <1>8 DEF EmitRemoved, TypeOK
  <2> QED
    BY <1>8, <2>1, <2>2, <2>3 DEF EmitRemoved, TypeOK, refresh, process
<1> QED
  BY <1>4, <1>5, <1>6, <1>7, <1>8 DEF StopStep

LEMMA RestTyped ==
    ASSUME TypeOK, ReloadStep \/ Crash \/ Restart
    PROVE  TypeOK'
<1>1. CommittedRows \in [Assets -> Route]
  BY LiveIsRoute DEF CommittedRows, TypeOK
<1>2. NoRows \in [Assets -> Route]
  BY DEF NoRows, Route
<1>3. CASE ReadRows
  <2>1. reload' \in Reload
    BY <1>1, <1>3 DEF ReadRows, TypeOK, Reload
  <2> QED
    BY <1>3, <2>1 DEF ReadRows, TypeOK, memory, epoch, process, history
<1>4. CASE FailReload
  BY <1>4, ReloadTyped DEF FailReload, TypeOK, memory, epoch, process
<1>5. CASE PublishReload
  <2>1. Verified \in [Assets -> Route]
    BY DEF Verified, TypeOK, Reload, Route
  <2> QED
    BY <1>5, <2>1, ReloadTyped DEF PublishReload, TypeOK, epoch, process
<1>6. CASE DropReload
  BY <1>6, ReloadTyped DEF DropReload, TypeOK, memory, epoch, process
<1>7. CASE Crash
  <2>1. deploy' \in [Deploys -> Deployment]
    <3>1. Idle \in Deployment /\ [Idle EXCEPT !.pc = "done"] \in Deployment
      BY RowsMade DEF Idle, Deployment, DeploySteps, Route
    <3> QED
      BY <1>7, <3>1 DEF Crash
  <2>2. stop' \in [Stops -> Stopping]
    BY <1>7, RowsMade DEF Crash, TypeOK, Stopping
  <2>3. reload' \in Reload
    BY <1>2, <1>7 DEF Crash, TypeOK, Reload
  <2>4. crashes' \in 0..MaxCrashes
    BY <1>7, CrashesAssumption DEF Crash, TypeOK
  <2> QED
    BY <1>2, <1>7, <2>1, <2>2, <2>3, <2>4 DEF Crash, TypeOK, history
<1>8. CASE Restart
  BY <1>1, <1>8 DEF Restart, TypeOK, epoch, refresh
<1> QED
  BY <1>3, <1>4, <1>5, <1>6, <1>7, <1>8 DEF ReloadStep

LEMMA StutterTyped == TypeOK /\ UNCHANGED vars => TypeOK'
BY DEF TypeOK, vars, memory, refresh, epoch, process, history

LEMMA StepTyped == TypeOK /\ Chosen /\ [Next]_vars => TypeOK'
BY DeployTyped, StopTyped, RestTyped, StutterTyped DEF Next, ReloadStep

-----------------------------------------------------------------------------
(* The parts of the invariant, step by step. *)

LEMMA InitParts ==
    ASSUME TypeOK, Init
    PROVE  /\ Chosen /\ RowsCommitted /\ CopiesCommitted /\ ReadCommitted /\ Listed
           /\ DownForgets /\ RemovedUnlisted /\ RowsHeld /\ ReadHeld
<1>1. \A a \in Assets : Good(a, Live(row[a]))
  <2> SUFFICES ASSUME NEW a \in Assets PROVE Good(a, Live(row[a]))
    OBVIOUS
  <2>1. CASE \E r \in Revisions : row[a] = Active(r)
    <3>1. PICK r \in Revisions : row[a] = Active(r)
      BY <2>1
    <3>2. <<a, r>> \in persisted
      BY <3>1 DEF Init
    <3> QED
      BY <3>1, <3>2, LiveActive DEF Good
  <2>2. CASE row[a] = Draft
    BY <2>2 DEF Good, Live, Draft
  <2> QED
    BY <2>1, <2>2 DEF Init
<1>2. \A a \in Assets : catalog[a] = Live(row[a]) /\ held[a] = {Live(row[a])}
  BY DEF Init
<1>3. \A d \in Deploys : deploy[d].pc = "idle"
  BY DEF Init, Idle
<1>4. reload = [pc |-> "idle", generation |-> 0, rows |-> NoRows] /\ generation = 0
  BY DEF Init
<1>5. removed = {} /\ up = TRUE
  BY DEF Init
<1> QED
  BY <1>1, <1>2, <1>3, <1>4, <1>5
  DEF Chosen, RowsCommitted, CopiesCommitted, ReadCommitted, Listed, DownForgets,
      RemovedUnlisted, RowsHeld, ReadHeld, NoRows, Good

LEMMA StepChosen ==
    ASSUME TypeOK, Chosen, [Next]_vars
    PROVE  Chosen'
<1> SUFFICES ASSUME NEW d \in Deploys,
                    deploy'[d].pc \in {"planned", "passed", "activating", "switched"}
             PROVE  deploy'[d].revision \in Revisions
  BY DEF Chosen
<1>1. deploy \in [Deploys -> Deployment]
  BY DEF TypeOK
<1>2. ASSUME NEW e \in Deploys, DeployStep(e) PROVE deploy'[d].revision \in Revisions
  <2>1. deploy[d] \in Deployment /\ deploy[e] \in Deployment
    BY <1>1
  <2>2. CASE d # e
    BY <1>1, <1>2, <2>2
    DEF DeployStep, LoadForDeploy, SaveBinding, Plan, Abandon, ReplayPasses, Discard,
        BeginActivation, SwitchRoutes, CommitActivation, RollBack, LoseDeployed, EmitDeployed,
        Chosen
  <2>3. ASSUME d = e, LoadForDeploy(e) \/ SaveBinding(e) \/ Abandon(e) \/ Discard(e)
                        \/ CommitActivation(e) \/ RollBack(e) \/ LoseDeployed(e) \/ EmitDeployed(e)
        PROVE  FALSE
    <3>1. deploy'[d].pc \in {"loaded", "saved", "done", "committed"}
      BY <1>1, <2>1, <2>3
      DEF LoadForDeploy, SaveBinding, Abandon, Discard, CommitActivation, RollBack,
          LoseDeployed, EmitDeployed, Deployment
    <3> QED
      BY <3>1
  <2>4. ASSUME d = e, NEW r \in Revisions, Plan(e, r) PROVE deploy'[d].revision \in Revisions
    BY <1>1, <2>1, <2>4 DEF Plan, Deployment
  <2>5. CASE d = e /\ (ReplayPasses(e) \/ SwitchRoutes(e))
    BY <1>1, <2>1, <2>5 DEF ReplayPasses, SwitchRoutes, Deployment, Chosen
  <2>6. CASE d = e /\ BeginActivation(e)
    BY <1>1, <2>1, <2>6 DEF BeginActivation, Deployment, Chosen
  <2> QED
    BY <1>2, <2>2, <2>3, <2>4, <2>5, <2>6 DEF DeployStep
<1>3. CASE Crash
  BY <1>3 DEF Crash, Idle
<1>4. CASE deploy' = deploy
  BY <1>4 DEF Chosen
<1> QED
  BY <1>2, <1>3, <1>4
  DEF Next, StopStep, LoadForStop, SaveOffline, DeleteRow, LoseStopped, EmitRemoved,
      ReloadStep, ReadRows, FailReload, PublishReload, DropReload, Restart, vars

\* Which steps change what the invariant is about.
LEMMA Touched ==
    ASSUME [Next]_vars
    PROVE  /\ \/ row' = row /\ held' = held
              \/ row' = row /\ \E d \in Deploys : EmitDeployed(d)
              \/ row' = row /\ \E s \in Stops : EmitRemoved(s)
              \/ \E d \in Deploys : SaveBinding(d) \/ CommitActivation(d)
              \/ \E s \in Stops : SaveOffline(s) \/ DeleteRow(s)
           /\ \/ persisted' = persisted
              \/ \E d \in Deploys : CommitActivation(d)
           /\ \/ reload' = reload /\ generation' = generation
              \/ ReadRows \/ Crash
              \/ EndReload /\ generation' = generation
              \/ \E d \in Deploys : EmitDeployed(d)
              \/ reload' = reload /\ \E s \in Stops : EmitRemoved(s)
           /\ \/ catalog' = catalog /\ removed' = removed /\ up' = up
              \/ PublishReload \/ Crash \/ Restart
              \/ \E d \in Deploys : EmitDeployed(d)
              \/ \E s \in Stops : EmitRemoved(s)
<1>1. CASE UNCHANGED vars
  BY <1>1 DEF vars, memory, epoch, refresh, process, history
<1>2. ASSUME NEW d \in Deploys, DeployStep(d)
      PROVE  /\ \/ row' = row /\ held' = held
                \/ row' = row /\ EmitDeployed(d)
                \/ SaveBinding(d) \/ CommitActivation(d)
             /\ persisted' = persisted \/ CommitActivation(d)
             /\ (reload' = reload /\ generation' = generation) \/ EmitDeployed(d)
             /\ (catalog' = catalog /\ removed' = removed /\ up' = up) \/ EmitDeployed(d)
  BY <1>2 DEF DeployStep, LoadForDeploy, SaveBinding, Plan, Abandon, ReplayPasses, Discard,
      BeginActivation, SwitchRoutes, CommitActivation, RollBack, LoseDeployed, EmitDeployed,
      memory, epoch, refresh, process, history
<1>3. ASSUME NEW s \in Stops, StopStep(s)
      PROVE  /\ \/ row' = row /\ held' = held
                \/ row' = row /\ EmitRemoved(s)
                \/ SaveOffline(s) \/ DeleteRow(s)
             /\ persisted' = persisted
             /\ \/ reload' = reload /\ generation' = generation
                \/ reload' = reload /\ EmitRemoved(s)
             /\ (catalog' = catalog /\ removed' = removed /\ up' = up) \/ EmitRemoved(s)
  BY <1>3 DEF StopStep, LoadForStop, SaveOffline, DeleteRow, LoseStopped, EmitRemoved,
      memory, epoch, refresh, process, history
<1>4. ASSUME ReloadStep
      PROVE  /\ row' = row /\ held' = held /\ persisted' = persisted
             /\ ReadRows \/ (EndReload /\ generation' = generation)
             /\ (catalog' = catalog /\ removed' = removed /\ up' = up) \/ PublishReload
  BY <1>4 DEF ReloadStep, ReadRows, FailReload, PublishReload, DropReload,
      memory, epoch, process, history
<1>5. ASSUME Crash \/ Restart
      PROVE  /\ row' = row /\ held' = held /\ persisted' = persisted
             /\ Crash \/ (reload' = reload /\ generation' = generation)
  BY <1>5 DEF Crash, Restart, epoch, refresh, history
<1> QED
  BY <1>1, <1>2, <1>3, <1>4, <1>5 DEF Next

LEMMA StepRows ==
    ASSUME TypeOK, RowsCommitted, CopiesCommitted, [Next]_vars
    PROVE  RowsCommitted'
<1> SUFFICES ASSUME NEW a \in Assets PROVE Good(a, Live(row[a]))'
  BY DEF RowsCommitted
<1>1. Good(a, Live(row[a]))
  BY DEF RowsCommitted
<1>2. row \in [Assets -> Row]
  BY DEF TypeOK
<1>3. CASE row' = row /\ persisted \subseteq persisted'
  BY <1>1, <1>3 DEF Good, Live
<1>4. ASSUME NEW d \in Deploys, SaveBinding(d) PROVE Good(a, Live(row[a]))'
  <2>1. persisted' = persisted /\ row' = [row EXCEPT ![AssetOf[d]] = deploy[d].row]
    BY <1>4 DEF SaveBinding, SaveRow
  <2>2. Good(AssetOf[d], Live(deploy[d].row))
    BY <1>4 DEF SaveBinding, CopiesCommitted
  <2>3. row'[a] = IF a = AssetOf[d] THEN deploy[d].row ELSE row[a]
    BY <1>2, <2>1
  <2> QED
    BY <1>1, <2>1, <2>2, <2>3 DEF Good, Live
<1>5. ASSUME NEW d \in Deploys, CommitActivation(d) PROVE Good(a, Live(row[a]))'
  <2>1. /\ row' = [row EXCEPT ![AssetOf[d]] = Active(deploy[d].revision)]
        /\ persisted' = persisted \cup {<<AssetOf[d], deploy[d].revision>>}
    BY <1>5 DEF CommitActivation, SaveRow
  <2>2. row'[a] = IF a = AssetOf[d] THEN Active(deploy[d].revision) ELSE row[a]
    BY <1>2, <2>1
  <2> QED
    BY <1>1, <2>1, <2>2, LiveActive DEF Good, Live
<1>6. ASSUME NEW s \in Stops, SaveOffline(s) \/ DeleteRow(s) PROVE Good(a, Live(row[a]))'
  <2>1. /\ persisted' = persisted /\ stop[s].row \in Row
        /\ \/ row' = [row EXCEPT ![AssetOf[s]] = NoRow]
           \/ row' = [row EXCEPT ![AssetOf[s]] = [stop[s].row EXCEPT !.status = "offline"]]
    BY <1>6 DEF SaveOffline, DeleteRow, SaveRow, TypeOK, Stopping
  <2>2. \/ row'[a] = row[a] \/ row'[a] = NoRow
        \/ row'[a] = [stop[s].row EXCEPT !.status = "offline"]
    BY <1>2, <2>1
  <2>3. Live(row'[a]) = Live(row[a]) \/ Live(row'[a]) = None
    BY <2>1, <2>2, LiveStopped
  <2> QED
    BY <1>1, <2>1, <2>3 DEF Good, Live
<1> QED
  BY <1>3, <1>4, <1>5, <1>6, Touched

LEMMA StepCopies ==
    ASSUME TypeOK, RowsCommitted, CopiesCommitted, [Next]_vars
    PROVE  CopiesCommitted'
<1> SUFFICES ASSUME NEW d \in Deploys, deploy'[d].pc = "loaded"
             PROVE  Good(AssetOf[d], Live(deploy[d].row))'
  BY DEF CopiesCommitted
<1>1. deploy \in [Deploys -> Deployment] /\ AssetOf[d] \in Assets
  BY AssetOfAssumption DEF TypeOK
<1>2. persisted \subseteq persisted'
  BY Touched DEF CommitActivation
<1>3. \/ deploy'[d] = deploy[d]
      \/ deploy'[d].row = row[AssetOf[d]]
  <2>1. ASSUME NEW e \in Deploys, DeployStep(e), d # e PROVE deploy'[d] = deploy[d]
    BY <1>1, <2>1
    DEF DeployStep, LoadForDeploy, SaveBinding, Plan, Abandon, ReplayPasses, Discard,
        BeginActivation, SwitchRoutes, CommitActivation, RollBack, LoseDeployed, EmitDeployed
  <2>2. CASE LoadForDeploy(d)
    BY <1>1, <2>2 DEF LoadForDeploy, Deployment
  <2>3. ASSUME DeployStep(d), ~ LoadForDeploy(d) PROVE FALSE
    <3>1. deploy[d] \in Deployment
      BY <1>1
    <3>2. ASSUME SaveBinding(d) \/ Abandon(d) \/ ReplayPasses(d) \/ Discard(d) \/ SwitchRoutes(d)
                 \/ CommitActivation(d) \/ RollBack(d) \/ LoseDeployed(d) \/ EmitDeployed(d)
          PROVE  FALSE
      BY <1>1, <3>1, <3>2
      DEF SaveBinding, Abandon, ReplayPasses, Discard, SwitchRoutes, CommitActivation,
          RollBack, LoseDeployed, EmitDeployed, Deployment
    <3>3. ASSUME NEW r \in Revisions, Plan(d, r) PROVE FALSE
      BY <1>1, <3>1, <3>3 DEF Plan, Deployment
    <3>4. ASSUME BeginActivation(d) PROVE FALSE
      BY <1>1, <3>1, <3>4 DEF BeginActivation, Deployment
    <3> QED
      BY <2>3, <3>2, <3>3, <3>4 DEF DeployStep
  <2>4. CASE Crash
    BY <2>4 DEF Crash, Idle
  <2> QED
    BY <2>1, <2>2, <2>3, <2>4
    DEF Next, StopStep, LoadForStop, SaveOffline, DeleteRow, LoseStopped, EmitRemoved,
        ReloadStep, ReadRows, FailReload, PublishReload, DropReload, Restart, vars
<1> QED
  BY <1>1, <1>2, <1>3 DEF Good, Live, CopiesCommitted, RowsCommitted

LEMMA StepRead ==
    ASSUME TypeOK, RowsCommitted, ReadCommitted, [Next]_vars
    PROVE  ReadCommitted'
<1> SUFFICES ASSUME NEW a \in Assets PROVE Good(a, reload.rows[a])'
  BY DEF ReadCommitted
<1>1. persisted \subseteq persisted'
  BY Touched DEF CommitActivation
<1>2. Good(a, reload.rows[a]) /\ Good(a, Live(row[a]))
  BY DEF ReadCommitted, RowsCommitted
<1>3. \/ reload'.rows = reload.rows \/ reload'.rows = NoRows \/ reload'.rows = CommittedRows
  <2>1. reload \in Reload
    BY DEF TypeOK
  <2>2. CASE ReadRows
    BY <2>1, <2>2 DEF ReadRows, Reload
  <2>3. CASE EndReload
    BY <2>1, <2>3 DEF EndReload, Started, Reload
  <2>4. ASSUME NEW d \in Deploys, EmitDeployed(d) PROVE reload'.rows \in {reload.rows, NoRows}
    BY <2>4 DEF EmitDeployed, RequestReload
  <2>5. CASE Crash
    BY <2>5 DEF Crash
  <2> QED
    BY <2>2, <2>3, <2>4, <2>5, Touched
<1> QED
  BY <1>1, <1>2, <1>3 DEF Good, NoRows, CommittedRows

LEMMA StepListed ==
    ASSUME TypeOK, RowsCommitted, ReadCommitted, Listed, [Next]_vars
    PROVE  Listed'
<1> SUFFICES ASSUME NEW a \in Assets PROVE Good(a, catalog[a])'
  BY DEF Listed
<1>1. persisted \subseteq persisted'
  BY Touched DEF CommitActivation
<1>2. Good(a, catalog[a]) /\ Good(a, reload.rows[a]) /\ Good(a, Live(row[a]))
  BY DEF Listed, ReadCommitted, RowsCommitted
<1>3. catalog'[a] \in {catalog[a], reload.rows[a], Live(row[a]), None}
  <2>1. catalog \in [Assets -> Route]
    BY DEF TypeOK
  <2>2. ASSUME NEW s \in Stops, EmitRemoved(s) PROVE catalog'[a] \in {catalog[a], None}
    BY <2>1, <2>2 DEF EmitRemoved, WithoutAsset
  <2>3. CASE PublishReload
    BY <2>3 DEF PublishReload, Verified
  <2>4. CASE Restart
    BY <2>4 DEF Restart, CommittedRows
  <2>5. CASE Crash
    BY <2>5 DEF Crash, NoRows
  <2>6. ASSUME NEW d \in Deploys, EmitDeployed(d) PROVE catalog' = catalog
    BY <2>6 DEF EmitDeployed, memory
  <2> QED
    BY <2>2, <2>3, <2>4, <2>5, <2>6, Touched
<1> QED
  BY <1>1, <1>2, <1>3 DEF Good

LEMMA StepRemoved ==
    ASSUME TypeOK, DownForgets, RemovedUnlisted, [Next]_vars
    PROVE  DownForgets' /\ RemovedUnlisted'
<1>1. removed \subseteq Assets /\ catalog \in [Assets -> Route]
  BY DEF TypeOK
<1>2. ASSUME NEW s \in Stops, EmitRemoved(s) PROVE DownForgets' /\ RemovedUnlisted'
  BY <1>1, <1>2, AssetOfAssumption
  DEF EmitRemoved, WithoutAsset, process, DownForgets, RemovedUnlisted
<1>3. ASSUME NEW d \in Deploys, EmitDeployed(d) PROVE DownForgets' /\ RemovedUnlisted'
  BY <1>3 DEF EmitDeployed, memory, process, DownForgets, RemovedUnlisted
<1>4. CASE PublishReload
  BY <1>1, <1>4 DEF PublishReload, Verified, epoch, process, DownForgets, RemovedUnlisted
<1>5. CASE Crash
  BY <1>5 DEF Crash, DownForgets, RemovedUnlisted
<1>6. CASE Restart
  BY <1>6 DEF Restart, epoch, DownForgets, RemovedUnlisted
<1>7. CASE catalog' = catalog /\ removed' = removed /\ up' = up
  BY <1>7 DEF DownForgets, RemovedUnlisted
<1> QED
  BY <1>2, <1>3, <1>4, <1>5, <1>6, <1>7, Touched

LEMMA StepHeld ==
    ASSUME TypeOK, RowsHeld, [Next]_vars
    PROVE  RowsHeld'
<1> SUFFICES ASSUME NEW a \in Assets PROVE Live(row'[a]) \in held'[a]
  BY DEF RowsHeld, Live
<1>1. row \in [Assets -> Row] /\ held \in [Assets -> SUBSET Route] /\ Live(row[a]) \in held[a]
  BY DEF TypeOK, RowsHeld
<1>2. ASSUME NEW b \in Assets, NEW r, SaveRow(b, r) PROVE Live(row'[a]) \in held'[a]
  BY <1>1, <1>2 DEF SaveRow
<1>3. ASSUME NEW b \in Assets, ForgetBefore(b), row' = row PROVE Live(row'[a]) \in held'[a]
  BY <1>1, <1>3 DEF ForgetBefore
<1>4. CASE row' = row /\ held' = held
  BY <1>1, <1>4
<1> QED
  BY <1>2, <1>3, <1>4, Touched, AssetOfAssumption
  DEF SaveBinding, CommitActivation, SaveOffline, DeleteRow, EmitDeployed, EmitRemoved

LEMMA StepReadHeld ==
    ASSUME TypeOK, RowsHeld, ReadHeld, [Next]_vars
    PROVE  ReadHeld'
<1>1. /\ reload \in Reload /\ generation \in Nat /\ reload.generation \in Nat
      /\ reload.generation <= generation
  BY DEF TypeOK, Reload, ReadHeld
<1>2. CASE ReadRows
  <2>1. reload' = [reload EXCEPT !.pc = "read", !.rows = CommittedRows]
    BY <1>2 DEF ReadRows
  <2>2. reload'.generation = reload.generation /\ reload'.rows = CommittedRows
    BY <1>1, <2>1 DEF Reload
  <2>3. generation' = generation /\ held' = held
    BY <1>2 DEF ReadRows, epoch, history
  <2> QED
    BY <1>1, <2>2, <2>3 DEF ReadHeld, RowsHeld, CommittedRows
<1>3. CASE EndReload /\ generation' = generation
  <2>1. reload'.pc # "read" \/ reload'.pc = "idle"
    BY <1>1, <1>3 DEF EndReload, Started, Reload
  <2>2. reload'.generation \in {reload.generation, generation}
    BY <1>1, <1>3 DEF EndReload, Started, Reload
  <2> QED
    BY <1>1, <1>3, <2>1, <2>2 DEF ReadHeld
<1>4. ASSUME NEW d \in Deploys, EmitDeployed(d) PROVE ReadHeld'
  <2>1. generation' = generation + 1 /\ RequestReload(generation + 1)
    BY <1>4 DEF EmitDeployed
  <2>2. \/ reload' = reload
        \/ reload'.generation = generation + 1 /\ reload'.pc = "reading"
    BY <2>1 DEF RequestReload
  <2> QED
    BY <1>1, <2>1, <2>2 DEF ReadHeld
<1>5. ASSUME NEW s \in Stops, EmitRemoved(s) PROVE ReadHeld'
  <2>1. generation' = generation + 1 /\ reload' = reload
    BY <1>5 DEF EmitRemoved, refresh
  <2> QED
    BY <1>1, <2>1 DEF ReadHeld
<1>6. CASE Crash
  BY <1>1, <1>6 DEF Crash, ReadHeld
<1>7. CASE reload' = reload /\ generation' = generation
  <2>1. CASE \A a \in Assets : held[a] \subseteq held'[a]
    BY <1>7, <2>1 DEF ReadHeld
  <2>2. CASE generation' = generation + 1
    BY <1>1, <1>7, <2>2
  <2>3. ASSUME NEW b \in Assets, NEW r, SaveRow(b, r)
        PROVE  \A a \in Assets : held[a] \subseteq held'[a]
    BY <2>3 DEF SaveRow, TypeOK
  <2> QED
    BY <2>1, <2>2, <2>3, Touched, AssetOfAssumption
    DEF SaveBinding, CommitActivation, SaveOffline, DeleteRow, EmitDeployed, EmitRemoved
<1> QED
  BY <1>2, <1>3, <1>4, <1>5, <1>6, <1>7, Touched

-----------------------------------------------------------------------------
(* Theorems. *)

\* The invariant is inductive.
THEOREM Inductive == Spec => []IInv
<1>1. Init => IInv
  BY InitTyped, InitParts DEF IInv
<1>2. IInv /\ [Next]_vars => IInv'
  BY StepTyped, StepChosen, StepRows, StepCopies, StepRead, StepListed, StepRemoved,
     StepHeld, StepReadHeld DEF IInv
<1> QED
  BY <1>1, <1>2, PTL DEF Spec

\* Every reachable state of the route table is well typed.
THEOREM TypeCorrect == Spec => []TypeOK
<1>1. IInv => TypeOK
  BY DEF IInv
<1> QED
  BY <1>1, Inductive, PTL

\* The catalog lists committed revisions only, whatever reloads read and stale
\* copies of rows put back, with any number of deployments at once.
THEOREM CatalogIsCommittedHolds == Spec => []CatalogIsCommitted
<1>1. IInv => CatalogIsCommitted
  BY DEF IInv, Listed, Good, CatalogIsCommitted
<1> QED
  BY <1>1, Inductive, PTL

\* An asset that was stopped or deleted is not in the catalog until it is
\* deployed again.
THEOREM RemovedUnlistedHolds == Spec => []RemovedUnlisted
<1>1. IInv => RemovedUnlisted
  BY DEF IInv
<1> QED
  BY <1>1, Inductive, PTL

\* No reload publishes what a row said before the last event of its asset.
THEOREM FreshPublicationHolds == Spec => FreshPublication
<1>1. IInv /\ [Next]_vars =>
        [PublishReload => \A a \in Assets : a \in removed \/ catalog'[a] \in held[a]]_vars
  <2> SUFFICES ASSUME IInv, PublishReload, NEW a \in Assets, a \notin removed
               PROVE  catalog'[a] \in held[a]
    OBVIOUS
  <2>1. catalog'[a] = reload.rows[a]
    BY DEF PublishReload, Verified
  <2>2. reload.pc = "read" /\ reload.generation = generation
    BY DEF PublishReload, StillCurrent
  <2> QED
    BY <2>1, <2>2 DEF IInv, ReadHeld
<1> QED
  BY <1>1, Inductive, PTL DEF Spec, FreshPublication

-----------------------------------------------------------------------------
(* The routes in memory.                                                   *)

\* No two deployments of one asset are open at the same time.
OneAtATime ==
    \A a \in Assets : \A d, e \in InFlight(a) : d = e

\* What an activation notes to roll back to was committed.
Noted ==
    \A d \in Deploys :
        deploy[d].pc \in {"activating", "switched"} => Good(AssetOf[d], deploy[d].previous)

\* While the routes are switched, the rollback entry is what was noted.
Revertible ==
    \A d \in Deploys : deploy[d].pc = "switched" => rollback[AssetOf[d]] = deploy[d].previous

SInv == Noted /\ Revertible /\ ServedIsCommitted

\* How one step moves a deployment that has noted something, now or before.
LEMMA NotedSteps ==
    ASSUME TypeOK, [Next]_vars, NEW d \in Deploys
    PROVE  \/ deploy'[d] = deploy[d]
           \/ BeginActivation(d) \/ SwitchRoutes(d) \/ CommitActivation(d) \/ RollBack(d) \/ Crash
           \/ /\ deploy[d].pc # "switched"
              /\ deploy'[d].pc \notin {"activating", "switched"}
<1>1. deploy \in [Deploys -> Deployment]
  BY DEF TypeOK
<1>2. ASSUME NEW e \in Deploys, DeployStep(e), d # e PROVE deploy'[d] = deploy[d]
  BY <1>1, <1>2
  DEF DeployStep, LoadForDeploy, SaveBinding, Plan, Abandon, ReplayPasses, Discard,
      BeginActivation, SwitchRoutes, CommitActivation, RollBack, LoseDeployed, EmitDeployed
<1>3. deploy[d] \in Deployment
  BY <1>1
<1>4. ASSUME \/ LoadForDeploy(d) \/ SaveBinding(d) \/ Abandon(d) \/ ReplayPasses(d) \/ Discard(d)
             \/ LoseDeployed(d) \/ EmitDeployed(d)
      PROVE  deploy[d].pc # "switched" /\ deploy'[d].pc \notin {"activating", "switched"}
  BY <1>1, <1>3, <1>4
  DEF LoadForDeploy, SaveBinding, Abandon, ReplayPasses, Discard, LoseDeployed, EmitDeployed,
      Deployment
<1>5. ASSUME NEW r \in Revisions, Plan(d, r)
      PROVE  deploy[d].pc # "switched" /\ deploy'[d].pc \notin {"activating", "switched"}
  BY <1>1, <1>3, <1>5 DEF Plan, Deployment
<1>6. CASE DeployStep(d)
  BY <1>4, <1>5, <1>6 DEF DeployStep
<1> QED
  BY <1>2, <1>6
  DEF Next, StopStep, LoadForStop, SaveOffline, DeleteRow, LoseStopped, EmitRemoved,
      ReloadStep, ReadRows, FailReload, PublishReload, DropReload, Restart, vars

\* The steps of an activation, field by field.
LEMMA ActivationSteps ==
    ASSUME TypeOK, NEW d \in Deploys
    PROVE  /\ BeginActivation(d) =>
                /\ deploy'[d].pc = "activating" /\ deploy'[d].previous = served[AssetOf[d]]
           /\ SwitchRoutes(d) =>
                /\ deploy'[d].pc = "switched" /\ deploy'[d].previous = deploy[d].previous
                /\ deploy'[d].revision = deploy[d].revision
           /\ CommitActivation(d) \/ RollBack(d) => deploy'[d].pc \in {"committed", "done"}
<1>1. deploy \in [Deploys -> Deployment] /\ deploy[d] \in Deployment
  BY DEF TypeOK
<1> QED
  BY <1>1 DEF BeginActivation, SwitchRoutes, CommitActivation, RollBack, Deployment

LEMMA PersistedGrows == ASSUME [Next]_vars PROVE persisted \subseteq persisted'
BY Touched DEF CommitActivation

LEMMA StepNoted ==
    ASSUME OneAtATime, TypeOK, SInv, [Next]_vars
    PROVE  Noted'
<1> SUFFICES ASSUME NEW d \in Deploys, deploy'[d].pc \in {"activating", "switched"}
             PROVE  Good(AssetOf[d], deploy[d].previous)'
  BY DEF Noted
<1>1. persisted \subseteq persisted'
  BY PersistedGrows
<1>2. CASE deploy'[d] = deploy[d]
  BY <1>1, <1>2 DEF SInv, Noted, Good
<1>3. CASE BeginActivation(d)
  <2>1. Good(AssetOf[d], served[AssetOf[d]])
    <3>1. \A e \in InFlight(AssetOf[d]) : deploy[e].pc # "switched"
      BY <1>3, AssetOfAssumption DEF InFlight, OneAtATime, BeginActivation
    <3> QED
      BY <3>1, AssetOfAssumption DEF SInv, ServedIsCommitted, Good
  <2> QED
    BY <1>1, <1>3, <2>1, ActivationSteps DEF Good
<1>4. CASE SwitchRoutes(d)
  BY <1>1, <1>4, ActivationSteps DEF SInv, Noted, Good, SwitchRoutes
<1>5. CASE Crash
  BY <1>5 DEF Crash, Idle
<1> QED
  BY <1>2, <1>3, <1>4, <1>5, NotedSteps, ActivationSteps

\* Who changes the routes in memory and the rollback entries.
LEMMA ServedTouched ==
    ASSUME [Next]_vars
    PROVE  \/ served' = served /\ rollback' = rollback
           \/ \E d \in Deploys : SwitchRoutes(d) \/ RollBack(d)
           \/ rollback' = rollback /\ (PublishReload \/ Restart \/ \E s \in Stops : EmitRemoved(s))
           \/ Crash
<1>1. ASSUME NEW d \in Deploys, DeployStep(d)
      PROVE  (served' = served /\ rollback' = rollback) \/ SwitchRoutes(d) \/ RollBack(d)
  BY <1>1 DEF DeployStep, LoadForDeploy, SaveBinding, Plan, Abandon, ReplayPasses, Discard,
      BeginActivation, CommitActivation, LoseDeployed, EmitDeployed, memory
<1>2. ASSUME NEW s \in Stops, StopStep(s)
      PROVE  rollback' = rollback /\ (served' = served \/ EmitRemoved(s))
  BY <1>2 DEF StopStep, LoadForStop, SaveOffline, DeleteRow, LoseStopped, EmitRemoved, memory
<1>3. ASSUME ReloadStep
      PROVE  rollback' = rollback /\ (served' = served \/ PublishReload)
  BY <1>3 DEF ReloadStep, ReadRows, FailReload, PublishReload, DropReload, memory
<1>4. CASE Restart
  BY <1>4 DEF Restart
<1>5. CASE UNCHANGED vars
  BY <1>5 DEF vars, memory
<1> QED
  BY <1>1, <1>2, <1>3, <1>4, <1>5 DEF Next

LEMMA StepRevertible ==
    ASSUME OneAtATime, TypeOK, SInv, [Next]_vars
    PROVE  Revertible'
<1> SUFFICES ASSUME NEW d \in Deploys, deploy'[d].pc = "switched"
             PROVE  rollback'[AssetOf[d]] = deploy'[d].previous
  BY DEF Revertible
<1>1. rollback \in [Assets -> Route \cup {Unset}] /\ AssetOf[d] \in Assets
  BY AssetOfAssumption DEF TypeOK
<1>2. CASE SwitchRoutes(d)
  BY <1>1, <1>2, ActivationSteps DEF SwitchRoutes
<1>3. CASE deploy'[d] = deploy[d] /\ ~SwitchRoutes(d)
  <2>1. ~RollBack(d) /\ ~Crash
    BY <1>3, ActivationSteps DEF Crash, Idle
  <2>2. ASSUME NEW e \in Deploys, SwitchRoutes(e) \/ RollBack(e)
        PROVE  rollback'[AssetOf[d]] = rollback[AssetOf[d]]
    <3>1. AssetOf[e] # AssetOf[d]
      BY <1>1, <1>3, <2>1, <2>2 DEF OneAtATime, InFlight, SwitchRoutes, RollBack
    <3> QED
      BY <1>1, <2>2, <3>1 DEF SwitchRoutes, RollBack
  <2>3. rollback'[AssetOf[d]] = rollback[AssetOf[d]]
    BY <2>1, <2>2, ServedTouched
  <2> QED
    BY <1>3, <2>3 DEF SInv, Revertible
<1>4. ~Crash
  BY DEF Crash, Idle
<1> QED
  BY <1>2, <1>3, <1>4, NotedSteps, ActivationSteps

LEMMA StepServed ==
    ASSUME OneAtATime, IInv, SInv, [Next]_vars
    PROVE  ServedIsCommitted'
<1> SUFFICES ASSUME NEW a \in Assets, served'[a] # None, <<a, served'[a]>> \notin persisted'
             PROVE  \E d \in Deploys : /\ AssetOf[d] = a /\ deploy'[d].pc = "switched"
                                       /\ deploy'[d].revision = served'[a]
  BY DEF ServedIsCommitted, InFlight
<1>0. TypeOK /\ served \in [Assets -> Route]
  BY DEF IInv, TypeOK
<1>1. persisted \subseteq persisted'
  BY PersistedGrows
<1>2. CASE served'[a] = served[a]
  <2>1. PICK d \in Deploys : /\ AssetOf[d] = a /\ deploy[d].pc = "switched"
                             /\ deploy[d].revision = served[a]
    BY <1>1, <1>2 DEF SInv, ServedIsCommitted, InFlight
  <2>2. CASE deploy'[d] = deploy[d]
    BY <1>2, <2>1, <2>2
  <2>3. CASE CommitActivation(d)
    BY <1>2, <2>1, <2>3 DEF CommitActivation
  <2>4. CASE RollBack(d)
    <3>1. /\ rollback[a] = deploy[d].previous /\ Good(a, deploy[d].previous)
          /\ deploy[d].previous \in Route
      BY <1>0, <2>1 DEF SInv, Revertible, Noted, TypeOK, Deployment
    <3>2. served'[a] = deploy[d].previous
      BY <1>0, <2>1, <2>4, <3>1, NamesAssumption DEF RollBack, Restored, Route
    <3> QED
      BY <1>1, <3>1, <3>2 DEF Good
  <2>5. CASE Crash
    BY <2>5 DEF Crash, NoRows
  <2>6. ~BeginActivation(d) /\ ~SwitchRoutes(d)
    BY <2>1 DEF BeginActivation, SwitchRoutes
  <2> QED
    BY <1>0, <2>1, <2>2, <2>3, <2>4, <2>5, <2>6, NotedSteps
<1>3. CASE served'[a] # served[a]
  <2>1. ASSUME NEW d \in Deploys, SwitchRoutes(d)
        PROVE  \E e \in Deploys : /\ AssetOf[e] = a /\ deploy'[e].pc = "switched"
                                  /\ deploy'[e].revision = served'[a]
    <3>1. AssetOf[d] = a /\ served'[a] = deploy[d].revision
      BY <1>0, <1>3, <2>1 DEF SwitchRoutes
    <3> QED
      BY <1>0, <2>1, <3>1, ActivationSteps
  <2>2. ASSUME NEW d \in Deploys, RollBack(d) PROVE FALSE
    <3>1. AssetOf[d] = a /\ deploy[d].pc = "switched"
      BY <1>0, <1>3, <2>2 DEF RollBack, Restored
    <3>2. rollback[a] = deploy[d].previous /\ Good(a, deploy[d].previous)
      BY <3>1 DEF SInv, Revertible, Noted
    <3>3. served'[a] = deploy[d].previous
      BY <1>0, <1>3, <2>2, <3>1, <3>2 DEF RollBack, Restored
    <3> QED
      BY <1>1, <3>2, <3>3 DEF Good
  <2>3. CASE PublishReload
    BY <1>1, <2>3 DEF PublishReload, Verified, IInv, ReadCommitted, Good
  <2>4. CASE Restart
    BY <1>1, <2>4 DEF Restart, CommittedRows, IInv, RowsCommitted, Good
  <2>5. CASE Crash
    BY <2>5 DEF Crash, NoRows
  <2>6. ASSUME NEW s \in Stops, EmitRemoved(s) PROVE FALSE
    BY <1>0, <1>3, <2>6 DEF EmitRemoved, WithoutAsset
  <2> QED
    BY <1>3, <2>1, <2>2, <2>3, <2>4, <2>5, <2>6, ServedTouched
<1> QED
  BY <1>2, <1>3

\* Routes that were never committed are served only while the activation that
\* switched them in is open, as long as the deployments of one asset do not
\* overlap: what one of them notes for its rollback is then never what another
\* has switched in.
THEOREM ServedIsCommittedHolds == Spec /\ []OneAtATime => []ServedIsCommitted
<1>1. Init => SInv
  <2> SUFFICES ASSUME Init PROVE SInv
    OBVIOUS
  <2>1. IInv
    BY InitTyped, InitParts DEF IInv
  <2>2. served = [a \in Assets |-> Live(row[a])] /\ \A d \in Deploys : deploy[d].pc = "idle"
    BY DEF Init, Idle
  <2> QED
    BY <2>1, <2>2 DEF SInv, Noted, Revertible, ServedIsCommitted, IInv, RowsCommitted, Good
<1>2. OneAtATime /\ IInv /\ SInv /\ [Next]_vars => SInv'
  BY StepNoted, StepRevertible, StepServed DEF SInv, IInv
<1>3. SInv => ServedIsCommitted
  BY DEF SInv
<1> QED
  BY <1>1, <1>2, <1>3, Inductive, PTL DEF Spec
=============================================================================
