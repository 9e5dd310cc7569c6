# Verification project for api-nova

TLA+ models, TLC configurations and TLAPS proofs kept beside the code of
api-nova. Paths below are relative to the repository (`src/` in
`PROJECT.json`). `PROJECT.json` maps every definition to the lines it models
and lists components, runs, hazards, findings and theorems.

    tlc -workers 2 -config MCPayloadFence.cfg MCPayloadFence.tla   # one run
    tlapm PayloadFence_proofs.tla                                  # one proof module

## 1. What the system is

api-nova turns OpenAPI documents into MCP tools and into gateway routes, runs
them, and records what they did. Four packages:

* **api-nova-parser** parses and normalises documents, and holds the
  security kernel for outgoing requests: address policy, pinned DNS, one-shot
  operation capabilities, security epochs, credential generations, redirects.
* **api-nova-server** is the MCP runtime: tools made from operations, served
  over HTTP, SSE or stdio; a "managed" entry runs it as a child process with a
  handshake over IPC.
* **api-nova-api** is the NestJS server: administration, publication,
  management of MCP child processes, the HTTP gateway, and the
  call-observability store with its payload files, outbox and webhooks.
* **api-nova-ui** is the Vue front end.

The protocols live in api-nova-api, where several processes may share one
database and one payload directory. The models follow it.

## 2. Inventory

For each component: state; operations; how it meets others; what is hard;
what makes it correct. *M* marks what is modelled.

**Payload coordination and garbage collection** (*M* `PayloadFence`).
State: a coordination row (generation, writer leases, one collector lease, one
inventory lease), payload rows, object files. Operations: acquire, renew,
commit and release a writer; acquire, assert and release the collector; one
`collect()` run (repair, scan, candidate transactions with an unlink inside);
the inventory fence. Met by: every ingest batch is a writer. Hard: leases
expire under a stalled process; an unlink outlives the transaction that
guarded it; a publication and a collection of the same object. Correct when a
readable row always has its file and the storage is never granted to two kinds
of holder.

**Payload budget and publication** (*M* `PayloadQuota`). State: ledger
row, reservation rows, final and temporary files. Operations: reserve, settle
(confirmed, unknown), publish (temporary, link, unlink), replay of an operation
that was interrupted, hold. Hard: a crash between any two of them; two
processes replaying one event. Correct when every byte on disk is charged or
reserved, the quota is never exceeded, and nothing is admitted while an
outcome is unknown.

**Subscriptions, deliveries and the delivery worker** (*M* `Delivery`).
State: subscription and revision rows, delivery rows (status, version, owner,
lease, generation, attempt counters), attempt rows; a worker's wave. Operations:
enqueue, update, remove, manual retry; claim, authorize, preflight, send,
complete. Hard: four transactions per wave with DNS and HTTP in between, lease
takeover, deletion during a send, attempts that must be counted once. Correct
when the attempt history has no gap or duplicate, a receiver's budget of
attempts holds, a deleted subscription falls silent and a runnable delivery
is served.

**Outbox** (*M* `Outbox`). State: event rows with a dispatch state and
lease, revisions by sequence number, delivery rows, a watermark. Operations:
commit of an event, change of a subscription, claim, materialize by chunks,
advance the watermark. Hard: routing is decided late but must follow the
revision in force at commit; leases run out and processes crash mid-batch.
Correct when routing is by history and the watermark never passes undispatched
events yet catches up.

**Gateway traffic control and forwarding loop** (*M* `GatewayTraffic`).
State, in memory: circuit breakers, rate windows, concurrency counters, and
where each request is. Operations: admit, attempt, success, failure, retry,
release. Hard: every request shares this state across awaits (policy events
are written in the middle of a decision). Correct when what is taken is given
back, a half-open period is bounded, an open breaker passes nobody and no
breaker state lasts for ever.

**Managed MCP lifecycle** (*M* `ManagedLifecycle`). State: one lifecycle record
per server replaced by compare-and-swap, the handles a process owns, child
processes. Operations: start, stop, event, reconcile; also checkRevision,
revoke, authorize, source isolation and security leases. Hard: start and stop
span child start-up and several commits while other processes act on the same
record; child exits race everything. Correct when one process wins a
generation, a terminal record never claims an exit nobody saw, a child
whose generation is over goes away and an exit is noticed.

**Gateway route table** (*M* `GatewayRoutes`). State: the rows of a runtime asset
(status, active revision), the persisted revisions, and in each process the
routes it serves, a rollback entry, the catalog of active routes and the reload
under way. Operations: reload (reads rows, publishes later), deploy (stage a
candidate, replay it, activate it in memory inside a transaction, announce it),
stop, delete, restart. Met by: events between the runtime assets service and
the snapshot service. Hard: a reload publishes what it read some awaits ago; a
deployment saves a row it loaded before a stop; an activation switches memory
before its transaction commits. Correct when only committed revisions are
listed, what was removed stays out, no reload goes back, and every deployment
is followed by a reload that saw it.

**Recording and ingestion of calls** (*M* `Ingestion`). State: a log file per day,
written through a bounded queue; per file a checkpoint; receipts, quarantine,
invocation rows, in-flight deltas, exit proofs. Operations: write, drop, rotate,
exit of the producer; scan, pass, failure and recovery of a collector; inference
of the end of a call. Hard: several collectors share checkpoints, a failed pass
may have committed, a torn last line is never completed, records of one call
arrive through two files, an end is inferred beside the observed one. Correct
when no line below a checkpoint is lost, a row shows the latest record, an end
is observed or inferred once, and every call is settled in the end.

**Starts, stops and automatic recovery of a managed server** (*M*
`ManagedRecovery`). State: the status row; in memory the latest launch, the
restart that holds the server, start and stop requests under way, timers, epochs
and attempts of the recovery. Operations: start, stop, launch (store, prepare,
handshake, evidence, projection), end of a launch, timer, restart, shutdown
hooks. Met by: `process.*` events between the process service, the server
manager and the error handler. Hard: all of them run at once between awaits, and
the internal stop of a restart looks like a user's. Correct when there is one
child, a stop wins over late starts and timers, attempts are bounded, the row
tells the truth and a shutdown leaves nothing behind.

Not modelled so far (state; what is hard; what would make it correct):

* *The unmanaged process manager and health checks* - child table and timers by
  server, an HTTP check on an interval; at most one child per server.
* *Lifecycle retention and audit retention* - expiry cursors; deletion order
  against references; nothing referenced is deleted.
* *Staged source recovery*, *payload inventory and checkpoints* - bounded scans
  with resumable cursors.
* *Gateway response cache* - entries by route and caller, cleared by every
  refresh; a response may be stored after the clearing.
* *Gateway proxy, policy, security, metrics* - request and response I/O.
* *Network security kernel* - epochs, one-shot capabilities, redirect chain; a
  capability used once, under the epoch that issued it.
* *Credential registry and generations* - rotation against operations in
  flight.
* *Metric buckets, callers and statistics of the ingestion* - sums over the
  receipts that `Ingestion` models.
* *Publication and the rest of runtime assets* - database workflows, batch
  publication.
* *Parser and transformer*, *MCP runtime*, *command lines*, *user interface*,
  *accounts and roles*, *assistants, catalog, documents, mail*, *database layer*,
  *scripts and vendored code* - pure conversion, delegation to libraries, or
  request-response over single rows.

How they interact: an ingest batch acquires a writer lease, reserves budget,
publishes files and commits events, receipts and payload rows in one
transaction; the sequence number given there is the one the outbox materializes
from; the outbox creates delivery rows; the delivery worker sends them. The
collector takes the same coordination row exclusively. Gateway calls and
managed MCP children are what produces the records of calls: they append to the
day's file, the collectors make facts of the lines. The database's
commit-counter row lock serialises the store's transactions, which is why a
transaction is one action of the models.

## 3. Modules

| module | models | extended by |
| --- | --- | --- |
| `PayloadPromise` | what the payload storage promises its readers, without leases and holders | `PayloadFence` (INSTANCE) |
| `DeliveryPromise` | what the webhook delivery promises receivers and administrators, without workers, leases and queues | `Delivery` (INSTANCE) |
| `PayloadFence` | `call-observability-payload.coordinator.ts`, `...-garbage.service.ts`, the writer side of `call-observability.store.ts` and `...-payload.store.ts` | `MCPayloadFence`, `PayloadFence_proofs` |
| `Delivery` | `...-delivery.worker.ts`, `...-subscriptions.service.ts`, `...-deliveries.service.ts` | `MCDelivery`, `Delivery_proofs` |
| `Outbox` | `...-outbox.service.ts` and the revisions of the subscriptions service | `MCOutbox`, `Outbox_proofs` |
| `GatewayTraffic` | `gateway-traffic-control.service.ts`, the loop of `gateway-runtime.service.ts` | `MCGatewayTraffic`, `GatewayTraffic_proofs` |
| `PayloadQuota` | `...-payload-quota.ts`, `...-payload-publication-intent.ts`, `prepare`/`publish` of `...-payload.store.ts`, `...-payload-recovery-hold.ts` | `MCPayloadQuota`, `PayloadQuota_proofs` |
| `ManagedLifecycle` | `managed-mcp-lifecycle-coordinator.service.ts`, its store, `managed-mcp-channel.ts` | `MCManagedLifecycle`, `Managed_proofs` |
| `GatewayRoutes` | `gateway-route-snapshot.service.ts`, `gateway-active-route-catalog.ts`, deploy, stop and delete of `runtime-assets.service.ts` and its revision service | `MCGatewayRoutes`, `GatewayRoutes_proofs` |
| `ManagedRecovery` | `managed-mcp-process.service.ts`, `process-error-handler.service.ts`, start and stop of `server-manager.service.ts` and `server-lifecycle.service.ts` | `MCManagedRecovery`, `Managed_proofs` |
| `Ingestion` | `call-observability.worker.ts`, `.collector.ts`, the facts and checkpoints of `.store.ts`, `source-lifecycle.service.ts`, the writer `runtime-call-audit.ts` | `MCIngestion`, `Ingestion_proofs` |

Conventions. An action is the code between two awaits, or one transaction.
What an action needs of time is a choice (a lease runs out, a retry falls due),
or, where deadlines are compared with each other, a number of ticks left.
*History variables* (`posts`, `abandoned`, `base` in `Delivery`, `inForce` in
`Outbox`, `granted` in `GatewayTraffic`, `removed`, `held`, `deployedAt` in
`GatewayRoutes`) are read by no guard. *Slips* are
operators that no definition uses: each is a wrong version of the definition
it precedes, and substituting it makes the property named beside it in
`PROJECT.json` ("mutants") fail, which shows that the property can fail.

### PayloadFence
`row` is the coordination row; `ttl` the lease time left of each token; `lock`
the collector's open transaction. `Pruned` is `prune()`, and every acquisition
starts from it. Writers go `idle, acquired, published/omitted, committed`;
collectors `repair, scan, collect, unlink, settle, release`; `LoseTransaction`
lets the database drop a candidate transaction while its unlink is under way.
An object path is the pair of body and storage generation, as the object id is
a hash over both: this is what `acquireGc` relies on when it opens a new
generation. Files carry no content; inode and mtime are modelled by dropping a
newly linked object from a collector's measured set.

### Delivery
`row` is the delivery row, `due` the rows whose `nextAttemptAt` has passed in
that order, `wave[w]` the claims of a worker with the fate of each. `Claim`
reads a window of `Window` rows and fills a wave of `Wave`. `Matches` is
`matchesClaim`, the guard of preflight and completion.

### Outbox
One sequence numbers events and revisions. A claim is processed in chunks;
after each the watermark moves. `Effective` selects the revision in force at
the event's sequence.

### GatewayTraffic
The phase of a request is the await it is in. `BeforeAttempt`, `Announced`,
`Admit`, `AttemptSucceeds`, `AttemptFails`, `Opened`, `Release` are the pieces
of the service between awaits.

### PayloadQuota
`ledger` and `res` are the rows, `final` and `temps` the directory, `job[p]`
the publication a process is in. Starts after the baseline is confirmed, stays
in one storage generation, takes a batch to hold one body. `reconcile()` of
the publication intents is not modelled: it needs a committed row that names
the file of an unsettled reservation, and `prepare()` never leaves one.

### ManagedLifecycle
`record` is the lifecycle row reduced to generation, state and
`verifiedByParent`; `handle[p]` the generation a process owns; `start[p]` and
`stop[p]` the handlers in progress; `watch[g]` the closed-observer and the
event it raises; `child[g]` the process. Since every commit moves a generation
forward or its state on, comparing records is comparing tokens (`Wins`).
`reconcile()` has the guard of the code and no more: it refuses only to end a
`current` generation that its caller owns. Its audit document calls it the
takeover after a crash, but nothing asks whether the owner lives, and the
coordinator's spec reconciles a generation whose owner still has its child
(section 6, item 10). `TakenFromLive(g)` names the states after such a takeover.
`event()` is modelled as `observeClosed()` calls it, after the exit of the child.
It is public, and on the owner a call of it with a live child would commit
`verifiedByParent` before it closes the channel (lines 547-554); only tests call it.

### GatewayRoutes
The routes of a revision are one value, the revision. `row` is the runtime asset
in the database, `persisted` the revisions committed as active, `served` the
routes in memory, `catalog` what may be published of them. A reload is `reading`
(its event moved `generation`) or `read`; `StillCurrent` compares the
generations. A deployment goes `loaded, planned, passed, activating, switched`;
`SaveBinding` puts the whole row back that was loaded. Restart clears the memory,
except that the model lets `generation` keep counting. The instance runs one
deployment per asset: two at once share one rollback entry, and a rollback can
then serve what neither committed (with `AssetOf` equal for both deployments,
`ServedIsCommitted` fails after 14 steps); the proofs allow any number, except
that of `ServedIsCommitted`, which assumes `OneAtATime`.

### Ingestion
A position is a line, the fragment of a failed append is one more; a line is
`Garbled` or the record of a phase of a call with its version. `checkpoint`,
`receipts`, `quarantined` and `row` are tables, `members` the sum of the
in-flight deltas of a call. A worker is in a scan (`todo`, `clean`), in a pass
over one file (`read`, `lines`, `partial`) or in a recovery (`candidates`). The
store commits up to 16 lines at once; here each line is a step, which adds states
between two lines and loses none. Not modelled: the 30 and 32 days of retention
and tombstones, conflicts of identity, the comparison of a sealed file with its
seal, lines over the limit, statistics. A file that appears while a scan lists
the directory is left to the next scan; that a row is 45 s old is a choice of
`BeginScan`.

### ManagedRecovery
One server of the mode `managedMcpMode`. `launch` is the entry of `launches`
with the await its `activate()` or `finish()` is in, `task` the promise that its
caller awaits, `status` the `info.status` of the launches somebody still reads.
`stopOf[c]` is a call of `stop()` by a user, a recovery or the shutdown; `restart`
the entry of `restarts` with its abort signal; a slot is one scheduled or running
`executeRestart`, `mapped` the slot whose timer is in `restartTimers`.
`starter` and `stopper` are `startServer()` and `stopServer()`, one of each at a
time (the second start is refused by the lock, the second stop by the row), and
`asked` remembers the last request and how it was answered. Each status write is
an action of its own. Checks that read files or the database may fail at any
time; writes do not fail; autoRestart stays on, health checks are off.
`onApplicationShutdown`, which runs after the modelled hooks, writes statuses
only. `TimersOutlastStops` says that the 2 s or more of a recovery timer are
longer than a stop of a child that has died; without it `StopWins` fails
(`MCManagedRecoveryFast.cfg`): a stop may begin before the failure is reported,
and the timer set then belongs to the new epoch. The names of the module are
its own, apart from those of `ManagedLifecycle`, for `Managed_proofs` extends both.

### PayloadPromise
An object is stored or not; a row is absent, promised, lapsed or gone. A promise
needs its file; only the file of an object that nobody is promised is dropped.
`KeepsPromise` maps the fence to it: `files` is the directory, a row that is
committed and not expired is a promise.

### DeliveryPromise
A delivery is absent, open, succeeded, dead or cancelled, and has made so many
requests in the present round. It succeeds only when a request was made in that
round, and then for good; one that was given up may be opened for another round,
by hand and while its subscription exists. A deletion cancels what is open; of what
it cancels, a request that had been prepared may still go out. `KeepsPromise` maps
`Delivery` to it: `pending`, `in_flight` and `retry_wait` are open, `posts` are the
requests of the round, deleted subscriptions are gone.

## 4. Runs

| run | checks | instance |
| --- | --- | --- |
| `fence` | no readable row without its file, exclusive grants, inventories attest the present, waiting writers are served, implements `PayloadPromise` | 2 writers, 1 collector, 1 inventory, 1 body, leases of 2 and 1 ticks |
| `delivery` | attempt history, deferral is free, silence after deletion, only the latest claim sends, runnable deliveries are served, implements `DeliveryPromise` | 1 subscription, 1 delivery, 2 workers, 2 attempts, 1 replay, 1 stall |
| `outbox` | routing by history, watermark sound and catching up | 2 services, 1 subscription, sequence up to 3, chunks of 1, 1 crash |
| `gateway` | concurrency conserved, half-open period bounded, rate windows held | 3 requests, 2 routes behind one breaker with shared and own limits |
| `gateway_probe_lost` | *violated*: a half-open slot is lost to a rate limit | 2 requests, 1 route |
| `quota` | occupancy covered, budget held, captured rows have files | 2 processes, 3 operations, 2 of them the same body, 3 faults |
| `managed` | verified terminals, ownership of the current child, single winner, children that are over end, exits are noticed | 2 processes, 2 generations, 1 stop, 1 crash, any recoveries |
| `routes` | the catalog and what is served are committed revisions, what was removed stays out, no reload takes a row back, a deployment is followed by a reload | 2 assets, 2 revisions, 2 deployments, 1 stop, 1 crash |
| `ingestion` | every line is counted, the latest record shows, a call is a member once, every call settles | 1 call, 2 workers, 2 days, 1 progress record, 1 fault |
| `in_flight_leak` | *violated*: the deltas of a call that ended do not sum to zero | 1 call, 1 worker, 1 day, no faults |
| `recovery` | one child, a stop that was carried out wins, recovery attempts are bounded, a shutdown is final, stops and shutdowns end, a failure is answered | 1 server, 1 start, 1 stop, 1 shutdown, 2 attempts; 5 launches, which are never reached |
| `recovery_told` | *violated*: told "already stopped", a child comes up | 1 start, 1 stop, no shutdown |

Every detailed module also states a type invariant. Seven of them are proved whole;
those of `Delivery` and `Outbox` in the parts that the other proofs rest on, for
the provers know nothing of the library's `SelectSeq` and `SortSeq`, which make
`due` and `claimed` (section 5);
none is among the properties of the runs, where it would only repeat the shape
of the state. Adding `INVARIANT TypeOK` to the configuration of a run checks it.
Five more properties are left to their proofs, which hold for all instances:
`GenerationBudget` (which `KeepsPromise` contains), `UnlinkSparesWriters`,
`NothingRoutedToDeleted`, `UncertainDegrades`, `EndsStay`.

Three configurations beside the modules pass as well and answer further questions:
`MCGatewayTrafficLive.cfg` (`HalfOpenEnds`, `OpenEnds`: on routes that configure
only a breaker, with 2 requests and 3 attempts, a breaker leaves half open and
open again as long as requests come, although a refused retry counts as a
failure and stamps `openedAt` anew, `gateway-runtime.service.ts:290`),
`MCManagedLifecycleStops.cfg` (what `managed` checks and the types, with 2 stops,
1.5 million states) and `MCManagedRecoveryTwo.cfg` (the types and the safety of `recovery`, without
`RecoveryBounded`, with 2 starts and 4 launches, 3.3 million states).

**Why the bounds are enough.** The hazards are races of two parties around one
row, so two of the parties that race are used everywhere, and one more party
where a third kind matters (collector and inventory against two writers;
three requests so that two may disturb a third). Lease lengths differ so that
one lease can end before the other and after it. `Delivery` allows two
attempts, so that a first and a last one exist, and one replay, so that a
generation can be stale; waves of several deliveries appear only in
`MCDeliveryPaused.cfg` (the proofs of `Delivery` hold for any number).
Two generations are what a stale handler of the managed lifecycle needs; one stop
races recoveries, exits and starts in `managed`, two race each other as well in
`MCManagedLifecycleStops.cfg`, and the proofs hold for any number.
Two deployments of different assets and a stop race over the one snapshot of
the routes; a second deployment of one asset is covered by the proofs.
One call with a start, a progress record and an end, spread over the files of
two days, read by two workers, has every pair of records both read in order
and met out of order; calls share nothing but the files, and the proofs hold
for any number of calls and workers.
Recovery needs a second attempt, so that a failed one is followed by another;
three slots hold every timer and restart that can overlap there. A second start
races the recovery of the first in `MCManagedRecoveryTwo.cfg`, and
`MCManagedRecoveryOverrun.cfg` shows what the single start of the run leaves out
(section 6); the proofs hold for any number of starts.
`MaxStartCalls`, `MaxStopCalls`, `MaxLaunches`, `MaxSlots`, `MaxGeneration`,
`MaxStops`, `MaxStalls`, `MaxCrashes`, `MaxFaults`, `MaxReplays`, `MaxUpdates`,
`MaxProgress`, `LastDay` and `MaxSequence` only keep the state space finite. `CHECK_DEADLOCK FALSE` is set where sessions
are used once, or bounds stop the system; the gateway never stops, and there
deadlock is checked.

**Fairness.**
* `PayloadFence`: a session that started goes on (the event loop runs it)
  unless it crashes, time passes, and a waiting batch is offered again by the
  collector worker. Nothing is assumed of maintenance starting.
* `Delivery`: workers tick on a timer, a wave is carried on (a post has an
  absolute deadline), a stopped process is restarted, backoff ends. Nothing is
  assumed of administrators.
* `Outbox`: the timer runs each service, leases end. Strong fairness of
  `MaterializeInTime` says that a claim is not for ever too slow for its 15 s
  lease, between which and its commit no network is touched.
* `GatewayTraffic` (`BusySpec`): requests in the handlers go on, time passes.
  That clients keep asking is an assumption on the environment: without
  requests no code runs that could move a breaker.
* `ManagedLifecycle`: handlers go on; a child that must exit does (SIGKILL
  5 s after a close, the 30 s handshake timer, IPC disconnect when the parent is gone).
* `GatewayRoutes`: a reload that was asked for is carried on. Nothing is
  assumed of deployments, stops or the process staying up.
* `ManagedRecovery`: database calls, file reads and timers come back, and a child
  whose channel is closed exits (SIGKILL after `shutdownMs`). Children that
  nobody closes may run for ever; nothing is assumed of users.
* `Ingestion`: the timer of one worker (`Steady`) keeps running. Nothing is
  assumed of the other workers, nor of the producer, which may stop anywhere.

## 5. Proofs

TLAPS proves these for every value of the constants (any number of sessions,
workers, subscriptions, operations, assets, calls; any lease lengths and
limits), from the ASSUMEs of the modules.

**`PayloadFence_proofs`**: `TypeCorrect`, `NoDanglingRowHolds`,
`FenceExclusiveHolds`, `UnlinkSparesWritersHolds`, `InventoryEvidenceCurrentHolds`,
`KeepsPromiseHolds`.
`NoDanglingRow` is not inductive: whether an unlink hurts depends on the
generation of what it looks at. `IInv` adds four parts: no path is of a
generation that has not been opened (`Opened`); a collector only measured
objects of generations before its own (`Measured`), so the candidate of an
unlink under way is one of them and has no live row (`Condemned`); and what a
writer of the current generation has published is still there (`Readable`). A
writer commits only in the current generation, so an unlink that arrives late,
after its lease and even its transaction have gone, never meets the path of a
writer that can still commit. Leases do not occur in this argument. Exclusion
of holders and the inventory's evidence use a second invariant, `ExclInv`:
while a grant stands no other is given, and an inventory that lapsed opens a
new generation, which its last check then misses.
`KeepsPromiseHolds` says that every step of the fence is a step of
`PayloadPromise` or leaves its variables alone: under `IInv` a commit finds its
file, which makes it a promise kept, and an unlink removes a file no row names.

**`Delivery_proofs`**: `DeletedIsSilentHolds` (each action that makes a row
active checks that its subscription is not deleted, and completion acts only on
a row that still matches the claim), `AttemptHistoryHolds` (the attempt number
of a claim that still matches is one above the count, so the row appended is the
next one), and `GenerationBudgetHolds`, `DeferralIsFreeHolds`,
`PostedByLatestClaimHolds` and `KeepsPromiseHolds`. The last four need `Ledger`. It
says of a claim whose lease still runs that it matches its row, or the row was
cancelled with its subscription (`ClaimGood`), and that it is the latest claim and
the only running one (`Alone`); of a claim that has not sent that nothing has been
sent with its attempt, and of one that has sent and still matches that the request
belongs to the present generation; and of a row that what it has used is its recorded attempts, its lost
claims and the one under way (`RowGood`). A claim that is not running may still
match, and be completed, but it can no longer send. Under `Ledger` every step is a
step of `DeliveryPromise` or leaves phases, requests and deletions alone: claims and
completions settle, a send is a request, remove() a deletion.

**`Outbox_proofs`**: `RoutedAsCommittedHolds`, `WatermarkSoundHolds`,
`NothingRoutedToDeletedHolds`. The revisions of a subscription cut the sequence
into disjoint intervals (`Chain`), and a deletion revokes all of them
(`Revoked`); so the interval that an event lies in, which is what the outbox
looks up, is that of the revision that was in force when it was committed
(`History`), and nothing is routed before its event is committed (`Fresh`). The
watermark goes up to below the least event left to dispatch, which exists
because the naturals are well-founded.

**`GatewayTraffic_proofs`**: `TypeCorrect`, `ConcurrencyConservedHolds`,
`PeriodBoundedHolds`, `WindowHeldHolds`. A step moves one request, and only
admission and release change whether it owes a release, so each counter moves
with the set it counts (any finite number of requests, any policies). While a
breaker is half open the slots handed out are those it remembers (`Period`), and
only a request that has attempts left waits for a retry (`Retrying`).

**`PayloadQuota_proofs`**: `TypeCorrect`, `BudgetHeldHolds`,
`UncertainDegradesHolds`, `CapturedHasFileHolds`, `OccupancyCoveredHolds`,
`FinalChargedHolds`. `CapturedHasFile` is strengthened by
`SeenHasFile`: a process that is past linking or verifying knows its final
path to exist, and nothing removes one within a generation.
`OccupancyCovered` compares the bytes on disk with the ledger, two sums that no
step keeps in view together. `Covered` splits them by operation: the ledger is
the sum of what each operation has reserved or settled, and every file, final or
temporary, belongs to an operation whose share pays for it; what has been linked
and not yet settled is covered by the reservation, which is of twice the size,
and a file that two operations share is charged to one that keeps it. The
sums are folds, of which the module proves by well-founded
induction on finite sets, for each sum by itself, how they change when one term
does. Two hypotheses: there are finitely many operations, and no operation is
fed to two processes (`OwnFeeds`). Without the second the bodies in place may be
uncharged (section 6), so the theorem states it rather than the model.

**`GatewayRoutes_proofs`**: `TypeCorrect`, `CatalogIsCommittedHolds`,
`RemovedUnlistedHolds`, `FreshPublicationHolds`. A revision travels from the
row of its asset through the copy a deployment or a reload holds to the catalog;
the invariant says that each of those places holds committed revisions only, so
a late reload may publish an old one but never one that was rolled back.
Freshness compares generations: a reload publishes only above the generation
it started from. Any number of deployments may be of one asset.
`ServedIsCommittedHolds` needs a second invariant, `SInv`, on the rollback entries:
what a deployment that has switched its routes would put back is a committed
revision, and so is what is served of an asset that no deployment or stop is
working on. That holds only as long as the deployments of one asset come one at a
time, which the theorem assumes of the behaviour (`OneAtATime`).

**`Ingestion_proofs`**: `TypeCorrect`, `EveryLineCountedHolds`,
`LatestRecordShownHolds`, `MemberOnceHolds`, `EndsStayHolds`. The invariant
tells the producer's story (one record for each version of a call, none after
its end), says that no worker reads past the end of its file, that the row of a
call shows the version of some record that has a receipt, and relates, for each
call, row, receipts and membership. Order of the two files does not occur in
it: a record of either day may be read first.

**`Managed_proofs`, `ManagedLifecycle`**: `TypeCorrect`, `VerifiedMeansExitedHolds`,
`CurrentIsOwnedHolds`, `SingleWinnerHolds`. None is inductive by itself. A
start that has committed its generation is its one parent, and a generation
above the record's has none (`Winner`), so only the winner spawns. A child
once gone does not come back, and a handler that saw it go carries that to its
commit (`Children`), which makes a verified terminal true (`Verified`). A recovery
only moves the record on, and claims no exit, so nothing rests on who may call it. A
handle is let go only with its child lost or told to go (`Handles`), so the
parent of the current generation still holds its own (`Owned`).

**`Managed_proofs`, `ManagedRecovery`**: `RecoveryTypeCorrect`, `OneChildHolds`,
`ShutdownFinalHolds`, `StopWinsHolds`, `RecoveryBoundedHolds`,
`RecoveryBoundedOnce`.
* One child: a launch begins only when the previous one is over, `finish()` waits
  for the end of the child, and so only the latest launch has one (`ChildIsLatest`).
* Shutdown: no launch begins after it, so the `stop()` of the hooks waits for the
  last one (`Draining`); a timer left behind finds `shuttingDown` (`DoneIsFinal`).
* Stops: `StopInv` follows a stop through its awaits. `cancelRestart()` leaves no
  recovery past its timer in the present epoch, and the start under way is
  aborted (`Outdated`); `stop()` aborts the restart that holds the server
  (`Held`, `RestartAborted`) and waits for the latest launch, which therefore
  stays the latest (`StopAwaits`) and remains stopped until the next start
  (`StoppedStays`). The hypothesis `TimersOutlastStops` excludes a timer that
  fires between; one that fires later finds the status stopped.
* Attempts: a slot is *valid* if it is of the present epoch and has not brought up
  its launch. There is at most one (`OneRecovery`), it awaits the launch under way
  (`RecoversLatest`) or finds it over (`RestartAlone`), and the launches counted are
  behind its attempt, which the map has (`Counted`). This needs that a start does
  not launch the server while a slot is valid (`StartsApart`, a hypothesis on the
  behaviour): otherwise the bound is false (section 6). `RecoveryBoundedOnce` has no
  such hypothesis; there the server is started once, as in the run.

**Only model-checked.** Liveness (`WriterServed`, `RunnableIsServed`,
`WatermarkCatchesUp`, `HalfOpenEnds`, `OpenEnds`, `OverEnds`, `ExitNoticed`,
`RefreshSettles`, `EveryCallSettles`, `StopsEnd`, `FailureAnswered`; `OpenEnds` only by
its own configuration), which is out of the prover's reach, and the type
invariants of `Delivery` and `Outbox` as a whole. Every safety invariant and
action property of a passing run is proved.

## 6. Findings

Listed runs:

1. `gateway_probe_lost`: a half-open slot is taken before the rate and
   concurrency limits; a request they refuse never gives it back, and the
   breaker stays half open (`gateway-traffic-control.service.ts:97`).
2. `in_flight_leak`: the store subtracts a call from the calls in flight only
   if its previous phase is `started`; a call that wrote a progress record is
   never subtracted (`call-observability.store.ts:1162`).
3. `recovery_told`: a stop asked while a recovery runs reads the STOPPED that
   the recovery's internal stop projects, answers "already stopped" and cancels
   nothing; the new child serves (`server-manager.service.ts:814`).

Further disagreements have a configuration beside the modules, each with one
property that TLC refutes (`tlc -config <cfg> <module>`):

4. `MCDeliveryPaused.cfg` (`MCDelivery`, `RunnableIsServed`): a claim reads the
   32 oldest due rows and skips those of paused subscriptions without moving
   them, so 32 such rows keep every other subscription from being served
   (`call-observability-delivery.worker.ts:182`; the comment at line 135 says
   "Claim only the next four runnable slots.").
5. `MCGatewayTrafficOpen.cfg` (`MCGatewayTraffic`, `OpenPassesNone`): a request
   that awaits the half-open event goes on although another one has re-opened
   the breaker (`gateway-traffic-control.service.ts:92`).
6. `MCPayloadQuotaReplay.cfg` (`MCPayloadQuota`, `FinalCharged`): two processes
   that ingest one event concurrently can leave its file charged to nobody
   (`call-observability-payload.store.ts:171`; the quota contract says
   "文件存在仍计费", a file that exists stays charged).
7. `MCGatewayRoutesStop.cfg` (`MCGatewayRoutes`, `StoppedStaysDown`): the
   rollback of a failed deployment puts back the status it read before, also
   when a stop has committed in between (`gateway-route-snapshot.service.ts:449`;
   `docs/guides/active-work-package-breakdown.md:227` has
   "candidate/rollback不发布，stop/delete同步撤销，迟到reload不得复活").
8. `MCIngestionEarly.cfg` (`MCIngestion`, `EvidenceLost`): a worker may infer
   the loss of a call whose end is in a file it has not read yet
   (`call-observability.collector.ts:223`; `call-observability.store.ts:625`
   says "Only the recovery worker calls this after establishing lost terminal
   evidence."). The inferred end gives way when the line is read.
9. `MCManagedLifecycleDouble.cfg` (`MCManagedLifecycle`, `OneReadyChild`): a stop
   by a process that does not own a generation is refused only when the record is
   `current`. One of a generation that is still starting passes, and a start after
   it brings a second child up beside the first, until the first owner meets its
   failed commit (`managed-mcp-lifecycle-coordinator.service.ts:474`;
   `docs/archive/audits/2026-09-27-c3-03-multi-process-registry.md:24` has
   "非属主 start/stop/event 失败关闭", start, stop and event of a non-owner fail
   closed, which is to remove double activity). `OverEnds` says the loser goes.
   The configuration leaves out `reconcile()`, of which the next item tells.
10. `MCManagedLifecycleTakeover.cfg` (`MCManagedLifecycle`, `TakenOverEnds`):
   `reconcile()` by a process that does not own a `current` generation commits
   `abandoned` also when its owner lives, and nothing tells the owner; its child
   runs on, `stop()` answers "already stopped", and the next start brings up a
   second one (`managed-mcp-lifecycle-coordinator.service.ts:569`; the spec does
   this at `managed-mcp-lifecycle-coordinator.spec.ts:228`). The audit document
   of item 9, line 25, has "崩溃属主的 current 保留到显式 `reconcile`", the current
   of a crashed owner stays until an explicit reconcile, and line 24 claims that
   double activity is removed. The child ends only with the owner's next start
   (refused while another generation is current), its own failure or the owner's end. This is the one exception of `OverEnds`.
11. `MCManagedRecoveryGhost.cfg` (`MCManagedRecovery`, `RunningIsReal`): a
   recovered child that exits after RUNNING has been projected and before its
   launch is published is a failed startup, which `finish()` leaves to its caller
   (`managed-mcp-process.service.ts:132`); `executeRestart` only logs and
   reschedules, so after the last attempt the row stays RUNNING without a child.
   `server-manager.service.ts:106` says terminal states are projected to avoid
   "残留 RUNNING/READY".
12. `MCManagedRecoveryOverrun.cfg` (`MCManagedRecovery`, `RecoveryBounded`): a start
   that a user asks while a recovery has just failed launches the server; its
   child fails while the failed attempt is still being logged, and both schedule
   a restart. `scheduleRestart` clears the timer in the map before it awaits the
   log and sets its own after it, so two timers with one attempt number are left
   and recovery launches the server once more than `maxRestartAttempts` allows
   (`process-error-handler.service.ts:230`; line 175 says "检查重启次数限制", check
   the limit of restarts). Found while proving the bound.

## 7. What is left out, and the plan

**Not modelled.** Most of the repository's 198 thousand lines are user
interface, CRUD services and controllers, entities and DTOs, format conversion
(the OpenAPI parser and transformer) and I/O. They keep no state whose order
of steps could go wrong, or keep it in the database alone, one row at a time;
a model of them would restate assignments. The modules cover the parts with
concurrent actors, and hence a small share of all lines.

Abstracted throughout: contents of payloads and messages, digests, identities
and their validation, wording of errors, logging, SQL. Database errors are
failed transactions where the code handles them; `ManagedLifecycle` has none,
one start per process, and leaves out `checkRevision`, `revoke`, leases and
permits, which no caller wires yet.

Known behaviours that no property covers: the late success of an attempt that
started before the breaker opened closes it; a security lease is registered
after its record has committed; a store error is reported as a conflict of the
managed lifecycle; a line that cannot be stored holds back the sources behind
it; the rollback entry of a deployment is shared by later ones; a subscription
changed between the preflight of a delivery and its send; a source that ended
without a manifest keeps every later scan unclean; a start refused during a
recovery writes ERROR over the RUNNING of the recovered child; two starts of one server in one
process, a late one of which may overwrite the handle of a newer generation
(`managed-mcp-lifecycle-coordinator.service.ts:425`); a gateway response whose
request started before a refresh is stored after the refresh cleared the cache;
two callers of the unmanaged process manager that both find no child. That a
reload on SQL.js, where all queries share one connection, must not list
uncommitted rows is what `CatalogIsCommitted` says.

Order of work:

1. Done: `PayloadFence` and `PayloadPromise`, `Delivery` and `DeliveryPromise`, `Outbox`,
   `GatewayTraffic`, `PayloadQuota`, `ManagedLifecycle`, `GatewayRoutes`, `Ingestion`,
   `ManagedRecovery`, with the proofs above.
2. Extend: several starts in one process, `checkRevision` and security leases
   in `ManagedLifecycle`; health checks in `ManagedRecovery`; retention; network
   capabilities, epochs and credential generations; the gateway's response cache.
3. Abstract specifications: a router without leases implemented by `Outbox`; one
   record per call implemented by `Ingestion`.
4. Prove the refinements of step 3 and what step 2 adds.
