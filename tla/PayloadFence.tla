---------------------------- MODULE PayloadFence ----------------------------
(***************************************************************************)
(* The database fence between payload publication and garbage collection   *)
(* of the call observability store:                                        *)
(*   call-observability-payload.coordinator.ts   the coordination row      *)
(*   call-observability-garbage.service.ts       one collect() run         *)
(*   call-observability.store.ts                 ingestBatch as a writer   *)
(*   call-observability-payload.store.ts         publish and deleteGarbage *)
(*                                                                         *)
(* Every database transaction takes the commit-counter row lock, so it is  *)
(* one action guarded by lock = None.  File input and output is not under  *)
(* the lock, except the unlink of collect(), which runs inside an open     *)
(* transaction: if the database drops that transaction the lock is gone    *)
(* while the unlink is still on its way.                                   *)
(*                                                                         *)
(* A session (writer, collector run, inventory run) is used once: its      *)
(* identity is its lease token.  A restarted process is another session.   *)
(* A lease is the time it has left; Tick is the passing of time.           *)
(*                                                                         *)
(* A few definitions are preceded by the slip a change to that code could  *)
(* make (FencedByGcOnly before Fenced, ...).  The specification does not   *)
(* use them; substituted for the definition below them, each makes a       *)
(* property fail.                                                          *)
(***************************************************************************)
EXTENDS Naturals, FiniteSets

CONSTANTS
    Writers,        \* ingest batches that hold a writer lease
    Collectors,     \* runs of collect()
    Inventories,    \* runs of withInventoryFence()
    Bodies,         \* invocation side, metadata and digest: all of an object id but the generation
    WriteLease,     \* WRITE_LEASE_MS, in ticks
    GcLease,        \* GC_LEASE_MS, in ticks
    MaxWriters,     \* MAX_WRITERS
    None

Tokens == Writers \cup Collectors \cup Inventories

ASSUME LeaseAssumption ==
    /\ WriteLease \in Nat \ {0}
    /\ GcLease \in Nat \ {0}
    /\ MaxWriters \in Nat \ {0}
ASSUME TokenAssumption ==
    /\ None \notin Tokens
    /\ Writers \cap Collectors = {}
    /\ Writers \cap Inventories = {}
    /\ Collectors \cap Inventories = {}

VARIABLES
    row,        \* the coordination row: generation, writers, gc, inventory
    ttl,        \* lease time left of every token
    lock,       \* the collector whose transaction is open, or None
    live,       \* payload rows with a fileKey, not expired
    expired,    \* payload rows with a fileKey, past their expiresAt
    cleared,    \* payload rows whose fileKey is null
    files,      \* object files present
    wpc, wpath, \* writer sessions: step, and the object path they prepare
    cpc, cgen, eligible, target, \* collector runs: step, lease generation, old objects measured, candidate
    ipc, igen, iseen             \* inventory runs: step, lease generation, rows named by the evidence

rowVars       == <<live, expired, cleared>>
writerVars    == <<wpc, wpath>>
collectorVars == <<cpc, cgen, eligible, target>>
inventoryVars == <<ipc, igen, iseen>>
vars == <<row, ttl, lock, rowVars, files, writerVars, collectorVars, inventoryVars>>

(* An object path is a content hash over the body and the storage generation. *)
Paths == Bodies \X Nat
Generation(p) == p[2]

FileRows == live \cup expired
ReadableRows == live
Rows == FileRows \cup cleared

(* Typing: a session holds one step and the grant it needs, a row one state.  *)
TypeOK ==
    /\ row \in [generation : Nat, writers : SUBSET Writers,
                gc : Collectors \cup {None}, inventory : Inventories \cup {None}]
    /\ ttl \in [Tokens -> Nat]
    /\ lock \in Collectors \cup {None}
    /\ live \subseteq Paths /\ expired \subseteq Paths /\ cleared \subseteq Paths
    /\ files \subseteq Paths
    /\ wpc \in [Writers -> {"idle", "acquired", "published", "omitted", "committed", "ended"}]
    /\ wpath \in [Writers -> Paths \cup {None}]
    /\ \A w \in Writers : wpc[w] # "idle" => wpath[w] \in Paths
    /\ cpc \in [Collectors -> {"idle", "repair", "scan", "collect", "unlink", "settle",
                               "aborted", "release", "ended"}]
    /\ cgen \in [Collectors -> Nat]
    /\ eligible \in [Collectors -> SUBSET Paths]
    /\ target \in [Collectors -> Paths \cup {None}]
    /\ ipc \in [Inventories -> {"idle", "held", "completed", "ended"}]
    /\ igen \in [Inventories -> Nat]
    /\ iseen \in [Inventories -> SUBSET Paths]

Init ==
    /\ row = [generation |-> 0, writers |-> {}, gc |-> None, inventory |-> None]
    /\ ttl = [t \in Tokens |-> 0]
    /\ lock = None
    /\ live = {} /\ expired = {} /\ cleared = {} /\ files = {}
    /\ wpc = [w \in Writers |-> "idle"] /\ wpath = [w \in Writers |-> None]
    /\ cpc = [c \in Collectors |-> "idle"] /\ cgen = [c \in Collectors |-> 0]
    /\ eligible = [c \in Collectors |-> {}] /\ target = [c \in Collectors |-> None]
    /\ ipc = [i \in Inventories |-> "idle"] /\ igen = [i \in Inventories |-> 0]
    /\ iseen = [i \in Inventories |-> {}]

-----------------------------------------------------------------------------
(* The coordination row. *)

Unexpired(t) == ttl[t] > 0

(* prune: drop expired writers, then an expired gc, then an inventory that *)
(* lapsed with nobody else present, which also opens a new generation.     *)
LiveWriters == {w \in row.writers : Unexpired(w)}
StuckGc == row.gc
PrunedGc == IF row.gc # None /\ ~Unexpired(row.gc) THEN None ELSE row.gc
InventoryLapsed ==
    /\ row.inventory # None
    /\ ~Unexpired(row.inventory)
    /\ PrunedGc = None
    /\ LiveWriters = {}
Pruned ==
    [generation |-> IF InventoryLapsed THEN row.generation + 1 ELSE row.generation,
     writers    |-> LiveWriters,
     gc         |-> PrunedGc,
     inventory  |-> IF InventoryLapsed THEN None ELSE row.inventory]

(* acquireWriter, acquireGc and acquireInventoryFence all give way to a gc or *)
(* an inventory that prune leaves in place.                                  *)
FencedByGcOnly == Pruned.gc # None
Fenced == Pruned.gc # None \/ Pruned.inventory # None

(* acquireGc opens a new generation: all later object ids differ. *)
SameGeneration == Pruned.generation
OpenedGeneration == Pruned.generation + 1

RequireWriterOnce(w) == wpc[w] # "idle"
RequireWriter(w) ==
    /\ w \in row.writers
    /\ Unexpired(w)
    /\ row.generation = Generation(wpath[w])
    /\ ~(row.gc # None /\ Unexpired(row.gc))
    /\ row.inventory = None

AssertGc(c) ==
    /\ row.gc = c
    /\ Unexpired(c)
    /\ row.generation = cgen[c]

AssertInventoryFence(i) ==
    /\ row.inventory = i
    /\ Unexpired(i)
    /\ row.generation = igen[i]
    /\ row.gc = None
    /\ LiveWriters = {}

Extend(t, lease) == ttl' = [ttl EXCEPT ![t] = lease]

-----------------------------------------------------------------------------
(* Writers: ingestBatch inside withPreparedWriter. *)

AcquireWriter(w, b) ==
    /\ wpc[w] = "idle"
    /\ lock = None
    /\ ~Fenced
    /\ Cardinality(Pruned.writers) < MaxWriters
    /\ row' = [Pruned EXCEPT !.writers = @ \cup {w}]
    /\ Extend(w, WriteLease)
    /\ wpc' = [wpc EXCEPT ![w] = "acquired"]
    /\ wpath' = [wpath EXCEPT ![w] = <<b, Pruned.generation>>]
    /\ UNCHANGED <<lock, rowVars, files, collectorVars, inventoryVars>>

(* The heartbeat of duringWriter. *)
RenewWriter(w) ==
    /\ wpc[w] \in {"acquired", "published", "omitted"}
    /\ lock = None
    /\ RequireWriter(w)
    /\ Extend(w, WriteLease)
    /\ UNCHANGED <<row, lock, rowVars, files, writerVars, collectorVars, inventoryVars>>

(* publish links a synced temporary onto the object path; an object that is *)
(* already there is verified and kept.  A file linked anew is another inode *)
(* with another mtime than the one a collector may have measured.           *)
Publish(w) ==
    /\ wpc[w] = "acquired"
    /\ wpc' = [wpc EXCEPT ![w] = "published"]
    /\ files' = files \cup {wpath[w]}
    /\ eligible' = IF wpath[w] \in files THEN eligible
                   ELSE [c \in Collectors |-> eligible[c] \ {wpath[w]}]
    /\ UNCHANGED <<row, ttl, lock, rowVars, wpath, cpc, cgen, target, inventoryVars>>

(* A publication that fails is recorded as an omitted body without a file. *)
PublishFails(w) ==
    /\ wpc[w] = "acquired"
    /\ wpc' = [wpc EXCEPT ![w] = "omitted"]
    /\ UNCHANGED <<row, ttl, lock, rowVars, files, wpath, collectorVars, inventoryVars>>

(* commitPreparedWriter: the facts and the consumed lease in one transaction; *)
(* a payload row that exists is left as it is.                                *)
CommitWriter(w) ==
    /\ wpc[w] \in {"published", "omitted"}
    /\ lock = None
    /\ RequireWriter(w)
    /\ row' = [row EXCEPT !.writers = @ \ {w}]
    /\ ttl' = [ttl EXCEPT ![w] = 0]
    /\ live' = IF wpc[w] = "published" /\ wpath[w] \notin Rows
               THEN live \cup {wpath[w]} ELSE live
    /\ wpc' = [wpc EXCEPT ![w] = "committed"]
    /\ UNCHANGED <<lock, expired, cleared, files, wpath, collectorVars, inventoryVars>>

(* A session that fails, or finds its lease lost, releases the lease without *)
(* committing; the file it linked stays behind as an orphan.                 *)
ReleaseWriter(w) ==
    /\ wpc[w] \in {"acquired", "published", "omitted"}
    /\ lock = None
    /\ row' = [row EXCEPT !.writers = @ \ {w}]
    /\ ttl' = [ttl EXCEPT ![w] = 0]
    /\ wpc' = [wpc EXCEPT ![w] = "ended"]
    /\ UNCHANGED <<lock, rowVars, files, wpath, collectorVars, inventoryVars>>

(* The process dies, or the release itself fails: the lease stays. *)
CrashWriter(w) ==
    /\ wpc[w] \in {"acquired", "published", "omitted"}
    /\ wpc' = [wpc EXCEPT ![w] = "ended"]
    /\ UNCHANGED <<row, ttl, lock, rowVars, files, wpath, collectorVars, inventoryVars>>

-----------------------------------------------------------------------------
(* Collectors: one run of collect(). *)

AcquireGc(c) ==
    /\ cpc[c] = "idle"
    /\ lock = None
    /\ ~Fenced
    /\ Pruned.writers = {}
    /\ row' = [Pruned EXCEPT !.generation = OpenedGeneration, !.gc = c]
    /\ Extend(c, GcLease)
    /\ cpc' = [cpc EXCEPT ![c] = "repair"]
    /\ cgen' = [cgen EXCEPT ![c] = OpenedGeneration]
    \* olderThan is fixed here: the objects past the grace period at this moment
    /\ \E old \in SUBSET files : eligible' = [eligible EXCEPT ![c] = old]
    /\ UNCHANGED <<lock, rowVars, files, writerVars, target, inventoryVars>>

(* Metadata reconciliation of one expired row, in its own transaction. *)
RepairRow(c, p) ==
    /\ cpc[c] = "repair"
    /\ lock = None
    /\ AssertGc(c)
    /\ Extend(c, GcLease)
    /\ p \in expired
    /\ IF p \in files
       THEN UNCHANGED <<expired, cleared>>
       ELSE expired' = expired \ {p} /\ cleared' = cleared \cup {p}
    /\ UNCHANGED <<row, lock, live, files, writerVars, collectorVars, inventoryVars>>

(* The last fenced read before the directory scan. *)
BeginScan(c) ==
    /\ cpc[c] = "repair"
    /\ lock = None
    /\ AssertGc(c)
    /\ Extend(c, GcLease)
    /\ cpc' = [cpc EXCEPT ![c] = "scan"]
    /\ UNCHANGED <<row, lock, rowVars, files, writerVars, cgen, eligible, target, inventoryVars>>

(* scanGarbage reads the directory under no lock and with no lease check. *)
Scan(c) ==
    /\ cpc[c] = "scan"
    /\ cpc' = [cpc EXCEPT ![c] = "collect"]
    /\ eligible' = [eligible EXCEPT ![c] = @ \cap files]
    /\ UNCHANGED <<row, ttl, lock, rowVars, files, writerVars, cgen, target, inventoryVars>>

(* One candidate: the transaction asserts the fence and reads the row.  A row *)
(* that is not expired protects the file; otherwise the transaction stays     *)
(* open over deleteGarbage.                                                   *)
ProtectCandidate(c, p) ==
    /\ cpc[c] = "collect"
    /\ lock = None
    /\ AssertGc(c)
    /\ p \in eligible[c]
    /\ p \in live
    /\ Extend(c, GcLease)
    /\ eligible' = [eligible EXCEPT ![c] = @ \ {p}]
    /\ UNCHANGED <<row, lock, rowVars, files, writerVars, cpc, cgen, target, inventoryVars>>

OpenCandidate(c, p) ==
    /\ cpc[c] = "collect"
    /\ lock = None
    /\ AssertGc(c)
    /\ p \in eligible[c]
    /\ p \notin live
    /\ Extend(c, GcLease)
    /\ lock' = c
    /\ target' = [target EXCEPT ![c] = p]
    /\ cpc' = [cpc EXCEPT ![c] = "unlink"]
    /\ UNCHANGED <<row, rowVars, files, writerVars, cgen, eligible, inventoryVars>>

(* deleteGarbage: a file whose inode or mtime changed since it was measured is *)
(* kept ("changed": the row is not touched, so the target is dropped).  It     *)
(* runs to its end whether or not the transaction around it is still alive.    *)
Unlink(c) ==
    /\ cpc[c] \in {"unlink", "aborted"}
    /\ files' = IF target[c] \in eligible[c] THEN files \ {target[c]} ELSE files
    /\ target' = [target EXCEPT ![c] =
                    IF @ \in files /\ @ \notin eligible[c] THEN None ELSE @]
    /\ cpc' = [cpc EXCEPT ![c] = IF @ = "unlink" THEN "settle" ELSE "release"]
    /\ UNCHANGED <<row, ttl, lock, rowVars, writerVars, cgen, eligible, inventoryVars>>

(* The candidate transaction commits. *)
SettleCandidate(c) ==
    /\ cpc[c] = "settle"
    /\ lock' = None
    /\ expired' = expired \ {target[c]}
    /\ cleared' = cleared \cup (expired \cap {target[c]})
    /\ eligible' = [eligible EXCEPT ![c] = @ \ {target[c]}]
    /\ target' = [target EXCEPT ![c] = None]
    /\ cpc' = [cpc EXCEPT ![c] = "collect"]
    /\ UNCHANGED <<row, ttl, live, files, writerVars, cgen, inventoryVars>>

(* The database ends the open transaction: the lock is free, the lease        *)
(* extension is rolled back to an earlier deadline, and an unlink already      *)
(* under way still happens.                                                    *)
LoseTransaction(c) ==
    /\ cpc[c] \in {"unlink", "settle"}
    /\ lock' = None
    /\ \E left \in 0..ttl[c] : Extend(c, left)
    /\ cpc' = [cpc EXCEPT ![c] = IF @ = "unlink" THEN "aborted" ELSE "release"]
    /\ UNCHANGED <<row, rowVars, files, writerVars, cgen, eligible, target, inventoryVars>>

(* The final status transaction of a run that got through its candidates. *)
FinishGc(c) ==
    /\ cpc[c] = "collect"
    /\ lock = None
    /\ AssertGc(c)
    /\ Extend(c, GcLease)
    /\ cpc' = [cpc EXCEPT ![c] = "release"]
    /\ UNCHANGED <<row, lock, rowVars, files, writerVars, cgen, eligible, target, inventoryVars>>

(* Any transaction of the run throws, PAYLOAD_GC_LEASE_LOST included. *)
FailGc(c) ==
    /\ cpc[c] \in {"repair", "scan", "collect"}
    /\ cpc' = [cpc EXCEPT ![c] = "release"]
    /\ UNCHANGED <<row, ttl, lock, rowVars, files, writerVars, cgen, eligible, target, inventoryVars>>

ReleaseGc(c) ==
    /\ cpc[c] = "release"
    /\ lock = None
    /\ row' = IF row.gc = c THEN [row EXCEPT !.gc = None] ELSE row
    /\ ttl' = [ttl EXCEPT ![c] = 0]
    /\ cpc' = [cpc EXCEPT ![c] = "ended"]
    /\ UNCHANGED <<lock, rowVars, files, writerVars, cgen, eligible, target, inventoryVars>>

CrashGc(c) ==
    /\ cpc[c] \notin {"idle", "ended"}
    /\ lock' = IF lock = c THEN None ELSE lock
    /\ cpc' = [cpc EXCEPT ![c] = "ended"]
    /\ UNCHANGED <<row, ttl, rowVars, files, writerVars, cgen, eligible, target, inventoryVars>>

-----------------------------------------------------------------------------
(* Inventories: one run of withInventoryFence. *)

AcquireInventoryFence(i) ==
    /\ ipc[i] = "idle"
    /\ lock = None
    /\ ~Fenced
    /\ Pruned.writers = {}
    /\ row' = [Pruned EXCEPT !.inventory = i]
    /\ Extend(i, GcLease)
    /\ ipc' = [ipc EXCEPT ![i] = "held"]
    /\ igen' = [igen EXCEPT ![i] = Pruned.generation]
    /\ iseen' = [iseen EXCEPT ![i] = FileRows]
    /\ UNCHANGED <<lock, rowVars, files, writerVars, collectorVars>>

(* A scan batch or the heartbeat. *)
CheckInventoryFence(i) ==
    /\ ipc[i] = "held"
    /\ lock = None
    /\ AssertInventoryFence(i)
    /\ Extend(i, GcLease)
    /\ UNCHANGED <<row, lock, rowVars, files, writerVars, collectorVars, inventoryVars>>

FinishInventoryFence(i) ==
    /\ ipc[i] = "held"
    /\ lock = None
    /\ AssertInventoryFence(i)
    /\ row' = [row EXCEPT !.inventory = None]
    /\ ttl' = [ttl EXCEPT ![i] = 0]
    /\ ipc' = [ipc EXCEPT ![i] = "completed"]
    /\ UNCHANGED <<lock, rowVars, files, writerVars, collectorVars, igen, iseen>>

(* releaseInventoryFence after a lost fence or a failed scan.  What prune      *)
(* removed is written back only together with a new generation or the release. *)
ReleaseInventoryFence(i) ==
    /\ ipc[i] = "held"
    /\ lock = None
    /\ row' = IF Pruned.generation # row.generation THEN Pruned
              ELSE IF Pruned.inventory = i /\ row.generation = igen[i]
                   THEN [Pruned EXCEPT !.inventory = None]
                   ELSE row
    /\ ipc' = [ipc EXCEPT ![i] = "ended"]
    /\ UNCHANGED <<ttl, lock, rowVars, files, writerVars, collectorVars, igen, iseen>>

CrashInventory(i) ==
    /\ ipc[i] = "held"
    /\ ipc' = [ipc EXCEPT ![i] = "ended"]
    /\ UNCHANGED <<row, ttl, lock, rowVars, files, writerVars, collectorVars, igen, iseen>>

-----------------------------------------------------------------------------
(* Time. *)

Tick ==
    /\ \E t \in Tokens : ttl[t] > 0
    /\ ttl' = [t \in Tokens |-> IF ttl[t] > 0 THEN ttl[t] - 1 ELSE 0]
    /\ UNCHANGED <<row, lock, rowVars, files, writerVars, collectorVars, inventoryVars>>

(* A payload row passes its expiresAt (retention days, not lease time). *)
RowExpires(p) ==
    /\ p \in live
    /\ live' = live \ {p}
    /\ expired' = expired \cup {p}
    /\ UNCHANGED <<row, ttl, lock, cleared, files, writerVars, collectorVars, inventoryVars>>

WriterNext(w) ==
    \/ \E b \in Bodies : AcquireWriter(w, b)
    \/ RenewWriter(w) \/ Publish(w) \/ PublishFails(w)
    \/ CommitWriter(w) \/ ReleaseWriter(w) \/ CrashWriter(w)

CollectorNext(c) ==
    \/ AcquireGc(c) \/ BeginScan(c) \/ Scan(c) \/ Unlink(c) \/ SettleCandidate(c)
    \/ LoseTransaction(c) \/ FinishGc(c) \/ FailGc(c) \/ ReleaseGc(c) \/ CrashGc(c)
    \/ \E p \in expired : RepairRow(c, p)
    \/ \E p \in eligible[c] : ProtectCandidate(c, p) \/ OpenCandidate(c, p)

InventoryNext(i) ==
    \/ AcquireInventoryFence(i) \/ CheckInventoryFence(i) \/ FinishInventoryFence(i)
    \/ ReleaseInventoryFence(i) \/ CrashInventory(i)

Next ==
    \/ \E w \in Writers : WriterNext(w)
    \/ \E c \in Collectors : CollectorNext(c)
    \/ \E i \in Inventories : InventoryNext(i)
    \/ Tick
    \/ \E p \in live : RowExpires(p)

Spec == Init /\ [][Next]_vars

(* Fairness: a session that has started goes on (the event loop runs it) unless *)
(* it crashes, and a batch that waits for the fence is offered again by the     *)
(* collector worker.  Nobody promises that maintenance starts.                  *)
WriterProgress(w) ==
    Publish(w) \/ PublishFails(w) \/ CommitWriter(w) \/ ReleaseWriter(w)
CollectorProgress(c) ==
    \/ BeginScan(c) \/ Scan(c) \/ Unlink(c) \/ SettleCandidate(c)
    \/ FinishGc(c) \/ FailGc(c) \/ ReleaseGc(c)
InventoryProgress(i) == FinishInventoryFence(i) \/ ReleaseInventoryFence(i)

Fairness ==
    /\ WF_vars(Tick)
    /\ \A w \in Writers :
          /\ WF_vars(\E b \in Bodies : AcquireWriter(w, b))
          /\ WF_vars(WriterProgress(w))
    /\ \A c \in Collectors : WF_vars(CollectorProgress(c))
    /\ \A i \in Inventories : WF_vars(InventoryProgress(i))

FairSpec == Spec /\ Fairness

-----------------------------------------------------------------------------
(* Properties. *)

(* A payload row that is not expired names a file that exists: however a       *)
(* collector run is delayed, no unlink of deleteGarbage hits an object that a  *)
(* commitPreparedWriter transaction made (or is going to make) readable.       *)
NoDanglingRow == live \subseteq files

(* The coordination row never grants the storage to two kinds of holder: not   *)
(* a collector beside writers or an inventory, nor an inventory beside writers,*)
(* whichever holders prune finds expired.                                      *)
FenceExclusive ==
    /\ row.gc # None => row.writers = {} /\ row.inventory = None
    /\ row.inventory # None => row.writers = {}

(* The claim of the comment in acquireGc: a collector whose lease is gone can  *)
(* not unlink a path that a writer with a valid lease has published and will   *)
(* commit.                                                                     *)
UnlinkSparesWriters ==
    [][\A w \in Writers :
         wpc[w] = "published" /\ RequireWriter(w) => wpath[w] \in files']_vars

(* An inventory that completes attests what is still so: between the moment it *)
(* read the rows that name files and its last check, no writer committed a row *)
(* and no collector cleared one, even if the inventory stalled in between.     *)
InventoryEvidenceCurrent ==
    [][\A i \in Inventories :
         ipc[i] = "held" /\ ipc'[i] = "completed" => FileRows = iseen[i]]_vars

(* No holder that dies with a lease blocks ingestion for good: once maintenance*)
(* runs end, every waiting writer gets its lease.                              *)
WriterServed == \A w \in Writers : wpc[w] = "idle" ~> wpc[w] # "idle"

(* What the fence is for: the rows and files move as PayloadPromise allows,    *)
(* one object at a time.  No step makes an unstored body readable, unlinks a   *)
(* readable one, or brings a lapsed or cleared row back, although publication, *)
(* commit and unlink are separate steps of sessions that stall and crash.      *)
Promised == INSTANCE PayloadPromise WITH
    bodies <- files, readable <- live, lapsed <- expired, retired <- cleared
KeepsPromise == Promised!Spec
=============================================================================
