------------------------ MODULE PayloadFence_proofs ------------------------
(***************************************************************************)
(* Proofs about PayloadFence for every number of sessions, every set of    *)
(* bodies and all lease lengths.                                           *)
(*                                                                         *)
(* NoDanglingRow is not inductive.  What makes it hold is the storage      *)
(* generation: a collector only measures objects of generations before the *)
(* one it opened (part of Measured), the object of a writer that may still *)
(* commit has the current generation (Readable), and generations only grow.*)
(* Leases do not appear in the argument at all: it covers every delay.     *)
(***************************************************************************)
EXTENDS PayloadFence, TLAPS

(* No object path is of a generation that has not been opened. *)
Opened ==
    /\ \A p \in files : Generation(p) <= row.generation
    /\ \A w \in Writers : wpc[w] # "idle" => Generation(wpath[w]) <= row.generation

(* A collector measured only objects older than the generation it opened. *)
Measured ==
    \A c \in Collectors :
        /\ cgen[c] <= row.generation
        /\ \A p \in eligible[c] : Generation(p) < cgen[c]

(* The candidate of an unlink under way is such an object, with no live row. *)
Condemned ==
    \A c \in Collectors : cpc[c] \in {"unlink", "aborted"} =>
        /\ target[c] \in Paths
        /\ Generation(target[c]) < cgen[c]
        /\ target[c] \notin live

(* What a writer of the current generation published is still there. *)
Readable ==
    \A w \in Writers :
        wpc[w] = "published" /\ Generation(wpath[w]) = row.generation => wpath[w] \in files

IInv == TypeOK /\ Opened /\ Measured /\ Condemned /\ Readable /\ NoDanglingRow

(* prune keeps the shape of the coordination row, and the generation or its successor. *)
LEMMA PrunedType ==
    ASSUME TypeOK
    PROVE  /\ Pruned \in [generation : Nat, writers : SUBSET Writers,
                          gc : Collectors \cup {None}, inventory : Inventories \cup {None}]
           /\ Pruned.generation \in Nat
           /\ row.generation <= Pruned.generation
  <1>1. row.generation \in Nat /\ row.writers \in SUBSET Writers
        /\ row.gc \in Collectors \cup {None} /\ row.inventory \in Inventories \cup {None}
    BY DEF TypeOK
  <1>2. LiveWriters \in SUBSET Writers /\ PrunedGc \in Collectors \cup {None}
    BY <1>1 DEF LiveWriters, PrunedGc
  <1> QED
    BY <1>1, <1>2 DEF Pruned

(* The inductive invariant holds before any session has acquired a lease. *)
THEOREM InitIInv == Init => IInv
  BY TokenAssumption DEF Init, IInv, TypeOK, Opened, Measured, Condemned, Readable,
     NoDanglingRow, Generation, Paths, Tokens

(* The frame groups of the specification, for BY ... DEF. *)
USE DEF rowVars, writerVars, collectorVars, inventoryVars

(* Every operation keeps the types, one kind of session at a time. *)
LEMMA WriterType ==
    ASSUME TypeOK, NEW w \in Writers, WriterNext(w)
    PROVE  TypeOK'
  <1> w \in Tokens
    BY DEF Tokens
  <1>1. ASSUME NEW b \in Bodies, AcquireWriter(w, b) PROVE TypeOK'
    <2>1. Pruned.generation \in Nat /\ row' \in [generation : Nat, writers : SUBSET Writers,
                gc : Collectors \cup {None}, inventory : Inventories \cup {None}]
      BY <1>1, PrunedType DEF AcquireWriter
    <2> QED
      BY <1>1, <2>1, LeaseAssumption DEF AcquireWriter, Extend, TypeOK, Paths
  <1>2. CASE RenewWriter(w)
    BY <1>2, LeaseAssumption DEF RenewWriter, TypeOK, Extend
  <1>3. CASE Publish(w)
    BY <1>3, LeaseAssumption DEF Publish, TypeOK
  <1>4. CASE PublishFails(w)
    BY <1>4, LeaseAssumption DEF PublishFails, TypeOK
  <1>5. CASE CommitWriter(w)
    BY <1>5, LeaseAssumption DEF CommitWriter, TypeOK
  <1>6. CASE ReleaseWriter(w)
    BY <1>6, LeaseAssumption DEF ReleaseWriter, TypeOK
  <1>7. CASE CrashWriter(w)
    BY <1>7, LeaseAssumption DEF CrashWriter, TypeOK
  <1> QED
    BY <1>1, <1>2, <1>3, <1>4, <1>5, <1>6, <1>7 DEF WriterNext

LEMMA CollectorType ==
    ASSUME TypeOK, NEW c \in Collectors, CollectorNext(c)
    PROVE  TypeOK'
  <1> c \in Tokens
    BY DEF Tokens
  <1>1. CASE AcquireGc(c)
    <2>1. OpenedGeneration \in Nat /\ row' \in [generation : Nat, writers : SUBSET Writers,
                gc : Collectors \cup {None}, inventory : Inventories \cup {None}]
      <3>1. OpenedGeneration \in Nat
        BY PrunedType DEF OpenedGeneration
      <3>2. row' = [Pruned EXCEPT !.generation = OpenedGeneration, !.gc = c]
        BY <1>1 DEF AcquireGc
      <3> QED
        BY <3>1, <3>2, PrunedType
    <2>2. eligible' \in [Collectors -> SUBSET Paths]
      BY <1>1 DEF AcquireGc, TypeOK
    <2> QED
      BY <1>1, <2>1, <2>2, LeaseAssumption DEF AcquireGc, Extend, TypeOK
  <1>2. CASE BeginScan(c)
    BY <1>2, LeaseAssumption DEF BeginScan, TypeOK, Extend
  <1>3. CASE Scan(c)
    BY <1>3, LeaseAssumption DEF Scan, TypeOK, Extend
  <1>4. CASE Unlink(c)
    BY <1>4, LeaseAssumption DEF Unlink, TypeOK, Extend
  <1>5. CASE SettleCandidate(c)
    BY <1>5, LeaseAssumption DEF SettleCandidate, TypeOK, Extend
  <1>6. CASE LoseTransaction(c)
    BY <1>6, LeaseAssumption DEF LoseTransaction, TypeOK, Extend
  <1>7. CASE FinishGc(c)
    BY <1>7, LeaseAssumption DEF FinishGc, TypeOK, Extend
  <1>8. CASE FailGc(c)
    BY <1>8, LeaseAssumption DEF FailGc, TypeOK, Extend
  <1>9. CASE ReleaseGc(c)
    BY <1>9, LeaseAssumption DEF ReleaseGc, TypeOK, Extend
  <1>10. CASE CrashGc(c)
    BY <1>10, LeaseAssumption DEF CrashGc, TypeOK, Extend
  <1>11. ASSUME NEW p \in expired, RepairRow(c, p) PROVE TypeOK'
    BY <1>11, LeaseAssumption DEF RepairRow, TypeOK, Extend
  <1>12. ASSUME NEW p \in eligible[c], ProtectCandidate(c, p) PROVE TypeOK'
    BY <1>12, LeaseAssumption DEF ProtectCandidate, TypeOK, Extend
  <1>13. ASSUME NEW p \in eligible[c], OpenCandidate(c, p) PROVE TypeOK'
    BY <1>13, LeaseAssumption DEF OpenCandidate, TypeOK, Extend
  <1> QED
    BY <1>1, <1>2, <1>3, <1>4, <1>5, <1>6, <1>7, <1>8, <1>9, <1>10, <1>11, <1>12, <1>13 DEF CollectorNext

LEMMA InventoryType ==
    ASSUME TypeOK, NEW i \in Inventories, InventoryNext(i)
    PROVE  TypeOK'
  <1> i \in Tokens
    BY DEF Tokens
  <1>1. CASE AcquireInventoryFence(i)
    <2>1. row' \in [generation : Nat, writers : SUBSET Writers,
                     gc : Collectors \cup {None}, inventory : Inventories \cup {None}]
      BY <1>1, PrunedType DEF AcquireInventoryFence
    <2> QED
      BY <1>1, <2>1, PrunedType, LeaseAssumption DEF AcquireInventoryFence, Extend, TypeOK, FileRows
  <1>2. CASE CheckInventoryFence(i)
    BY <1>2, LeaseAssumption DEF CheckInventoryFence, TypeOK, Extend
  <1>3. CASE FinishInventoryFence(i)
    BY <1>3 DEF FinishInventoryFence, TypeOK
  <1>4. CASE ReleaseInventoryFence(i)
    <2>1. row' \in [generation : Nat, writers : SUBSET Writers,
                     gc : Collectors \cup {None}, inventory : Inventories \cup {None}]
      BY <1>4, PrunedType DEF ReleaseInventoryFence, TypeOK
    <2> QED
      BY <1>4, <2>1 DEF ReleaseInventoryFence, TypeOK
  <1>5. CASE CrashInventory(i)
    BY <1>5 DEF CrashInventory, TypeOK
  <1> QED
    BY <1>1, <1>2, <1>3, <1>4, <1>5 DEF InventoryNext

LEMMA TypeStep == TypeOK /\ [Next]_vars => TypeOK'
  <1> SUFFICES ASSUME TypeOK, [Next]_vars PROVE TypeOK'
    OBVIOUS
  <1>1. CASE Tick
    BY <1>1 DEF Tick, TypeOK
  <1>2. ASSUME NEW p \in live, RowExpires(p) PROVE TypeOK'
    BY <1>2 DEF RowExpires, TypeOK
  <1>3. CASE UNCHANGED vars
    BY <1>3 DEF vars, TypeOK
  <1> QED
    BY <1>1, <1>2, <1>3, WriterType, CollectorType, InventoryType DEF Next

(* The five parts that only the step lemmas expand. *)
Core == Opened /\ Measured /\ Condemned /\ Readable /\ NoDanglingRow

LEMMA WriterCore ==
    ASSUME IInv, NEW w \in Writers, WriterNext(w)
    PROVE  Core'
  <1> USE DEF IInv, Core
  <1>1. ASSUME NEW b \in Bodies, AcquireWriter(w, b) PROVE Core'
    <2>1. row'.generation = Pruned.generation /\ row.generation <= row'.generation
          /\ row.generation \in Nat /\ row'.generation \in Nat
      BY <1>1, PrunedType DEF AcquireWriter, TypeOK
    <2>2. wpath' = [wpath EXCEPT ![w] = <<b, row'.generation>>]
      BY <1>1, <2>1 DEF AcquireWriter
    <2>3. wpc' = [wpc EXCEPT ![w] = "acquired"] /\ UNCHANGED <<rowVars, files, collectorVars>>
      BY <1>1 DEF AcquireWriter
    <2>4. Opened'
      <3>1. Generation(wpath'[w]) = row'.generation
        BY <2>2 DEF Generation, TypeOK
      <3>2. \A v \in Writers \ {w} : wpath'[v] = wpath[v] /\ wpc'[v] = wpc[v]
        BY <2>2, <2>3 DEF TypeOK
      <3>3. \A v \in Writers : wpc[v] # "idle" => Generation(wpath[v]) \in Nat
        BY DEF TypeOK, Paths, Generation
      <3>4. \A p \in files : Generation(p) \in Nat
        BY DEF TypeOK, Paths, Generation
      <3> QED
        BY <2>1, <2>3, <3>1, <3>2, <3>3, <3>4 DEF Opened, Generation
    <2>5. Measured' /\ Condemned' /\ NoDanglingRow'
      BY <2>1, <2>3 DEF Measured, Condemned, NoDanglingRow, TypeOK, Generation
    <2>6. Readable'
      <3>1. ASSUME NEW v \in Writers, wpc'[v] = "published",
                   Generation(wpath'[v]) = row'.generation
            PROVE  wpath'[v] \in files'
        <4>1. v # w /\ wpc[v] = "published" /\ wpath'[v] = wpath[v]
          BY <3>1, <2>2, <2>3 DEF TypeOK
        <4>2. Generation(wpath[v]) <= row.generation
          BY <4>1 DEF Opened
        <4> QED
          BY <2>1, <2>3, <3>1, <4>1, <4>2 DEF Readable, Generation
      <3> QED
        BY <3>1 DEF Readable, Generation
    <2> QED
      BY <2>4, <2>5, <2>6
  <1>2. CASE RenewWriter(w)
    BY <1>2 DEF RenewWriter, Opened, Measured, Condemned, Readable, NoDanglingRow, Generation, TypeOK, Paths
  <1>3. CASE Publish(w)
    BY <1>3 DEF Publish, Opened, Measured, Condemned, Readable, NoDanglingRow, Generation, TypeOK, Paths
  <1>4. CASE PublishFails(w)
    BY <1>4 DEF PublishFails, Opened, Measured, Condemned, Readable, NoDanglingRow, Generation, TypeOK, Paths
  <1>5. CASE CommitWriter(w)
    BY <1>5 DEF CommitWriter, Opened, Measured, Condemned, Readable, NoDanglingRow, Generation, TypeOK, Paths, RequireWriter
  <1>6. CASE ReleaseWriter(w)
    BY <1>6 DEF ReleaseWriter, Opened, Measured, Condemned, Readable, NoDanglingRow, Generation, TypeOK, Paths
  <1>7. CASE CrashWriter(w)
    BY <1>7 DEF CrashWriter, Opened, Measured, Condemned, Readable, NoDanglingRow, Generation, TypeOK, Paths
  <1> QED
    BY <1>1, <1>2, <1>3, <1>4, <1>5, <1>6, <1>7 DEF WriterNext

LEMMA CollectorCore ==
    ASSUME IInv, NEW c \in Collectors, CollectorNext(c)
    PROVE  Core'
  <1> USE DEF IInv, Core
  <1>1. CASE AcquireGc(c)
    <2>1. row'.generation = Pruned.generation + 1 /\ row.generation < row'.generation
          /\ row.generation \in Nat /\ row'.generation \in Nat
      BY <1>1, PrunedType DEF AcquireGc, OpenedGeneration, TypeOK
    <2>2. cgen' = [cgen EXCEPT ![c] = row'.generation]
      BY <1>1, <2>1 DEF AcquireGc, OpenedGeneration
    <2> QED
      BY <1>1, <2>1, <2>2 DEF AcquireGc, Opened, Measured, Condemned, Readable, NoDanglingRow, Generation, TypeOK, Paths
  <1>2. CASE BeginScan(c)
    BY <1>2 DEF BeginScan, Opened, Measured, Condemned, Readable, NoDanglingRow, Generation, TypeOK, Paths
  <1>3. CASE Scan(c)
    BY <1>3 DEF Scan, Opened, Measured, Condemned, Readable, NoDanglingRow, Generation, TypeOK, Paths
  <1>4. CASE Unlink(c)
    BY <1>4 DEF Unlink, Opened, Measured, Condemned, Readable, NoDanglingRow, Generation, TypeOK, Paths
  <1>5. CASE SettleCandidate(c)
    BY <1>5 DEF SettleCandidate, Opened, Measured, Condemned, Readable, NoDanglingRow, Generation, TypeOK, Paths
  <1>6. CASE LoseTransaction(c)
    BY <1>6 DEF LoseTransaction, Opened, Measured, Condemned, Readable, NoDanglingRow, Generation, TypeOK, Paths
  <1>7. CASE FinishGc(c)
    BY <1>7 DEF FinishGc, Opened, Measured, Condemned, Readable, NoDanglingRow, Generation, TypeOK, Paths
  <1>8. CASE FailGc(c)
    BY <1>8 DEF FailGc, Opened, Measured, Condemned, Readable, NoDanglingRow, Generation, TypeOK, Paths
  <1>9. CASE ReleaseGc(c)
    BY <1>9 DEF ReleaseGc, Opened, Measured, Condemned, Readable, NoDanglingRow, Generation, TypeOK, Paths
  <1>10. CASE CrashGc(c)
    BY <1>10 DEF CrashGc, Opened, Measured, Condemned, Readable, NoDanglingRow, Generation, TypeOK, Paths
  <1>11. ASSUME NEW p \in expired, RepairRow(c, p) PROVE Core'
    BY <1>11 DEF RepairRow, Opened, Measured, Condemned, Readable, NoDanglingRow, Generation, TypeOK, Paths
  <1>12. ASSUME NEW p \in eligible[c], ProtectCandidate(c, p) PROVE Core'
    BY <1>12 DEF ProtectCandidate, Opened, Measured, Condemned, Readable, NoDanglingRow, Generation, TypeOK, Paths
  <1>13. ASSUME NEW p \in eligible[c], OpenCandidate(c, p) PROVE Core'
    BY <1>13 DEF OpenCandidate, Opened, Measured, Condemned, Readable, NoDanglingRow, Generation, TypeOK, Paths
  <1> QED
    BY <1>1, <1>2, <1>3, <1>4, <1>5, <1>6, <1>7, <1>8, <1>9, <1>10, <1>11, <1>12, <1>13 DEF CollectorNext

LEMMA InventoryCore ==
    ASSUME IInv, NEW i \in Inventories, InventoryNext(i)
    PROVE  Core'
  <1> USE DEF IInv, Core
  <1>1. row.generation <= row'.generation /\ row.generation \in Nat /\ row'.generation \in Nat
    <2>1. row.generation \in Nat /\ row' \in [generation : Nat, writers : SUBSET Writers,
                gc : Collectors \cup {None}, inventory : Inventories \cup {None}]
      BY InventoryType DEF TypeOK
    <2>2. row'.generation \in {row.generation, Pruned.generation}
      <3>1. CASE AcquireInventoryFence(i)
        BY <3>1, PrunedType DEF AcquireInventoryFence
      <3>2. CASE FinishInventoryFence(i)
        BY <3>2 DEF FinishInventoryFence, TypeOK
      <3>3. CASE ReleaseInventoryFence(i)
        BY <3>3, PrunedType DEF ReleaseInventoryFence
      <3>4. CASE CheckInventoryFence(i) \/ CrashInventory(i)
        BY <3>4 DEF CheckInventoryFence, CrashInventory
      <3> QED
        BY <3>1, <3>2, <3>3, <3>4 DEF InventoryNext
    <2> QED
      BY <2>1, <2>2, PrunedType
  <1>2. UNCHANGED <<rowVars, files, writerVars, collectorVars>>
    BY DEF InventoryNext, AcquireInventoryFence, CheckInventoryFence,
       FinishInventoryFence, ReleaseInventoryFence, CrashInventory
  <1>3. Opened' /\ Measured' /\ Condemned' /\ NoDanglingRow'
    BY <1>1, <1>2 DEF Opened, Measured, Condemned, Readable, NoDanglingRow, Generation, TypeOK, Paths
  <1>4. Readable'
    <2>1. ASSUME NEW v \in Writers, wpc[v] = "published",
                 Generation(wpath[v]) = row'.generation
          PROVE  wpath[v] \in files
      BY <1>1, <2>1 DEF Opened, Readable, Generation
    <2> QED
      BY <1>2, <2>1 DEF Readable, Generation
  <1> QED
    BY <1>3, <1>4

(* No step of a writer, a collector run, an inventory run or the clock breaks  *)
(* the inductive invariant.                                                    *)
THEOREM IInvStep == IInv /\ [Next]_vars => IInv'
  <1> SUFFICES ASSUME IInv, [Next]_vars PROVE IInv'
    OBVIOUS
  <1>1. TypeOK'
    BY TypeStep DEF IInv
  <1>2. Core'
    <2>1. CASE Tick
      BY <2>1 DEF Tick, IInv, Core, Opened, Measured, Condemned, Readable, NoDanglingRow, Generation, TypeOK, Paths
    <2>2. ASSUME NEW p \in live, RowExpires(p) PROVE Core'
      BY <2>2 DEF RowExpires, IInv, Core, Opened, Measured, Condemned, Readable, NoDanglingRow, Generation, TypeOK, Paths
    <2>3. CASE UNCHANGED vars
      BY <2>3 DEF vars, IInv, Core, Opened, Measured, Condemned, Readable, NoDanglingRow, Generation, TypeOK, Paths
    <2> QED
      BY <2>1, <2>2, <2>3, WriterCore, CollectorCore, InventoryCore DEF Next
  <1> QED
    BY <1>1, <1>2 DEF IInv, Core

(* The types hold in every reachable state (TypeOK): leases never go below     *)
(* zero, sessions and the coordination row stay in their shapes.               *)
THEOREM TypeCorrect == Spec => []TypeOK
  <1>1. Init => TypeOK
    BY InitIInv DEF IInv
  <1> QED
    BY <1>1, TypeStep, PTL DEF Spec

(* The inductive invariant holds in every reachable state. *)
THEOREM Invariance == Spec => []IInv
  BY InitIInv, IInvStep, PTL DEF Spec

(* A payload row that is not expired names a file that exists: no unlink of    *)
(* deleteGarbage, however late, takes the file of a committed readable row.    *)
THEOREM NoDanglingRowHolds == Spec => []NoDanglingRow
  <1>1. IInv => NoDanglingRow
    BY DEF IInv
  <1> QED
    BY <1>1, Invariance, PTL

(* The claim of the comment in acquireGc: no step removes the object of a      *)
(* writer that has published it and still holds a valid lease.                 *)
THEOREM UnlinkSparesWritersHolds == Spec => UnlinkSparesWriters
  <1>1. IInv /\ IInv' /\ [Next]_vars =>
          [\A w \in Writers :
             wpc[w] = "published" /\ RequireWriter(w) => wpath[w] \in files']_vars
    <2> SUFFICES ASSUME IInv, IInv', [Next]_vars,
                        NEW w \in Writers, wpc[w] = "published", RequireWriter(w)
                 PROVE  wpath[w] \in files'
      BY DEF vars
    <2>1. wpath[w] \in files /\ Generation(wpath[w]) = row.generation
      BY DEF IInv, Readable, RequireWriter
    <2>2. ASSUME NEW c \in Collectors, Unlink(c) PROVE wpath[w] \in files'
      <3>1. Generation(target[c]) < cgen[c] /\ cgen[c] <= row.generation
        BY <2>2 DEF Unlink, IInv, Condemned, Measured
      <3>2. Generation(target[c]) \in Nat /\ cgen[c] \in Nat /\ row.generation \in Nat
        BY <2>2 DEF Unlink, IInv, Condemned, TypeOK, Paths, Generation
      <3>3. wpath[w] # target[c]
        BY <2>1, <3>1, <3>2
      <3> QED
        BY <2>1, <2>2, <3>3 DEF Unlink
    <2>3. CASE \E c \in Collectors : Unlink(c)
      BY <2>2, <2>3
    <2>4. CASE ~ \E c \in Collectors : Unlink(c)
      <3>1. files \subseteq files'
        BY <2>4 DEF Next, WriterNext, CollectorNext, InventoryNext, vars,
           AcquireWriter, RenewWriter, Publish, PublishFails, CommitWriter, ReleaseWriter, CrashWriter,
           AcquireGc, RepairRow, BeginScan, Scan, ProtectCandidate, OpenCandidate, SettleCandidate,
           LoseTransaction, FinishGc, FailGc, ReleaseGc, CrashGc,
           AcquireInventoryFence, CheckInventoryFence, FinishInventoryFence, ReleaseInventoryFence,
           CrashInventory, Tick, RowExpires
      <3> QED
        BY <2>1, <3>1
    <2> QED
      BY <2>3, <2>4
  <1> QED
    BY <1>1, Invariance, PTL DEF Spec, UnlinkSparesWriters

-----------------------------------------------------------------------------
(* The exclusion of the three kinds of holders, and what it gives inventories. *)

(* An open candidate transaction is of the collector the row names. *)
OpenHoldsFence ==
    \A c \in Collectors : cpc[c] \in {"unlink", "settle"} => lock = c /\ row.gc = c

(* While the row names an inventory, what it read is what the rows say. *)
EvidenceFresh ==
    \A i \in Inventories : ipc[i] = "held" /\ row.inventory = i => iseen[i] = FileRows

ExclInv == TypeOK /\ FenceExclusive /\ OpenHoldsFence /\ EvidenceFresh
ExclCore == FenceExclusive /\ OpenHoldsFence /\ EvidenceFresh

(* After prune the row still names at most one kind, and nobody new. *)
LEMMA PrunedExclusive ==
    ASSUME TypeOK, FenceExclusive
    PROVE  /\ Pruned.writers \subseteq row.writers
           /\ Pruned.gc \in {row.gc, None}
           /\ Pruned.inventory \in {row.inventory, None}
  BY DEF Pruned, LiveWriters, PrunedGc, TypeOK

LEMMA WriterExcl ==
    ASSUME ExclInv, NEW w \in Writers, WriterNext(w)
    PROVE  ExclCore'
  <1> USE DEF ExclInv, ExclCore
  <1>1. ASSUME NEW b \in Bodies, AcquireWriter(w, b) PROVE ExclCore'
    <2>1. row'.gc = None /\ row'.inventory = None
      BY <1>1, PrunedType DEF AcquireWriter, Fenced
    <2>2. lock = None /\ UNCHANGED <<lock, rowVars, collectorVars, inventoryVars>>
      BY <1>1 DEF AcquireWriter
    <2> QED
      BY <2>1, <2>2, TokenAssumption
      DEF FenceExclusive, OpenHoldsFence, EvidenceFresh, Tokens, FileRows
  <1>2. CASE RenewWriter(w)
    BY <1>2 DEF RenewWriter, TypeOK, FenceExclusive, OpenHoldsFence, EvidenceFresh, FileRows
  <1>3. CASE Publish(w)
    BY <1>3 DEF Publish, TypeOK, FenceExclusive, OpenHoldsFence, EvidenceFresh, FileRows
  <1>4. CASE PublishFails(w)
    BY <1>4 DEF PublishFails, TypeOK, FenceExclusive, OpenHoldsFence, EvidenceFresh, FileRows
  <1>5. CASE CommitWriter(w)
    BY <1>5, TokenAssumption DEF CommitWriter, TypeOK, FenceExclusive, OpenHoldsFence, EvidenceFresh, FileRows, RequireWriter, Rows, Tokens
  <1>6. CASE ReleaseWriter(w)
    BY <1>6 DEF ReleaseWriter, TypeOK, FenceExclusive, OpenHoldsFence, EvidenceFresh, FileRows
  <1>7. CASE CrashWriter(w)
    BY <1>7 DEF CrashWriter, TypeOK, FenceExclusive, OpenHoldsFence, EvidenceFresh, FileRows
  <1> QED
    BY <1>1, <1>2, <1>3, <1>4, <1>5, <1>6, <1>7 DEF WriterNext

LEMMA CollectorExcl ==
    ASSUME ExclInv, NEW c \in Collectors, CollectorNext(c)
    PROVE  ExclCore'
  <1> USE DEF ExclInv, ExclCore
  <1>1. CASE AcquireGc(c)
    <2>1. row'.gc = c /\ row'.writers = {} /\ row'.inventory = None
      BY <1>1, PrunedType DEF AcquireGc, Fenced
    <2>2. lock = None /\ cpc' = [cpc EXCEPT ![c] = "repair"]
          /\ UNCHANGED <<lock, rowVars, inventoryVars>>
      BY <1>1 DEF AcquireGc
    <2> QED
      BY <2>1, <2>2, TokenAssumption
      DEF TypeOK, FenceExclusive, OpenHoldsFence, EvidenceFresh, Tokens, FileRows
  <1>2. CASE BeginScan(c)
    BY <1>2, TokenAssumption DEF BeginScan, TypeOK, FenceExclusive, OpenHoldsFence, EvidenceFresh, FileRows, Tokens
  <1>3. CASE Scan(c)
    BY <1>3, TokenAssumption DEF Scan, TypeOK, FenceExclusive, OpenHoldsFence, EvidenceFresh, FileRows, Tokens
  <1>4. CASE Unlink(c)
    BY <1>4, TokenAssumption DEF Unlink, TypeOK, FenceExclusive, OpenHoldsFence, EvidenceFresh, FileRows, Tokens
  <1>5. CASE SettleCandidate(c)
    BY <1>5, TokenAssumption DEF SettleCandidate, TypeOK, FenceExclusive, OpenHoldsFence, EvidenceFresh, FileRows, Tokens
  <1>6. CASE LoseTransaction(c)
    BY <1>6, TokenAssumption DEF LoseTransaction, TypeOK, FenceExclusive, OpenHoldsFence, EvidenceFresh, FileRows, Tokens
  <1>7. CASE FinishGc(c)
    BY <1>7, TokenAssumption DEF FinishGc, TypeOK, FenceExclusive, OpenHoldsFence, EvidenceFresh, FileRows, Tokens
  <1>8. CASE FailGc(c)
    BY <1>8, TokenAssumption DEF FailGc, TypeOK, FenceExclusive, OpenHoldsFence, EvidenceFresh, FileRows, Tokens
  <1>9. CASE ReleaseGc(c)
    BY <1>9, TokenAssumption DEF ReleaseGc, TypeOK, FenceExclusive, OpenHoldsFence, EvidenceFresh, FileRows, Tokens
  <1>10. CASE CrashGc(c)
    BY <1>10, TokenAssumption DEF CrashGc, TypeOK, FenceExclusive, OpenHoldsFence, EvidenceFresh, FileRows, Tokens
  <1>11. ASSUME NEW p \in expired, RepairRow(c, p) PROVE ExclCore'
    BY <1>11, TokenAssumption
    DEF RepairRow, AssertGc, TypeOK, FenceExclusive, OpenHoldsFence, EvidenceFresh, FileRows, Tokens
  <1>12. ASSUME NEW p \in eligible[c], ProtectCandidate(c, p) PROVE ExclCore'
    BY <1>12, TokenAssumption
    DEF ProtectCandidate, AssertGc, TypeOK, FenceExclusive, OpenHoldsFence, EvidenceFresh, FileRows, Tokens
  <1>13. ASSUME NEW p \in eligible[c], OpenCandidate(c, p) PROVE ExclCore'
    BY <1>13, TokenAssumption
    DEF OpenCandidate, AssertGc, TypeOK, FenceExclusive, OpenHoldsFence, EvidenceFresh, FileRows, Tokens
  <1> QED
    BY <1>1, <1>2, <1>3, <1>4, <1>5, <1>6, <1>7, <1>8, <1>9, <1>10, <1>11, <1>12, <1>13 DEF CollectorNext

LEMMA InventoryExcl ==
    ASSUME ExclInv, NEW i \in Inventories, InventoryNext(i)
    PROVE  ExclCore'
  <1> USE DEF ExclInv, ExclCore
  <1>1. CASE AcquireInventoryFence(i)
    <2>1. row'.gc = None /\ row'.writers = {} /\ row'.inventory = i
      BY <1>1, PrunedType DEF AcquireInventoryFence, Fenced
    <2>2. lock = None /\ ipc' = [ipc EXCEPT ![i] = "held"] /\ iseen' = [iseen EXCEPT ![i] = FileRows]
          /\ UNCHANGED <<lock, rowVars, collectorVars>>
      BY <1>1 DEF AcquireInventoryFence
    <2> QED
      BY <2>1, <2>2, TokenAssumption DEF TypeOK, FenceExclusive, OpenHoldsFence, EvidenceFresh, FileRows, Tokens
  <1>2. CASE CheckInventoryFence(i)
    BY <1>2 DEF CheckInventoryFence, FenceExclusive, OpenHoldsFence, EvidenceFresh, FileRows, Tokens
  <1>3. CASE FinishInventoryFence(i)
    BY <1>3, TokenAssumption DEF FinishInventoryFence, TypeOK, FenceExclusive, OpenHoldsFence, EvidenceFresh, FileRows, Tokens
  <1>4. CASE ReleaseInventoryFence(i)
    <2>1. row'.writers \subseteq row.writers /\ row'.gc \in {row.gc, None}
          /\ row'.inventory \in {row.inventory, None}
      BY <1>4, PrunedType, PrunedExclusive DEF ReleaseInventoryFence
    <2>2. lock = None /\ ipc' = [ipc EXCEPT ![i] = "ended"]
          /\ UNCHANGED <<lock, rowVars, collectorVars, iseen>>
      BY <1>4 DEF ReleaseInventoryFence
    <2> QED
      BY <2>1, <2>2, TokenAssumption DEF TypeOK, FenceExclusive, OpenHoldsFence, EvidenceFresh, FileRows, Tokens
  <1>5. CASE CrashInventory(i)
    BY <1>5 DEF CrashInventory, TypeOK, FenceExclusive, OpenHoldsFence, EvidenceFresh, FileRows, Tokens
  <1> QED
    BY <1>1, <1>2, <1>3, <1>4, <1>5 DEF InventoryNext

(* The grants of acquireWriter, acquireGc and acquireInventoryFence keep the   *)
(* strengthened exclusion of holders in every reachable state.                 *)
THEOREM ExclInvariance == Spec => []ExclInv
  <1>1. Init => ExclInv
    <2>1. Init => TypeOK
      BY InitIInv DEF IInv
    <2> QED
      BY <2>1 DEF Init, ExclInv, FenceExclusive, OpenHoldsFence, EvidenceFresh, FileRows, Tokens
  <1>2. ExclInv /\ [Next]_vars => ExclInv'
    <2> SUFFICES ASSUME ExclInv, [Next]_vars PROVE ExclInv'
      OBVIOUS
    <2>1. TypeOK'
      BY TypeStep DEF ExclInv
    <2>2. CASE Tick
      BY <2>1, <2>2 DEF Tick, ExclInv, FenceExclusive, OpenHoldsFence, EvidenceFresh, FileRows, Tokens
    <2>3. ASSUME NEW p \in live, RowExpires(p) PROVE ExclInv'
      <3>1. FileRows' = FileRows
        BY <2>3 DEF RowExpires, FileRows
      <3> QED
        BY <2>1, <2>3, <3>1 DEF RowExpires, ExclInv, FenceExclusive, OpenHoldsFence, EvidenceFresh
    <2>4. CASE UNCHANGED vars
      BY <2>1, <2>4 DEF vars, ExclInv, FenceExclusive, OpenHoldsFence, EvidenceFresh, FileRows, Tokens
    <2> QED
      BY <2>1, <2>2, <2>3, <2>4, WriterExcl, CollectorExcl, InventoryExcl DEF Next, ExclInv, ExclCore
  <1> QED
    BY <1>1, <1>2, PTL DEF Spec

(* The coordination row never names a collector beside writers or an inventory, *)
(* nor an inventory beside writers.                                              *)
THEOREM FenceExclusiveHolds == Spec => []FenceExclusive
  <1>1. ExclInv => FenceExclusive
    BY DEF ExclInv
  <1> QED
    BY <1>1, ExclInvariance, PTL

(* An inventory that completes attests rows that have not changed since it read *)
(* them, whatever lapsed, crashed or was collected meanwhile.                    *)
THEOREM InventoryEvidenceCurrentHolds == Spec => InventoryEvidenceCurrent
  <1>1. ExclInv /\ [Next]_vars =>
          [\A i \in Inventories :
             ipc[i] = "held" /\ ipc'[i] = "completed" => FileRows = iseen[i]]_vars
    <2> SUFFICES ASSUME ExclInv, [Next]_vars, ~ UNCHANGED vars,
                        NEW i \in Inventories, ipc[i] = "held", ipc'[i] = "completed"
                 PROVE  FileRows = iseen[i]
      BY DEF vars
    <2>1. ASSUME NEW j \in Inventories, InventoryNext(j) PROVE row.inventory = i
      BY <2>1 DEF InventoryNext, AcquireInventoryFence, CheckInventoryFence, FinishInventoryFence,
         ReleaseInventoryFence, CrashInventory, AssertInventoryFence, ExclInv, TypeOK
    <2>2. ASSUME NEW w \in Writers, WriterNext(w) PROVE FALSE
      BY <2>2 DEF WriterNext, AcquireWriter, RenewWriter, Publish, PublishFails, CommitWriter,
         ReleaseWriter, CrashWriter
    <2>3. ASSUME NEW c \in Collectors, CollectorNext(c) PROVE FALSE
      BY <2>3 DEF CollectorNext, AcquireGc, RepairRow, BeginScan, Scan, ProtectCandidate,
         OpenCandidate, Unlink, SettleCandidate, LoseTransaction, FinishGc, FailGc, ReleaseGc, CrashGc
    <2>4. ~ (Tick \/ \E p \in live : RowExpires(p))
      BY DEF Tick, RowExpires
    <2>5. row.inventory = i
      BY <2>1, <2>2, <2>3, <2>4 DEF Next
    <2> QED
      BY <2>5 DEF ExclInv, EvidenceFresh
  <1> QED
    BY <1>1, ExclInvariance, PTL DEF Spec, InventoryEvidenceCurrent

-----------------------------------------------------------------------------
(* The refinement. *)

PromisedStep == [Promised!Next]_<<files, live, expired, cleared>>

(* Only publication and commit change what a reader is promised: a publication *)
(* stores a body, a commit promises one that Readable says is stored.          *)
LEMMA WriterKeepsPromise ==
    ASSUME IInv, NEW w \in Writers, WriterNext(w)
    PROVE  PromisedStep
  <1>1. CASE Publish(w)
    <2>1. /\ files' = files \cup {wpath[w]}
          /\ UNCHANGED <<live, expired, cleared>>
      BY <1>1 DEF Publish
    <2> QED
      BY <2>1 DEF PromisedStep, Promised!Next, Promised!Store
  <1>2. CASE CommitWriter(w)
    <2>1. UNCHANGED <<files, expired, cleared>>
      BY <1>2 DEF CommitWriter
    <2>2. CASE wpc[w] = "published" /\ wpath[w] \notin Rows
      <3>1. live' = live \cup {wpath[w]}
        BY <1>2, <2>2 DEF CommitWriter
      <3>2. wpath[w] \in files
        BY <1>2, <2>2 DEF CommitWriter, RequireWriter, IInv, Readable
      <3>3. wpath[w] \notin expired \cup cleared
        BY <2>2 DEF Rows, FileRows
      <3> QED
        BY <2>1, <3>1, <3>2, <3>3 DEF PromisedStep, Promised!Next, Promised!Promise
    <2>3. CASE ~ (wpc[w] = "published" /\ wpath[w] \notin Rows)
      <3>1. live' = live
        BY <1>2, <2>3 DEF CommitWriter
      <3> QED
        BY <2>1, <3>1 DEF PromisedStep
    <2> QED
      BY <2>2, <2>3
  <1>3. CASE \/ \E b \in Bodies : AcquireWriter(w, b)
             \/ RenewWriter(w) \/ PublishFails(w) \/ ReleaseWriter(w) \/ CrashWriter(w)
    BY <1>3 DEF AcquireWriter, RenewWriter, PublishFails, ReleaseWriter, CrashWriter, PromisedStep
  <1> QED
    BY <1>1, <1>2, <1>3 DEF WriterNext

(* A collector drops a body that Condemned says nobody may read, and retires   *)
(* rows that are past their retention.                                         *)
LEMMA CollectorKeepsPromise ==
    ASSUME IInv, NEW c \in Collectors, CollectorNext(c)
    PROVE  PromisedStep
  <1>1. CASE Unlink(c)
    <2>1. /\ files' = files \/ files' = files \ {target[c]}
          /\ UNCHANGED <<live, expired, cleared>>
      BY <1>1 DEF Unlink
    <2>2. target[c] \notin live
      BY <1>1 DEF Unlink, IInv, Condemned
    <2>3. CASE files' = files
      BY <2>1, <2>3 DEF PromisedStep
    <2>4. CASE files' = files \ {target[c]} /\ target[c] \in files
      <3>1. target[c] \in files \ live
        BY <2>2, <2>4
      <3> QED
        BY <2>1, <2>4, <3>1 DEF PromisedStep, Promised!Next, Promised!Drop
    <2>5. CASE files' = files \ {target[c]} /\ target[c] \notin files
      <3>1. files' = files
        BY <2>5
      <3> QED
        BY <2>3, <3>1
    <2> QED
      BY <2>1, <2>3, <2>4, <2>5
  <1>2. CASE SettleCandidate(c)
    <2>1. /\ expired' = expired \ {target[c]}
          /\ cleared' = cleared \cup (expired \cap {target[c]})
          /\ UNCHANGED <<files, live>>
      BY <1>2 DEF SettleCandidate
    <2>2. CASE target[c] \in expired
      <3>1. cleared' = cleared \cup {target[c]}
        BY <2>1, <2>2
      <3> QED
        BY <2>1, <2>2, <3>1 DEF PromisedStep, Promised!Next, Promised!Retire
    <2>3. CASE target[c] \notin expired
      <3>1. expired' = expired /\ cleared' = cleared
        BY <2>1, <2>3
      <3> QED
        BY <2>1, <3>1 DEF PromisedStep
    <2> QED
      BY <2>2, <2>3
  <1>3. ASSUME NEW p \in expired, RepairRow(c, p) PROVE PromisedStep
    <2>1. UNCHANGED <<files, live>>
      BY <1>3 DEF RepairRow
    <2>2. CASE p \in files
      BY <1>3, <2>1, <2>2 DEF RepairRow, PromisedStep
    <2>3. CASE p \notin files
      <3>1. expired' = expired \ {p} /\ cleared' = cleared \cup {p}
        BY <1>3, <2>3 DEF RepairRow
      <3> QED
        BY <2>1, <3>1 DEF PromisedStep, Promised!Next, Promised!Retire
    <2> QED
      BY <2>2, <2>3
  <1>4. CASE \/ AcquireGc(c) \/ BeginScan(c) \/ Scan(c) \/ LoseTransaction(c) \/ FinishGc(c)
             \/ FailGc(c) \/ ReleaseGc(c) \/ CrashGc(c)
    BY <1>4 DEF AcquireGc, BeginScan, Scan, LoseTransaction, FinishGc, FailGc, ReleaseGc, CrashGc,
       PromisedStep
  <1>5. ASSUME NEW p \in eligible[c], ProtectCandidate(c, p) \/ OpenCandidate(c, p)
        PROVE  PromisedStep
    BY <1>5 DEF ProtectCandidate, OpenCandidate, PromisedStep
  <1> QED
    BY <1>1, <1>2, <1>3, <1>4, <1>5 DEF CollectorNext

(* Fence, leases and sessions implement the promise of the payload storage:    *)
(* each step stores, promises, drops, lapses or retires one object, or none.   *)
THEOREM KeepsPromiseHolds == Spec => KeepsPromise
  <1>1. Init => Promised!Init
    BY DEF Init, Promised!Init
  <1>2. IInv /\ [Next]_vars => [Promised!Next]_Promised!vars
    <2> SUFFICES ASSUME IInv, [Next]_vars PROVE PromisedStep
      BY DEF PromisedStep, Promised!vars
    <2>1. ASSUME NEW i \in Inventories, InventoryNext(i) PROVE PromisedStep
      BY <2>1 DEF InventoryNext, AcquireInventoryFence, CheckInventoryFence, FinishInventoryFence,
         ReleaseInventoryFence, CrashInventory, PromisedStep
    <2>2. CASE Tick
      BY <2>2 DEF Tick, PromisedStep
    <2>3. ASSUME NEW p \in live, RowExpires(p) PROVE PromisedStep
      BY <2>3 DEF RowExpires, PromisedStep, Promised!Next, Promised!Lapse
    <2>4. CASE UNCHANGED vars
      BY <2>4 DEF vars, PromisedStep
    <2> QED
      BY <2>1, <2>2, <2>3, <2>4, WriterKeepsPromise, CollectorKeepsPromise DEF Next
  <1> QED
    BY <1>1, <1>2, Invariance, PTL DEF Spec, KeepsPromise, Promised!Spec
=============================================================================
