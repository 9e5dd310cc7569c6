SPECIFICATION FairSpec
CONSTANTS
    Writers = {w1, w2}
    Collectors = {c1}
    Inventories = {i1}
    Bodies = {b1}
    WriteLease = 2
    GcLease = 1
    MaxWriters = 2
    None = None
INVARIANTS NoDanglingRow FenceExclusive
PROPERTIES InventoryEvidenceCurrent WriterServed KeepsPromise
CHECK_DEADLOCK FALSE
