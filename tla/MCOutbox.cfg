SPECIFICATION FairSpec
CONSTANTS
    Services = {o1, o2}
    Subs = {s1}
    Kinds = {k1}
    Limit = 2
    Chunk = 1
    MaxSequence = 3
    MaxCrashes = 1
    None = None
INVARIANTS RoutedAsCommitted WatermarkSound
PROPERTIES WatermarkCatchesUp
CHECK_DEADLOCK FALSE
