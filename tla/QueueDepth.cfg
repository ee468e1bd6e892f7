SPECIFICATION FairSpec
CONSTANTS
    Threads = {t1, t2}
    SweepBatch = 2
    MaxOps = 2
INVARIANTS
    DescriptorsEndInOrder
    NeverOverstated
PROPERTIES
    OwnDescriptorsLand
    CallerEnds
