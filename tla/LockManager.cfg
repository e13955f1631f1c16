SPECIFICATION FairSpec
CONSTANTS
    Workers = {w1, w2, w3}
    NumRids = 2
    TidSpace = 4
    MaxTx = 4
    NoWorker = NoWorker
INVARIANTS
    TypeOK
    TablesMirror
    ExclusiveRows
    NoOrphanLock
    NoLostWakeup
PROPERTIES
    BlockedScanResumes
    ImplementsRowLocks
