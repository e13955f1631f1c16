SPECIFICATION Spec
CONSTANTS
    Workers = {w1, w2, w3}
    NumRids = 1
    TidSpace = 2
    MaxTx = 3
    NoWorker = NoWorker
INVARIANT
    ExclusiveRows
