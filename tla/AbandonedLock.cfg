SPECIFICATION Spec
CONSTANTS
    Threads = {t1, t2}
    NumFrames = 1
    HeapPids = {0, 1}
    IndexPids = {}
    NoPage = NoPage
    MaxVersion = 0
    MaxLeaks = 0
INVARIANT
    FailedStatementReleasesLock
