SPECIFICATION Spec
CONSTANTS
    Threads = {t1, t2}
    Pids = {p1}
    MaxSlots = 2
    MaxLsn = 2
    MaxInserts = 2
    MaxStops = 0
    MaxMisreads = 1
INVARIANT
    LogBeforeData
