SPECIFICATION Spec
CONSTANTS
    Threads = {t1, t2}
    Pids = {p1, p2}
    MaxSlots = 2
    MaxLsn = 3
    MaxInserts = 4
    MaxStops = 2
    MaxMisreads = 1
SYMMETRY Symmetry
INVARIANTS
    TypeOK
    AckedRowsSurvive
    AckedRowsLogged
    PageLsnNotAhead
PROPERTIES
    LsnsNeverGoBack
    ReplayCatchesUp
    UsesPageStore
