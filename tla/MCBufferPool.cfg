SPECIFICATION Spec
CONSTANTS
    Threads = {t1, t2}
    NumFrames = 2
    HeapPids = {0, 1}
    IndexPids = {0}
    NoPage = NoPage
    MaxVersion = 2
    MaxLeaks = 1
SYMMETRY Symmetry
INVARIANTS
    TypeOK
    BookkeepingAgrees
    PinsAreExact
    PointersStayValid
    EvictableIsPersisted
PROPERTIES
    RefusedOnlyWhenAllPinned
    ShutdownKeepsChanges
    ImplementsPageStore
