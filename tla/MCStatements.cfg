SPECIFICATION Spec
CONSTANTS
    MaxSlots = 3
    HeapPayloadSize = 13
    IntSize = 2
    StringMaxSize = 4
    LongStrings = {7}
    Literals <- MCLiterals
    Workers = {w1, w2}
    Writers = {w1}
    NoWorker = NoWorker
    Requests <- MCRequests
    MaxPid = 1
    MaxStatements = 6
\* The statements end, and scans may wait for each other.
CHECK_DEADLOCK FALSE
INVARIANTS
    TypeOK
    AckedRowsIntact
    SelectSeesAckedRows
    ParsedAsMeant
    InsertIsAllOrPrefix
    ScanLocksInOrder
PROPERTIES
    LookupsStable
