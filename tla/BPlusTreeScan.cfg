SPECIFICATION Spec
CONSTANTS
    MAX_KEYS = 2
    Keys = {1, 2, 3, 4, 5, 6, 7}
    MaxInserts = 7
INVARIANT
    ScanFindsEntries
