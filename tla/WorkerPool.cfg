SPECIFICATION FairSpec
CONSTANTS
    Clients = {1, 2, 3, 4}
    Silent = {1, 3}
    NoClient = NoClient
    Fds = {1, 2, 3, 4}
    MAX_CLIENTS = 3
    MaxWorkers = 2
INVARIANTS
    TypeOK
    DescriptorsOwnedOnce
    RepliesReachTheirClient
    NoLostHandOver
    DrainedBeforeExit
PROPERTIES
    ReadRequestIsServed
    ShutdownEnds
