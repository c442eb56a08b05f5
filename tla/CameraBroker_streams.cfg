\* Three streams and three capture processes.
SPECIFICATION FairSpec
CONSTANTS
    Clients = {c1, c2, c3}
    MaxProcs = 3
CHECK_DEADLOCK FALSE
INVARIANT OneCamera
INVARIANT NoIdleCamera
INVARIANT WedgeEnds
PROPERTY WaitEnds
