SPECIFICATION FairSpec
CONSTANTS
    Clients = {k1, k2, k3}
    WaitForClientDisconnects = TRUE
INVARIANTS AcceptLoopAlive DrainedWhenReturned
PROPERTIES NoLateConnection WaiterIsWoken HandshakeCompletes
CHECK_DEADLOCK FALSE
