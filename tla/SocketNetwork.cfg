SPECIFICATION FairSpec
CONSTANTS
    k1 = k1
    k2 = k2
    Clients <- MCClients
    MaxSent <- MCMaxSent
    Crashes = TRUE
INVARIANT NoLoss
PROPERTIES BroadcastSpec ClientIsRemoved
CHECK_DEADLOCK FALSE
