SPECIFICATION FairSpec
CONSTANTS
    Clients = {k1}
    WaitForClientDisconnects = TRUE
PROPERTY DeactivateReturns
CHECK_DEADLOCK FALSE
