SPECIFICATION FairSpec
CONSTANTS
    Publishers = {p1}
    Connections = {k1}
    MaxSends = 1
PROPERTY EndedIsRemoved
CHECK_DEADLOCK FALSE
