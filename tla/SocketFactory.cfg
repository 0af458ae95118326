SPECIFICATION OrderedSpec
CONSTANTS
    c1 = c1
    c2 = c2
    c3 = c3
    p1 = p1
    p2 = p2
    Connectors = {c1, c2, c3}
    Processes = {p1, p2}
    ProcessOf <- MCProcessOf
    Hosts <- MCHosts
    Wishes <- MCWishes
    None = None
INVARIANT BusesAreFit
PROPERTIES LookupReturns PortComesFree
CHECK_DEADLOCK FALSE
