SPECIFICATION TransportsSpec
CONSTANTS
    Connectors = {c1, c2}
    Scopes <- MCScopes
    MaxEvents = 2
    ReleaseWhileActive = FALSE
    Careless = {c1}
    inprocess = inprocess
    socket = socket
    Transports <- MCTransports
    Publishers = {p1, p2}
    Kinds = {"listener", "reader"}
    Width = 2
    MaxPublications = 3
INVARIANTS SinksAreExact  NoneLeftActive EventsArrive IdsAreApart
PROPERTIES RoutingSpec 
SYMMETRY PublisherSymmetry
CHECK_DEADLOCK FALSE
