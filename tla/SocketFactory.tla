---------------------------- MODULE SocketFactory ----------------------------
(***************************************************************************)
(* How connectors get their bus from the factory of their process           *)
(* (rsb/transport/socket/Factory.cpp) and give it back                      *)
(* (ConnectorBase.cpp): the weak caches of client and server buses, the     *)
(* lookup under busMutex, the fall-back of server mode auto, the handshake  *)
(* that a client waits for with the mutex held, and what the destructors of *)
(* the buses do to the peers.                                               *)
(*                                                                         *)
(* All processes run on one machine and use one port.  A bus is named by    *)
(* the connector whose lookup creates it; each connector is activated once. *)
(* The caches go by the name that was asked: two names of a host are two.   *)
(* The accept loop is module BusServer, here a server that accepts, stops,  *)
(* waits for its clients and closes its port; TCP is external.              *)
(***************************************************************************)
EXTENDS FiniteSets, Functions

CONSTANTS Connectors,
          Processes,
          ProcessOf,  \* the process of a connector
          Hosts,      \* names by which connectors ask for the machine
          Wishes,     \* arguments of getBus: records as in Wish
          None

Modes == {"no", "yes", "auto"}     \* enum Server
Wish == [mode : Modes, host : Hosts, tcpnodelay : BOOLEAN, wait : BOOLEAN]

ASSUME ProcessAssumption == ProcessOf \in [Connectors -> Processes]
ASSUME WishAssumption == Wishes \subseteq Wish
ASSUME NoneAssumption == None \notin Connectors

VARIABLES mutex,    \* Factory::busMutex: the connector whose lookup holds it
          clients,  \* Factory::busClients: host -> weak pointer
          servers,  \* Factory::busServers
          pc,       \* the step the connector's owner is in
          wish,     \* the options of the connector
          bus,      \* the strong pointer of the connector, or of its lookup
          kind,     \* what the lookup of the connector created
          server,   \* life of a server bus and its port
          peer,     \* the server to which a client bus is connected
          conn      \* the connection of a client bus, as both ends see it

vars == <<mutex, clients, servers, pc, wish, bus, kind, server, peer, conn>>

Steps == {"idle", "locking", "findServer", "bind", "register", "findClient",
          "findResolved", "connect", "handshake", "found", "returning",
          "failing", "failed", "active", "tearing", "done"}
ServerStates == {"none", "listening", "accepting", "stopping", "spinning", "draining",
                 "drained", "gone"}
ConnStates == {"none", "backlog", "open", "reset", "closing", "ended"}

Cache == UNION {[H -> Connectors] : H \in SUBSET Hosts}

TypeOK ==
    /\ mutex \in [Processes -> Connectors \cup {None}]
    /\ clients \in [Processes -> Cache]
    /\ servers \in [Processes -> Cache]
    /\ pc \in [Connectors -> Steps]
    /\ wish \in [Connectors -> Wishes \cup {None}]
    /\ bus \in [Connectors -> Connectors \cup {None}]
    /\ kind \in [Connectors -> {"none", "client", "server"}]
    /\ server \in [Connectors -> ServerStates]
    /\ peer \in [Connectors -> Connectors \cup {None}]
    /\ conn \in [Connectors -> ConnStates]

Init ==
    /\ mutex = [p \in Processes |-> None]
    /\ clients = [p \in Processes |-> [h \in {} |-> None]]
    /\ servers = [p \in Processes |-> [h \in {} |-> None]]
    /\ pc = [c \in Connectors |-> "idle"]
    /\ wish = [c \in Connectors |-> None]
    /\ bus = [c \in Connectors |-> None]
    /\ kind = [c \in Connectors |-> "none"]
    /\ server = [c \in Connectors |-> "none"]
    /\ peer = [c \in Connectors |-> None]
    /\ conn = [c \in Connectors |-> "none"]

-----------------------------------------------------------------------------
(* Buses and their owners *)

\* Can a weak pointer to b be locked?  Not while its destructor runs.
Alive(b) == \E c \in Connectors : bus[c] = b /\ pc[c] # "tearing"

\* The servers that have the port
Bound == {b \in Connectors : server[b] \notin {"none", "gone"}}

Goto(c, step) == pc' = [pc EXCEPT ![c] = step]
Process(c) == ProcessOf[c]
Remember(cache, c, host) ==
    [cache EXCEPT ![Process(c)] =
        [h \in DOMAIN @ \cup {host} |-> IF h = host THEN c ELSE @[h]]]

\* Where a connector goes on when it has let go of its bus: deactivate()
\* returns, or checkOptions has thrown and getBus catches that in mode auto.
AfterDrop(c) ==
    IF mutex[Process(c)] # c THEN "done"
    ELSE IF wish[c].mode = "auto" /\ kind[bus[c]] = "server" THEN "findClient"
    ELSE "failing"

\* Mutated: ~BusImpl does not shut its connection down.
Drop_keepsConnection(c) ==
    LET b == bus[c]
        last == \A d \in Connectors \ {c} : bus[d] # b \/ pc[d] = "tearing"
    IN  IF last /\ kind[b] = "server"
        THEN /\ server' = [server EXCEPT ![b] = "stopping"]
             /\ Goto(c, "tearing")
             /\ UNCHANGED <<bus, conn>>
        ELSE /\ Goto(c, AfterDrop(c))
             /\ bus' = [bus EXCEPT ![c] = None]
             /\ UNCHANGED <<server, conn>>

\* A strong pointer goes out of scope.  The last one to a server runs
\* ~LifecycledBusServer, which does not return before the server is drained;
\* the last one to a client runs ~BusImpl, which shuts the connection down.
Drop(c) ==
    LET b == bus[c]
        last == \A d \in Connectors \ {c} : bus[d] # b \/ pc[d] = "tearing"
    IN  IF last /\ kind[b] = "server"
        THEN /\ server' = [server EXCEPT ![b] = "stopping"]
             /\ Goto(c, "tearing")
             /\ UNCHANGED <<bus, conn>>
        ELSE /\ Goto(c, AfterDrop(c))
             /\ bus' = [bus EXCEPT ![c] = None]
             /\ conn' = [conn EXCEPT ![b] = IF last /\ @ = "open" THEN "closing" ELSE @]
             /\ UNCHANGED server

\* ~LifecycledBusServer returns.
TornDown(c) ==
    /\ pc[c] = "tearing"
    /\ server[bus[c]] \in {"drained", "gone"}
    /\ Goto(c, AfterDrop(c))
    /\ bus' = [bus EXCEPT ![c] = None]
    /\ UNCHANGED <<mutex, clients, servers, wish, kind, server, peer, conn>>

-----------------------------------------------------------------------------
(* ConnectorBase::activate and the lookup: Factory::getBus *)

\* The owner activates the connector; its options are set at construction.
Activate(c, w) ==
    /\ pc[c] = "idle"
    /\ wish' = [wish EXCEPT ![c] = w]
    /\ Goto(c, "locking")
    /\ UNCHANGED <<mutex, clients, servers, bus, kind, server, peer, conn>>

\* Mutated: getBus does not wait for busMutex.
Lock_unguarded(c) ==
    /\ pc[c] = "locking"
    /\ mutex' = [mutex EXCEPT ![Process(c)] = c]
    /\ Goto(c, IF wish[c].mode = "no" THEN "findClient" ELSE "findServer")
    /\ UNCHANGED <<clients, servers, wish, bus, kind, server, peer, conn>>

\* getBus locks busMutex and looks at the mode.
Lock(c) ==
    /\ pc[c] = "locking"
    /\ mutex[Process(c)] = None
    /\ mutex' = [mutex EXCEPT ![Process(c)] = c]
    /\ Goto(c, IF wish[c].mode = "no" THEN "findClient" ELSE "findServer")
    /\ UNCHANGED <<clients, servers, wish, bus, kind, server, peer, conn>>

\* searchInMap: a live entry is locked, an expired one is erased.
Hit(c, cache, host) ==
    /\ host \in DOMAIN cache[Process(c)]
    /\ Alive(cache[Process(c)][host])

SearchInMap(c, cache, host, miss) ==
    IF Hit(c, cache, host)
    THEN /\ bus' = [bus EXCEPT ![c] = cache[Process(c)][host]]
         /\ Goto(c, "found")
         /\ UNCHANGED cache
    ELSE /\ cache' = [cache EXCEPT ![Process(c)] = Restrict(@, DOMAIN @ \ {host})]
         /\ Goto(c, miss)
         /\ UNCHANGED bus

\* getBusServerFor, first its lookup
FindServer(c) ==
    /\ pc[c] = "findServer"
    /\ SearchInMap(c, servers, wish[c].host, "bind")
    /\ UNCHANGED <<mutex, clients, wish, kind, server, peer, conn>>

\* checkOptions throws if the bus was made with the other tcpnodelay; the
\* pointer searchInMap has locked is dropped on the way out, and may be the
\* last one by now.
CheckOptions(c) ==
    /\ pc[c] = "found"
    /\ IF wish[bus[c]].tcpnodelay = wish[c].tcpnodelay
       THEN Goto(c, "returning") /\ UNCHANGED <<bus, server, conn>>
       ELSE Drop(c)
    /\ UNCHANGED <<mutex, clients, servers, wish, kind, peer>>

\* The constructor of BusServerImpl opens the acceptor, which binds the port
\* and listens.
Bind(c) ==
    /\ pc[c] = "bind" /\ Bound = {}
    /\ kind' = [kind EXCEPT ![c] = "server"]
    /\ server' = [server EXCEPT ![c] = "listening"]
    /\ bus' = [bus EXCEPT ![c] = c]
    /\ Goto(c, "register")
    /\ UNCHANGED <<mutex, clients, servers, wish, peer, conn>>

\* The port is in use.  In mode auto getBus catches the exception.
FailToBind(c) ==
    /\ pc[c] = "bind" /\ Bound # {}
    /\ Goto(c, IF wish[c].mode = "auto" THEN "findClient" ELSE "failing")
    /\ UNCHANGED <<mutex, clients, servers, wish, bus, kind, server, peer, conn>>

\* The server is activated and put into the cache.
Register(c) ==
    /\ pc[c] = "register"
    /\ server' = [server EXCEPT ![c] = "accepting"]
    /\ servers' = Remember(servers, c, wish[c].host)
    /\ Goto(c, "returning")
    /\ UNCHANGED <<mutex, clients, wish, bus, kind, peer, conn>>

\* getBusClientFor looks the name up as it was given ...
FindClient(c) ==
    /\ pc[c] = "findClient"
    /\ SearchInMap(c, clients, wish[c].host, "findResolved")
    /\ UNCHANGED <<mutex, servers, wish, kind, server, peer, conn>>

\* ... and again as the resolver names it.  The query does not ask for canonical
\* names, so host_name() is the name it was given.
FindResolved(c) ==
    /\ pc[c] = "findResolved"
    /\ SearchInMap(c, clients, wish[c].host, "connect")
    /\ UNCHANGED <<mutex, servers, wish, kind, server, peer, conn>>

\* A new client bus: its socket is in the server's backlog, and it is in the
\* cache already when the connection waits for the handshake.
Connect(c) ==
    /\ pc[c] = "connect"
    /\ \E s \in Bound : peer' = [peer EXCEPT ![c] = s]
    /\ conn' = [conn EXCEPT ![c] = "backlog"]
    /\ kind' = [kind EXCEPT ![c] = "client"]
    /\ bus' = [bus EXCEPT ![c] = c]
    /\ clients' = Remember(clients, c, wish[c].host)
    /\ Goto(c, "handshake")
    /\ UNCHANGED <<mutex, servers, wish, server>>

\* Nobody listens.
FailToConnect(c) ==
    /\ pc[c] = "connect" /\ Bound = {}
    /\ Goto(c, "failing")
    /\ UNCHANGED <<mutex, clients, servers, wish, bus, kind, server, peer, conn>>

\* The constructor of BusConnection has read the handshake; the socket may
\* have ended behind it.
HandshakeDone(c) ==
    /\ pc[c] = "handshake" /\ conn[c] \in {"open", "ended"}
    /\ Goto(c, "returning")
    /\ UNCHANGED <<mutex, clients, servers, wish, bus, kind, server, peer, conn>>

\* The read throws; the bus is destructed, its entry expires.
HandshakeFails(c) ==
    /\ pc[c] = "handshake" /\ conn[c] = "reset"
    /\ bus' = [bus EXCEPT ![c] = None]
    /\ Goto(c, "failing")
    /\ UNCHANGED <<mutex, clients, servers, wish, kind, server, peer, conn>>

Unlock(c) ==
    mutex' = [mutex EXCEPT ![Process(c)] = None]

\* getBus returns and activate() sets the flag.
Return(c) ==
    /\ pc[c] = "returning"
    /\ Unlock(c)
    /\ Goto(c, "active")
    /\ UNCHANGED <<clients, servers, wish, bus, kind, server, peer, conn>>

\* getBus throws to the owner.
Throw(c) ==
    /\ pc[c] = "failing"
    /\ Unlock(c)
    /\ Goto(c, "failed")
    /\ UNCHANGED <<clients, servers, wish, bus, kind, server, peer, conn>>

\* ConnectorBase::deactivate: the bus is dropped without the mutex.
Deactivate(c) ==
    /\ pc[c] = "active"
    /\ Drop(c)
    /\ UNCHANGED <<mutex, clients, servers, wish, kind, peer>>

-----------------------------------------------------------------------------
(* The io thread of a server's process *)

ClientsOf(s, states) == {d \in Connectors : peer[d] = s /\ conn[d] \in states}

\* BusServerImpl::handleAccept: an accept that is outstanding when the loop is
\* stopped may still be completed by a client, and then ends the loop.
Accept(s) ==
    /\ server[s] \in {"accepting", "stopping", "spinning"}
    /\ \E d \in ClientsOf(s, {"backlog"}) : conn' = [conn EXCEPT ![d] = "open"]
    /\ server' = [server EXCEPT ![s] = IF @ = "accepting" THEN @ ELSE "draining"]
    /\ UNCHANGED <<mutex, clients, servers, pc, wish, bus, kind, peer>>

\* The outstanding accept is cancelled, or its handler is before the test of the
\* flag ...
LoopEnds(s) ==
    /\ server[s] = "stopping"
    /\ server' = [server EXCEPT ![s] = "draining"]
    /\ UNCHANGED <<mutex, clients, servers, pc, wish, bus, kind, peer, conn>>

\* ... or it is behind the test, and starts the next accept behind cancel():
\* deactivate() spins until one more client connects (DeactivateReturns of
\* BusServer).
CancelMisses(s) ==
    /\ server[s] = "stopping"
    /\ server' = [server EXCEPT ![s] = "spinning"]
    /\ UNCHANGED <<mutex, clients, servers, pc, wish, bus, kind, peer, conn>>

\* The connection reads end-of-file and is removed from the server.
SeeEof(s) ==
    /\ \E d \in ClientsOf(s, {"closing"}) : conn' = [conn EXCEPT ![d] = "ended"]
    /\ UNCHANGED <<mutex, clients, servers, pc, wish, bus, kind, server, peer>>

\* BusServerImpl::deactivate returns, if asked to after the last client.
Drained(s) ==
    /\ server[s] = "draining"
    /\ wish[s].wait => ClientsOf(s, {"open", "closing"}) = {}
    /\ server' = [server EXCEPT ![s] = "drained"]
    /\ UNCHANGED <<mutex, clients, servers, pc, wish, bus, kind, peer, conn>>

\* Mutated: clients that were never accepted are not told.
ClosePort_keepsBacklog(s) ==
    /\ server[s] = "drained"
    /\ server' = [server EXCEPT ![s] = "gone"]
    /\ conn' = [d \in Connectors |->
                  IF d \in ClientsOf(s, {"open", "closing"}) THEN "ended" ELSE conn[d]]
    /\ UNCHANGED <<mutex, clients, servers, pc, wish, bus, kind, peer>>

\* BusServerImpl is destructed by whoever has the last reference, the owner or
\* an accept handler that is not quite done: its connections are shut down, its
\* acceptor is closed and the backlog with it.
ClosePort(s) ==
    /\ server[s] = "drained"
    /\ server' = [server EXCEPT ![s] = "gone"]
    /\ conn' = [d \in Connectors |->
                  IF d \in ClientsOf(s, {"backlog"}) THEN "reset"
                  ELSE IF d \in ClientsOf(s, {"open", "closing"}) THEN "ended"
                  ELSE conn[d]]
    /\ UNCHANGED <<mutex, clients, servers, pc, wish, bus, kind, peer>>

-----------------------------------------------------------------------------
\* A step of a lookup that goes on by itself
LookupStep(c) ==
    \/ FindServer(c) \/ CheckOptions(c) \/ Bind(c) \/ FailToBind(c) \/ Register(c)
    \/ FindClient(c) \/ FindResolved(c) \/ Connect(c) \/ FailToConnect(c)
    \/ HandshakeDone(c) \/ HandshakeFails(c) \/ Return(c) \/ Throw(c) \/ TornDown(c)

StopLoop(s) == LoopEnds(s) \/ CancelMisses(s)
ServerStep(s) == Accept(s) \/ StopLoop(s) \/ SeeEof(s) \/ Drained(s) \/ ClosePort(s)

Next ==
    \E c \in Connectors :
        \/ \E w \in Wishes : Activate(c, w)
        \/ Lock(c) \/ LookupStep(c) \/ Deactivate(c) \/ ServerStep(c)

Spec == Init /\ [][Next]_vars

\* Threads go on, the mutex is granted in the end, the io threads run.
Fairness ==
    \A c \in Connectors : /\ SF_vars(Lock(c)) /\ WF_vars(LookupStep(c))
                          /\ WF_vars(Accept(c)) /\ WF_vars(StopLoop(c))
                          /\ WF_vars(SeeEof(c)) /\ WF_vars(Drained(c))
                          /\ WF_vars(ClosePort(c))

FairSpec == Spec /\ Fairness

-----------------------------------------------------------------------------
(* Properties *)

\* Connectors of one process that ask for one host name and port share a client
\* bus and share a server; the weak caches never lose a bus that somebody uses
\* (Factory::searchInMap and getBus).  Two names of one host get a bus each.
SharedBus ==
    \A b, d \in {x \in Connectors : Alive(x)} :
        /\ Process(b) = Process(d)
        /\ kind[b] = kind[d]
        /\ wish[b].host = wish[d].host
        => b = d

\* A bus that a connector works with has been through the handshake, although
\* the cache has it earlier (Factory.cpp:150 and BusConnection.cpp:81).
HandshakeBeforeUse ==
    \A c \in Connectors :
        pc[c] = "active" /\ kind[bus[c]] = "client" => conn[bus[c]] \in {"open", "ended"}

\* Connectors get the bus of the name they ask for, one for all, and do not use it
\* before its handshake (Factory.cpp:67, :150, :198).
BusesAreFit == SharedBus /\ HandshakeBeforeUse

\* A server that is going waits for a client that somebody still uses.
HeldUp ==
    \E s \in Connectors :
        /\ server[s] = "draining" /\ wish[s].wait
        /\ \E d \in ClientsOf(s, {"open"}), c \in Connectors : bus[c] = d /\ pc[c] = "active"

\* The lookup that holds the mutex of c's process destroys a server whose accept
\* loop has missed the cancel.
SpinsForLookup(c) ==
    LET d == mutex[Process(c)]
    IN  d # None /\ pc[d] = "tearing" /\ server[bus[d]] = "spinning"

\* activate() returns, or throws, although getBus waits for a peer with the
\* mutex held, and may destroy a bus there (Factory.cpp:198,
\* BusConnection.cpp:81).  Two things can hold it up: a server that waits for
\* clients in use, and one destroyed in a lookup of the process whose accept loop
\* has missed the cancel (BusServerImpl.cpp:137).
LookupReturns ==
    \A c \in Connectors :
        pc[c] = "locking" ~> pc[c] \in {"active", "failed"} \/ HeldUp \/ SpinsForLookup(c)

\* A server that nobody uses frees its port, so that the endpoint can be
\* served again: it does not wait for a client that is gone
\* (BusServerImpl.cpp:93, BusImpl.cpp:53).  Only if the cancel misses the accept
\* loop it keeps it, until one more client connects.
PortComesFree ==
    \A s \in Connectors :
        server[s] \in {"stopping", "draining"}
            ~> server[s] \in {"gone", "spinning"} \/ HeldUp
=============================================================================
