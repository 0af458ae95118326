---------------------------- MODULE SocketNetwork ----------------------------
(***************************************************************************)
(* One socket bus across processes: a server process, the hub, and client  *)
(* processes, each with one BusConnection to the hub.                       *)
(*                                                                         *)
(*   BusImpl.cpp        publishing: to the own sinks, then to connections   *)
(*   BusServerImpl.cpp  the hub also forwards what a connection receives    *)
(*   BusConnection.cpp  sending, receiving, end-of-file, cleaning up        *)
(*                                                                         *)
(* In each process one participant publishes and one io thread receives.   *)
(* The part of a bus method under connectorLock (own sinks) is one step and *)
(* the part under connectionLock (connections) another one; in between the  *)
(* other thread may do either.  At end-of-file the io thread takes           *)
(* connectionLock while it holds the connection's mutex, a publisher takes   *)
(* them the other way (BusLocks): the process may get stuck there.           *)
(***************************************************************************)
EXTENDS Naturals, Sequences, FiniteSets

CONSTANTS Clients, \* client processes, each of which joins once
          MaxSent, \* bounds on the number of events the processes publish
          Crashes  \* may client processes crash?

Hub == "hub"
ASSUME ClientsAssumption == Hub \notin Clients
ASSUME CrashesAssumption == Crashes \in BOOLEAN

Processes == Clients \cup {Hub}
ASSUME MaxSentAssumption == MaxSent \in [Processes -> Nat]

Event == UNION {[from : {p}, n : 1..MaxSent[p]] : p \in Processes}

\* The two ends of the connection of a client
Ends == Clients \X {"client", "server"}
ClientEnd(c) == <<c, "client">>
ServerEnd(c) == <<c, "server">>
Peer(e) == IF e[2] = "client" THEN ServerEnd(e[1]) ELSE ClientEnd(e[1])
ProcessOf(e) == IF e[2] = "client" THEN e[1] ELSE Hub
EndsOf(p) == IF p = Hub THEN {ServerEnd(c) : c \in Clients} ELSE {ClientEnd(p)}

\* What a socket delivers besides events
Eof == [from |-> "eof", n |-> 0]     \* the peer has shut down sending
Reset == [from |-> "reset", n |-> 0] \* the connection was reset; nothing follows

VARIABLES bus,      \* bus[c]: "new", "up" or, once destructed, "down"
          accepted, \* connections constructed but not yet added by the hub
          listed,   \* ends in the connections of their bus
          open,     \* ends whose socket is open
          stopping, \* ends with activeShutdown set, which have sent Eof
          wire,     \* wire[e]: what e's socket has still to deliver
          pending,  \* pending[p]: p's event, given to its own sinks only
          forward,  \* the hub's io thread: event received, not yet forwarded
          stuck,    \* processes whose io thread and publisher wait for each other
          sent,     \* number of events each process has published
          inbox     \* the events given to each process's sinks

vars == <<bus, accepted, listed, open, stopping, wire, pending, forward, stuck, sent, inbox>>

TypeOK ==
    /\ bus \in [Clients -> {"new", "up", "down"}]
    /\ accepted \subseteq Clients
    /\ listed \subseteq Ends
    /\ open \subseteq Ends
    /\ stopping \subseteq Ends
    /\ wire \in [Ends -> Seq(Event \cup {Eof, Reset})]
    /\ pending \in [Processes -> SUBSET Event]
    /\ forward \subseteq Event \X Clients
    /\ stuck \subseteq Processes
    /\ sent \in [Processes -> Nat]
    /\ inbox \in [Processes -> Seq(Event)]

Init ==
    /\ bus = [c \in Clients |-> "new"]
    /\ accepted = {} /\ listed = {} /\ open = {} /\ stopping = {}
    /\ wire = [e \in Ends |-> <<>>]
    /\ pending = [p \in Processes |-> {}]
    /\ forward = {} /\ stuck = {}
    /\ sent = [p \in Processes |-> 0]
    /\ inbox = [p \in Processes |-> <<>>]

-----------------------------------------------------------------------------
(* Sockets *)

\* Sending event on the ends in targets, under connectionLock: an end that is
\* shutting down skips it.  If its peer has closed, the event is lost, the end
\* may be reset in return and sending may throw; then the bus drops the
\* connection from its list, without closing it.
Writing(targets) == (targets \cap listed) \ stopping
Broken(targets) == {e \in Writing(targets) : Peer(e) \notin open}

Written(event, targets, cut) ==
    [e \in Ends |-> IF e \in cut THEN <<Reset>>
                    ELSE IF e \in open /\ Peer(e) \in Writing(targets) THEN Append(wire[e], event)
                    ELSE wire[e]]

Send(event, targets) ==
    \E failing \in SUBSET Broken(targets) : \E cut \in SUBSET Broken(targets) :
        /\ listed' = listed \ failing
        /\ wire' = Written(event, targets, cut)

\* What the peer of e finds on its wire after e was closed: end-of-file after
\* what was sent or, if e had data it never read, possibly a reset that
\* overtakes what is still on the way.
AfterClose(e, unread) ==
    LET rest == wire[Peer(e)]
    IN  IF \E i \in DOMAIN unread : unread[i] # Eof
        THEN {SubSeq(rest, 1, n) \o <<Reset>> : n \in 0..Len(rest)}
        ELSE {IF e \in stopping THEN rest ELSE Append(rest, Eof)}

\* The end of BusConnection::performSafeCleanup: e leaves its bus and closes.
Close(e, unread) ==
    /\ listed' = listed \ {e}
    /\ open' = open \ {e}
    /\ \E rest \in AfterClose(e, unread) :
          wire' = [wire EXCEPT ![e] = <<>>,
                               ![Peer(e)] = IF Peer(e) \in open THEN rest ELSE @]

-----------------------------------------------------------------------------
(* Joining *)

\* Factory::getBusClientFor and the constructors of both BusConnections, which
\* exchange the handshake: the client adds the connection and starts receiving.
\* The hub's io thread has its part in it.
Join(c) ==
    /\ bus[c] = "new" /\ forward = {} /\ accepted = {} /\ Hub \notin stuck
    /\ bus' = [bus EXCEPT ![c] = "up"]
    /\ accepted' = {c}
    /\ listed' = listed \cup {ClientEnd(c)}
    /\ open' = open \cup {ClientEnd(c), ServerEnd(c)}
    /\ UNCHANGED <<stopping, wire, pending, forward, stuck, sent, inbox>>

\* BusServerImpl::handleAccept: addConnection and startReceiving
Register(c) ==
    /\ c \in accepted
    /\ accepted' = {}
    /\ listed' = listed \cup {ServerEnd(c)}
    /\ UNCHANGED <<bus, open, stopping, wire, pending, forward, stuck, sent, inbox>>

-----------------------------------------------------------------------------
(* Publishing: BusImpl::handle *)

Up(p) == p \in {Hub} \cup {c \in Clients : bus[c] = "up"}

PublishToSinks(p) ==
    /\ Up(p) /\ pending[p] = {} /\ sent[p] < MaxSent[p]
    /\ LET event == [from |-> p, n |-> sent[p] + 1]
       IN  /\ pending' = [pending EXCEPT ![p] = {event}]
           /\ inbox' = [inbox EXCEPT ![p] = Append(@, event)]
    /\ sent' = [sent EXCEPT ![p] = @ + 1]
    /\ UNCHANGED <<bus, accepted, listed, open, stopping, wire, forward, stuck>>

PublishToConnections(p) ==
    /\ p \notin stuck
    /\ \E event \in pending[p] : Send(event, EndsOf(p))
    /\ pending' = [pending EXCEPT ![p] = {}]
    /\ UNCHANGED <<bus, accepted, open, stopping, forward, stuck, sent, inbox>>

-----------------------------------------------------------------------------
(* Receiving: the io threads run BusConnection's handlers *)

\* The end reads as long as its socket is open, also after its bus has dropped
\* it: the pending read keeps the connection alive.  A process's io thread is
\* in one handler at a time.
Reads(e, what) ==
    /\ e \in open /\ wire[e] # <<>> /\ Head(wire[e]) = what
    /\ ProcessOf(e) \notin stuck
    /\ ProcessOf(e) = Hub => forward = {} /\ accepted = {}

\* handleReadBody, BusImpl::handleIncoming
ClientReceives(c, event) ==
    /\ Reads(ClientEnd(c), event) /\ bus[c] = "up"
    /\ inbox' = [inbox EXCEPT ![c] = Append(@, event)]
    /\ wire' = [wire EXCEPT ![ClientEnd(c)] = Tail(@)]
    /\ UNCHANGED <<bus, accepted, listed, open, stopping, pending, forward, stuck, sent>>

\* handleReadBody when the bus has been destructed
ClientFindsNoBus(c, event) ==
    /\ Reads(ClientEnd(c), event) /\ bus[c] = "down"
    /\ Close(ClientEnd(c), Tail(wire[ClientEnd(c)]))
    /\ UNCHANGED <<bus, accepted, stopping, pending, forward, stuck, sent, inbox>>

\* handleReadBody, BusServerImpl::handleIncoming up to the own sinks
HubReceives(c, event) ==
    /\ Reads(ServerEnd(c), event)
    /\ inbox' = [inbox EXCEPT ![Hub] = Append(@, event)]
    /\ wire' = [wire EXCEPT ![ServerEnd(c)] = Tail(@)]
    /\ forward' = {<<event, c>>}
    /\ UNCHANGED <<bus, accepted, listed, open, stopping, pending, stuck, sent>>

\* Mutated: the connection the event came from gets it as well.
HubForwards_echo ==
    /\ forward # {}
    /\ \E f \in forward : Send(f[1], EndsOf(Hub))
    /\ forward' = {}
    /\ UNCHANGED <<bus, accepted, open, stopping, pending, stuck, sent, inbox>>

\* Mutated: a failing connection ends the loop.
HubForwards_untilFailure ==
    /\ forward # {}
    /\ \E f \in forward :
          IF \E e \in EndsOf(Hub) \cap listed : Peer(e) \notin open
          THEN Send(f[1], {e \in EndsOf(Hub) : Peer(e) \notin open})
          ELSE Send(f[1], EndsOf(Hub) \ {ServerEnd(f[2])})
    /\ forward' = {}
    /\ UNCHANGED <<bus, accepted, open, stopping, pending, stuck, sent, inbox>>

\* BusServerImpl::handleIncoming: to all other connections
HubForwards ==
    /\ forward # {}
    /\ \E f \in forward : Send(f[1], EndsOf(Hub) \ {ServerEnd(f[2])})
    /\ forward' = {}
    /\ UNCHANGED <<bus, accepted, open, stopping, pending, stuck, sent, inbox>>

\* Mutated: the end is shut down but stays in its bus.
ReadEof_staysListed(e) ==
    /\ Reads(e, Eof)
    /\ stopping' = stopping \cup {e}
    /\ wire' = [wire EXCEPT ![e] = Tail(@),
                            ![Peer(e)] = IF e \in stopping THEN @ ELSE Append(@, Eof)]
    /\ UNCHANGED <<bus, accepted, listed, open, pending, forward, stuck, sent, inbox>>

\* handleReadLength on end-of-file: shutdown(), unless this end began it, and
\* performSafeCleanup
ReadEof(e) ==
    /\ Reads(e, Eof)
    /\ stopping' = stopping \cup {e}
    /\ Close(e, Tail(wire[e]))
    /\ UNCHANGED <<bus, accepted, pending, forward, stuck, sent, inbox>>

\* The same while the process's publisher is sending: shutdown(), and then
\* performSafeCleanup, with the connection's mutex, waits for connectionLock,
\* and the publisher, which has sent to some connections, with connectionLock
\* for that mutex.
GetStuck(e) ==
    /\ Reads(e, Eof) /\ e \in listed
    /\ \E event \in pending[ProcessOf(e)] :
          \E before \in SUBSET (EndsOf(ProcessOf(e)) \ {e}) : \E cut \in SUBSET Broken(before) :
              LET written == Written(event, before, cut)
              IN  wire' = [written EXCEPT ![Peer(e)] =
                              IF Peer(e) \in open THEN Append(@, Eof) ELSE @]
    /\ stopping' = stopping \cup {e}
    /\ stuck' = stuck \cup {ProcessOf(e)}
    /\ UNCHANGED <<bus, accepted, listed, open, pending, forward, sent, inbox>>

\* handleReadLength or handleReadBody on another error
ReadReset(e) ==
    /\ Reads(e, Reset)
    /\ Close(e, <<>>)
    /\ UNCHANGED <<bus, accepted, stopping, pending, forward, stuck, sent, inbox>>

-----------------------------------------------------------------------------
(* Leaving *)

\* ~BusImpl, when the client's last connector, and with it every publisher, has
\* gone: shutdown() of the connection, which stays open until the hub answers.
BusDestructed(c) ==
    /\ bus[c] = "up" /\ pending[c] = {}
    /\ bus' = [bus EXCEPT ![c] = "down"]
    /\ LET e == ClientEnd(c)
       IN  /\ stopping' = stopping \cup ({e} \cap listed)
           /\ wire' = [wire EXCEPT ![Peer(e)] =
                          IF e \in listed \ stopping /\ Peer(e) \in open THEN Append(@, Eof) ELSE @]
           /\ listed' = listed \ {e}
    /\ UNCHANGED <<accepted, open, pending, forward, stuck, sent, inbox>>

\* The process ends at any point; the kernel closes or resets the connection.
Crash(c) ==
    /\ Crashes /\ bus[c] = "up"
    /\ bus' = [bus EXCEPT ![c] = "down"]
    /\ pending' = [pending EXCEPT ![c] = {}]
    /\ IF ClientEnd(c) \in open THEN Close(ClientEnd(c), wire[ClientEnd(c)])
       ELSE UNCHANGED <<listed, open, wire>>
    /\ stuck' = stuck \ {c}
    /\ UNCHANGED <<accepted, stopping, forward, sent, inbox>>

-----------------------------------------------------------------------------
ReadEnd(e) == ReadEof(e) \/ ReadReset(e)

ClientReads(c) ==
    \/ \E event \in Event : ClientReceives(c, event) \/ ClientFindsNoBus(c, event)
    \/ ReadEnd(ClientEnd(c)) \/ GetStuck(ClientEnd(c))

HubReads(c) ==
    \/ \E event \in Event : HubReceives(c, event)
    \/ ReadEnd(ServerEnd(c)) \/ GetStuck(ServerEnd(c))

Next ==
    \/ \E c \in Clients : Join(c) \/ Register(c) \/ BusDestructed(c) \/ Crash(c)
    \/ \E p \in Processes : PublishToSinks(p) \/ PublishToConnections(p)
    \/ \E c \in Clients : ClientReads(c) \/ HubReads(c)
    \/ HubForwards

Spec == Init /\ [][Next]_vars

\* io threads and publishers that have begun go on, unless they are stuck; asio
\* serves the hub's connections in turn.  Nobody has to publish, join or leave.
Fairness ==
    /\ WF_vars(HubForwards)
    /\ \A c \in Clients : WF_vars(Register(c)) /\ WF_vars(ClientReads(c)) /\ SF_vars(HubReads(c))
    /\ \A p \in Processes : WF_vars(PublishToConnections(p))

FairSpec == Spec /\ Fairness

-----------------------------------------------------------------------------
(* Properties *)

\* Events arrive in order, once and without gaps, and never come back to the
\* process they came from.
Broadcast == INSTANCE EventBroadcast
BroadcastSpec == Broadcast!Spec

OnWire(e, event) == \E i \in DOMAIN wire[e] : wire[e][i] = event
Has(p, event) == \E i \in DOMAIN inbox[p] : inbox[p][i] = event

\* What a client has published is in the hub or on its way there while both
\* ends are open, also after the client's bus has gone, ...
NoUpstreamLoss ==
    \A c \in Clients : {ClientEnd(c), ServerEnd(c)} \subseteq open =>
        \A n \in 1..sent[c] :
            LET event == [from |-> c, n |-> n]
            IN  Has(Hub, event) \/ OnWire(ServerEnd(c), event) \/ event \in pending[c]

\* ... and from the first event the hub has sent to a client on, everything
\* the hub has seen of the same publisher is on its way to the client too,
\* until the hub shuts the connection down, whoever else joins, leaves or
\* crashes.
NoDownstreamLoss ==
    \A c \in Clients :
        ServerEnd(c) \in listed \ stopping /\ ClientEnd(c) \in open /\ bus[c] = "up" =>
            \A i, k \in DOMAIN inbox[Hub] :
                LET first == inbox[Hub][i]
                    later == inbox[Hub][k]
                IN  /\ i < k /\ first.from = later.from /\ first.from # c
                    /\ Has(c, first) \/ OnWire(ClientEnd(c), first)
                    => \/ Has(c, later) \/ OnWire(ClientEnd(c), later)
                       \/ later \in pending[Hub] \/ \E f \in forward : f[1] = later

\* A bus loses no event on the way from one process through the hub to
\* another (BusImpl.cpp:138, BusServerImpl.cpp:144).
NoLoss == NoUpstreamLoss /\ NoDownstreamLoss

\* The connection of a client that has left or crashed leaves the hub's list,
\* which BusServerImpl::deactivate waits for, unless the hub's io thread gets
\* stuck at some end-of-file with one of the hub's publishers
\* (BusConnection.cpp:192, BusImpl.cpp:154).
ClientIsRemoved ==
    \A c \in Clients :
        bus[c] = "down" ~> \/ ServerEnd(c) \notin listed /\ c \notin accepted
                           \/ Hub \in stuck
=============================================================================
