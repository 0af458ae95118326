------------------------------ MODULE BusServer ------------------------------
(***************************************************************************)
(* The accept loop of the socket transport's server and the handshake that *)
(* stops it: rsb/transport/socket/BusServerImpl.cpp, seen through          *)
(* LifecycledBusServer.cpp, whose destructor deactivates the server.       *)
(*                                                                         *)
(* Two threads meet here.  The owner calls activate() and deactivate(); the *)
(* io thread of AsioServiceContext runs the completion handlers, one at a   *)
(* time.  The acceptor has at most one asynchronous accept outstanding.     *)
(* Writes to the volatile flags and calls into asio are steps of their own. *)
(***************************************************************************)
EXTENDS Naturals, FiniteSets

CONSTANTS Clients,                 \* processes that connect, each once
          WaitForClientDisconnects \* option "wait", TRUE by default

ASSUME ClientsAssumption == IsFiniteSet(Clients)
ASSUME OptionsAssumption == WaitForClientDisconnects \in BOOLEAN

VARIABLES owner,       \* where the owner is
          io,          \* where the io thread is in handleAccept
          accept,      \* the asynchronous accept operation
          accepted,    \* the client of a completed accept operation
          active,      \* BusServerImpl::active
          shutdown,    \* BusServerImpl::shutdown
          wake,        \* has shutdownCondition been notified?
          connections, \* BusImpl::connections, by the client at the far end
          backlog,     \* clients the kernel has queued for the acceptor
          left         \* clients that have closed their end

vars == <<owner, io, accept, accepted, active, shutdown, wake, connections,
          backlog, left>>

OwnerAt == {"idle", "up", "cancel", "spin", "drain", "wait", "gone"}
IoAt == {"poll", "test", "rearm", "clear", "thrown"}

TypeOK ==
    /\ owner \in OwnerAt
    /\ io \in IoAt
    /\ accept \in {"none", "pending", "connected", "aborted", "failed"}
    /\ accepted \subseteq Clients
    /\ active \in BOOLEAN /\ shutdown \in BOOLEAN /\ wake \in BOOLEAN
    /\ connections \subseteq Clients
    /\ backlog \subseteq Clients
    /\ left \subseteq Clients

Init ==
    /\ owner = "idle" /\ io = "poll" /\ accept = "none" /\ accepted = {}
    /\ active = FALSE /\ shutdown = FALSE /\ wake = FALSE
    /\ connections = {} /\ backlog = {} /\ left = {}

-----------------------------------------------------------------------------
(* The owner *)

\* BusServerImpl::activate: acceptOne, then active = true
Activate ==
    /\ owner = "idle"
    /\ accept' = "pending"
    /\ active' = TRUE
    /\ owner' = "up"
    /\ UNCHANGED <<io, accepted, shutdown, wake, connections, backlog, left>>

\* deactivate: shutdown = true.  Nothing but ~LifecycledBusServer calls it.
RequestShutdown ==
    /\ owner = "up"
    /\ owner' = "cancel"
    /\ shutdown' = TRUE
    /\ UNCHANGED <<io, accept, accepted, active, wake, connections, backlog, left>>

\* deactivate: acceptor.cancel() aborts an outstanding accept; one that has
\* completed keeps its result, and with none outstanding nothing happens.
CancelAccept ==
    /\ owner = "cancel"
    /\ owner' = "spin"
    /\ accept' = IF accept = "pending" THEN "aborted" ELSE accept
    /\ UNCHANGED <<io, accepted, active, shutdown, wake, connections, backlog, left>>

\* Mutated: one look at the flag instead of the loop.
LeaveSpin_unchecked ==
    /\ owner = "spin"
    /\ owner' = "drain"
    /\ UNCHANGED <<io, accept, accepted, active, shutdown, wake, connections, backlog, left>>

\* deactivate: while (this->shutdown) {}
LeaveSpin ==
    /\ owner = "spin" /\ ~shutdown
    /\ owner' = "drain"
    /\ UNCHANGED <<io, accept, accepted, active, shutdown, wake, connections, backlog, left>>

\* deactivate: active = false, and return to the destructor
Finish ==
    /\ owner' = "gone"
    /\ active' = FALSE
    /\ UNCHANGED <<io, accept, accepted, shutdown, connections, backlog, left>>

\* Mutated: returns without having looked at the connections again.
Wakeup_once ==
    /\ owner = "wait" /\ wake
    /\ Finish /\ UNCHANGED wake

\* deactivate, first look at the connections, under connectionLock
Drain ==
    /\ owner = "drain"
    /\ IF WaitForClientDisconnects /\ connections # {}
       THEN /\ owner' = "wait" /\ wake' = FALSE
            /\ UNCHANGED <<io, accept, accepted, active, shutdown, connections, backlog, left>>
       ELSE Finish /\ UNCHANGED wake

\* deactivate: shutdownCondition.wait(lock) returns and the loop tests again
Wakeup ==
    /\ owner = "wait" /\ wake
    /\ IF connections # {}
       THEN /\ wake' = FALSE
            /\ UNCHANGED <<owner, io, accept, accepted, active, shutdown, connections, backlog, left>>
       ELSE Finish /\ UNCHANGED wake

-----------------------------------------------------------------------------
(* The io thread *)

\* Mutated: the loop ends on the first error.
HandleAccept_endsOnError ==
    /\ io = "poll"
    /\ accept \in {"connected", "aborted", "failed"}
    /\ connections' = connections \cup accepted
    /\ accepted' = {}
    /\ accept' = "none"
    /\ io' = IF accept = "failed" /\ ~shutdown THEN "poll" ELSE "test"
    /\ UNCHANGED <<owner, active, shutdown, wake, backlog, left>>

\* handleAccept up to the test of shutdown: a new connection is constructed,
\* registered and starts receiving; an error is only logged.
HandleAccept ==
    /\ io = "poll"
    /\ accept \in {"connected", "aborted", "failed"}
    /\ connections' = connections \cup accepted
    /\ accepted' = {}
    /\ accept' = "none"
    /\ io' = "test"
    /\ UNCHANGED <<owner, active, shutdown, wake, backlog, left>>

\* handleAccept for a client that has already reset its connection:
\* remote_endpoint(), or the option and the handshake in BusConnection's
\* constructor, throw.  Nothing catches that in the io thread, so it ends, and
\* with it the process.
ThrowOutOfAccept ==
    /\ io = "poll" /\ accept = "connected" /\ accepted \subseteq left
    /\ accepted' = {}
    /\ accept' = "none"
    /\ io' = "thrown"
    /\ UNCHANGED <<owner, active, shutdown, wake, connections, backlog, left>>

\* Mutated: the next accept is started without a look at the flag.
TestShutdown_ignoresFlag ==
    /\ io = "test"
    /\ io' = "rearm"
    /\ UNCHANGED <<owner, accept, accepted, active, shutdown, wake, connections, backlog, left>>

\* handleAccept: if (!this->shutdown)
TestShutdown ==
    /\ io = "test"
    /\ io' = IF shutdown THEN "clear" ELSE "rearm"
    /\ UNCHANGED <<owner, accept, accepted, active, shutdown, wake, connections, backlog, left>>

\* handleAccept: acceptOne(ref)
AcceptAgain ==
    /\ io = "rearm"
    /\ accept' = "pending"
    /\ io' = "poll"
    /\ UNCHANGED <<owner, accepted, active, shutdown, wake, connections, backlog, left>>

\* handleAccept: this->shutdown = false
AcknowledgeShutdown ==
    /\ io = "clear"
    /\ shutdown' = FALSE
    /\ io' = "poll"
    /\ UNCHANGED <<owner, accept, accepted, active, wake, connections, backlog, left>>

\* Mutated: BusImpl::removeConnection is inherited unchanged, nobody is notified.
RemoveConnection_silent(c) ==
    /\ io = "poll" \/ owner = "up"
    /\ c \in connections /\ c \in left
    /\ connections' = connections \ {c}
    /\ UNCHANGED <<owner, io, accept, accepted, active, shutdown, wake, backlog, left>>

\* BusConnection::handleReadLength on end-of-file, through performSafeCleanup
\* to BusServerImpl::removeConnection, which notifies a waiting owner; or, while
\* participants hold the bus, a publishing thread whose send has failed
RemoveConnection(c) ==
    /\ io = "poll" \/ owner = "up"
    /\ c \in connections /\ c \in left
    /\ connections' = connections \ {c}
    /\ wake' = (wake \/ owner = "wait")
    /\ UNCHANGED <<owner, io, accept, accepted, active, shutdown, backlog, left>>

-----------------------------------------------------------------------------
(* The kernel and the clients *)

\* The acceptor listens from the construction of the server (before activate)
\* to its destruction.
Connect(c) ==
    /\ owner # "gone"
    /\ c \notin backlog \cup accepted \cup connections \cup left
    /\ backlog' = backlog \cup {c}
    /\ UNCHANGED <<owner, io, accept, accepted, active, shutdown, wake, connections, left>>

Disconnect(c) ==
    /\ c \in backlog \cup accepted \cup connections /\ c \notin left
    /\ left' = left \cup {c}
    /\ UNCHANGED <<owner, io, accept, accepted, active, shutdown, wake, connections, backlog>>

CompleteAccept(c) ==
    /\ accept = "pending" /\ c \in backlog
    /\ accept' = "connected"
    /\ accepted' = {c}
    /\ backlog' = backlog \ {c}
    /\ UNCHANGED <<owner, io, active, shutdown, wake, connections, left>>

\* The operation fails, for instance for lack of file descriptors.
FailAccept ==
    /\ accept = "pending"
    /\ accept' = "failed"
    /\ UNCHANGED <<owner, io, accepted, active, shutdown, wake, connections, backlog, left>>

-----------------------------------------------------------------------------
OwnerNext == Activate \/ RequestShutdown \/ CancelAccept \/ LeaveSpin \/ Drain \/ Wakeup

IoNext ==
    \/ HandleAccept \/ ThrowOutOfAccept
    \/ TestShutdown \/ AcceptAgain \/ AcknowledgeShutdown
    \/ \E c \in Clients : RemoveConnection(c)

Next ==
    \/ OwnerNext \/ IoNext \/ FailAccept
    \/ \E c \in Clients : Connect(c) \/ Disconnect(c) \/ CompleteAccept(c)

Spec == Init /\ [][Next]_vars

\* The owner runs until it blocks, the io thread serves what is ready (asio
\* queues completions, so none is overtaken for ever), the kernel completes an
\* accept when a client waits, and clients leave in the end.  Nobody has to
\* connect, and the owner need never shut down.
Fairness ==
    /\ WF_vars(CancelAccept \/ LeaveSpin \/ Drain \/ Wakeup)
    /\ WF_vars(\/ HandleAccept \/ ThrowOutOfAccept
               \/ TestShutdown \/ AcceptAgain \/ AcknowledgeShutdown)
    /\ \A c \in Clients : /\ SF_vars(RemoveConnection(c))
                          /\ WF_vars(Disconnect(c))
                          /\ WF_vars(CompleteAccept(c))

FairSpec == Spec /\ Fairness

-----------------------------------------------------------------------------
(* Properties *)

Returned == owner = "gone"

\* When the owner leaves the busy-wait the accept loop has ended: no accept
\* operation is left whose handler would touch a server being destroyed
\* (comment at BusServerImpl.cpp:132).
LoopEndedBeforeDrain ==
    owner \in {"drain", "wait", "gone"} =>
        accept = "none" /\ accepted = {} /\ io = "poll" /\ ~shutdown

\* The process ends with the exception that leaves the io thread.
Terminated == io = "thrown"

\* A server that is up has an accept outstanding or a handler on its way to start
\* one: neither a failed accept (BusServerImpl.cpp:129) nor any number of
\* connections ends the loop.  Only a client that has reset its connection before
\* the server looks at it does, and takes the process along.
AcceptLoopAlive ==
    owner = "up" /\ ~Terminated => accept # "none" \/ io \in {"test", "rearm"}

\* deactivate() with "wait" returns only after every client the server ever
\* registered has disconnected and has been removed.
DrainedWhenReturned ==
    WaitForClientDisconnects /\ Returned => connections = {}

\* Once deactivate() looks at the connections no new one appears.
NoLateConnection ==
    [][(owner \in {"drain", "wait", "gone"})
           => (connections' \subseteq connections)]_vars

\* An owner that waits for the clients is woken when the last one has gone.
WaiterIsWoken == owner = "wait" ~> Returned

\* If cancel() meets an accept operation, or a handler that has not yet tested
\* the flag, deactivate() returns, or the process has ended.
HandshakeCompletes ==
    owner = "spin" /\ (accept \notin {"none", "pending"} \/ io \in {"test", "clear"})
        ~> Returned \/ Terminated

\* "Initiate shutdown sequence, cancel acceptor and wait until the asynchronous
\* callbacks signal completion" (BusServerImpl.cpp:77): deactivate() returns,
\* unless the process ends.
DeactivateReturns == owner = "cancel" ~> Returned \/ Terminated
=============================================================================
