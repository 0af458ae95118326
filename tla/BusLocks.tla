------------------------------- MODULE BusLocks -------------------------------
(***************************************************************************)
(* The locks of a socket bus and of its connections: the order in which     *)
(* rsb/transport/socket/BusImpl.cpp, BusServerImpl.cpp and BusConnection.cpp *)
(* take connectionLock and the mutex of a connection.                       *)
(*                                                                         *)
(* Publishing threads and, when it forwards an event, the io thread go from *)
(* the bus to its connections.  The io thread goes from a connection to its *)
(* bus when the connection ends.  Both locks are recursive.                 *)
(***************************************************************************)
EXTENDS Naturals, FiniteSets

CONSTANTS Publishers,  \* threads that publish on the bus
          Connections, \* connections of the bus
          MaxSends     \* bound on the number of events sent

Io == "io"
Nobody == "nobody"

Threads == Publishers \cup {Io}

VARIABLES connectionLock, \* BusImpl::connectionLock: its owner
          mutex,          \* mutex[c], BusConnection::mutex: its owner
          connections,    \* BusImpl::connections
          open,           \* connections whose socket is open
          todo,           \* todo[t]: connections t has still to send to
          failing,        \* failing[t]: connections whose sending has failed
          ending,         \* what the io thread has still to do for a connection
                          \* whose end it has read
          sends           \* number of events sent so far

vars == <<connectionLock, mutex, connections, open, todo, failing, ending, sends>>

TypeOK ==
    /\ connectionLock \in Threads \cup {Nobody}
    /\ mutex \in [Connections -> Threads \cup {Nobody}]
    /\ connections \subseteq Connections /\ open \subseteq Connections
    /\ todo \in [Threads -> SUBSET Connections]
    /\ failing \in [Threads -> SUBSET Connections]
    /\ ending \subseteq Connections \X {"remove", "close"}
    /\ sends \in 0..MaxSends

Init ==
    /\ connectionLock = Nobody
    /\ mutex = [c \in Connections |-> Nobody]
    /\ connections = Connections /\ open = Connections
    /\ todo = [t \in Threads |-> {}]
    /\ failing = [t \in Threads |-> {}]
    /\ ending = {}
    /\ sends = 0

-----------------------------------------------------------------------------
(* BusImpl::handle and, on the io thread, BusServerImpl::handleIncoming *)

\* The bus is locked; from is the connection that a forwarded event came from.
BeginSending(t, from) ==
    /\ sends < MaxSends /\ connectionLock = Nobody
    /\ t = Io => ending = {}
    /\ connectionLock' = t
    /\ todo' = [todo EXCEPT ![t] = connections \ from]
    /\ sends' = sends + 1
    /\ UNCHANGED <<mutex, connections, open, failing, ending>>

\* BusConnection::sendEvent locks the connection, ...
LockConnection(t, c) ==
    /\ connectionLock = t /\ c \in todo[t] /\ mutex[c] = Nobody
    /\ \A d \in Connections : mutex[d] # t
    /\ mutex' = [mutex EXCEPT ![c] = t]
    /\ UNCHANGED <<connectionLock, connections, open, todo, failing, ending, sends>>

\* ... writes, which may fail, and unlocks it.
Write(t, c) ==
    /\ connectionLock = t /\ c \in todo[t] /\ mutex[c] = t
    /\ todo' = [todo EXCEPT ![t] = @ \ {c}]
    /\ \/ UNCHANGED failing
       \/ failing' = [failing EXCEPT ![t] = @ \cup {c}]
    /\ mutex' = [mutex EXCEPT ![c] = Nobody]
    /\ UNCHANGED <<connectionLock, connections, open, ending, sends>>

\* Failing connections are removed and the bus is unlocked.
EndSending(t) ==
    /\ connectionLock = t /\ todo[t] = {}
    /\ t = Io => ending = {}
    /\ connections' = connections \ failing[t]
    /\ failing' = [failing EXCEPT ![t] = {}]
    /\ connectionLock' = Nobody
    /\ UNCHANGED <<mutex, open, todo, ending, sends>>

-----------------------------------------------------------------------------
(* BusConnection::handleReadLength and handleReadBody on the io thread *)

\* End-of-file is handled with the connection locked, any other error is not.
ReadEnd(c) ==
    /\ c \in open /\ ending = {} /\ connectionLock # Io
    /\ ending' = {<<c, "remove">>}
    /\ \/ mutex[c] = Nobody /\ mutex' = [mutex EXCEPT ![c] = Io]
       \/ UNCHANGED mutex
    /\ UNCHANGED <<connectionLock, connections, open, todo, failing, sends>>

\* performSafeCleanup: bus->removeConnection() locks and unlocks the bus.
RemoveConnection(c) ==
    /\ <<c, "remove">> \in ending /\ connectionLock = Nobody
    /\ connections' = connections \ {c}
    /\ ending' = {<<c, "close">>}
    /\ UNCHANGED <<connectionLock, mutex, open, todo, failing, sends>>

\* performSafeCleanup: disconnect() locks the connection and closes it, and the
\* handler returns.
Disconnect(c) ==
    /\ <<c, "close">> \in ending /\ mutex[c] \in {Nobody, Io}
    /\ open' = open \ {c}
    /\ mutex' = [mutex EXCEPT ![c] = Nobody]
    /\ ending' = {}
    /\ UNCHANGED <<connectionLock, connections, todo, failing, sends>>

-----------------------------------------------------------------------------
Sending(t) == (\E c \in Connections : LockConnection(t, c) \/ Write(t, c)) \/ EndSending(t)
Ending == \E c \in Connections : RemoveConnection(c) \/ Disconnect(c)

Next ==
    \/ \E p \in Publishers : BeginSending(p, {})
    \/ \E c \in open : BeginSending(Io, {c})
    \/ \E t \in Threads : Sending(t)
    \/ \E c \in Connections : ReadEnd(c)
    \/ Ending

\* Every thread runs until it blocks, and locks are fair.
Fairness ==
    /\ \A t \in Threads : WF_vars(EndSending(t))
    /\ \A t \in Threads : \A c \in Connections : SF_vars(LockConnection(t, c)) /\ WF_vars(Write(t, c))
    /\ \A c \in Connections : SF_vars(RemoveConnection(c)) /\ SF_vars(Disconnect(c))

Spec == Init /\ [][Next]_vars
FairSpec == Spec /\ Fairness

-----------------------------------------------------------------------------
\* "Remove ourselves from the bus to which we are connected"
\* (BusConnection.cpp:157): a connection whose end has been read is removed.
EndedIsRemoved ==
    \A c \in Connections : <<c, "remove">> \in ending ~> c \notin connections
=============================================================================
