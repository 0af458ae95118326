----------------------------- MODULE MCTransports -----------------------------
(***************************************************************************)
(* A small instance, for TLC, of what delivers events inside a process.  A   *)
(* behaviour is one of the in-process bus (InprocessBus), one of the socket  *)
(* transport's (SocketSinks) or one of participants over both transports    *)
(* (Routes): of both ends with two publications, or of the informer alone    *)
(* with one more, so that sequence numbers wrap.  The others rest.           *)
(***************************************************************************)
EXTENDS InprocessBus, SocketSinks, Routes, TLC

CONSTANTS inprocess, socket

VARIABLE part \* what is looked at

\* The root, a scope with a sub-scope, and a sibling.
MCScopes == { <<>>, <<"a">>, <<"a", "b">>, <<"c">> }

MCTransports == <<inprocess, socket>>

\* The publishing threads are alike.
PublisherSymmetry == Permutations(Publishers)

AtRoot == [c \in Connectors |-> <<>>]

TransportsInit ==
    /\ part \in {"inprocess", "socket", "routes", "numbers"}
    /\ Init /\ SocketInit /\ RoutesInit
    /\ part # "socket" => socketScope = AtRoot
    /\ part # "inprocess" => scope = AtRoot
    /\ part # "routes" => receiver = "listener"

TransportsNext ==
    /\ UNCHANGED part
    /\ \/ part = "inprocess" /\ Next /\ UNCHANGED <<socketVars, participantVars>>
       \/ part = "socket" /\ SocketNext /\ UNCHANGED <<vars, participantVars>>
       \/ part = "routes" /\ RoutesNext /\ drawn' <= 2 /\ UNCHANGED <<vars, socketVars>>
       \/ part = "numbers" /\ RoutesNext /\ step'["in"] = "new" /\ UNCHANGED <<vars, socketVars>>

TransportsSpec ==
    TransportsInit /\ [][TransportsNext]_<<part, vars, socketVars, participantVars>>
==============================================================================
