---------------------------- MODULE RpcContract ----------------------------
(***************************************************************************)
(* What a caller of RemoteServer::callAsync may rely on: the future of a   *)
(* call is completed at most once, with an outcome that some server        *)
(* produced while executing that very request, after the call was made.    *)
(***************************************************************************)
CONSTANTS Calls,   \* the method calls
          Outcomes \* what executing a request can produce for the caller

VARIABLES called,   \* calls whose request has been sent
          produced, \* produced[c]: outcomes servers have produced for c
          future    \* future[c]: the set of outcomes c's future was given

vars == <<called, produced, future>>

Init ==
    /\ called = {}
    /\ produced = [c \in Calls |-> {}]
    /\ future = [c \in Calls |-> {}]

Call(c) ==
    /\ c \notin called
    /\ called' = called \cup {c}
    /\ UNCHANGED <<produced, future>>

Produce(c, o) ==
    /\ c \in called
    /\ produced' = [produced EXCEPT ![c] = @ \cup {o}]
    /\ UNCHANGED <<called, future>>

Complete(c, o) ==
    /\ future[c] = {}
    /\ o \in produced[c]
    /\ future' = [future EXCEPT ![c] = {o}]
    /\ UNCHANGED <<called, produced>>

Next ==
    \E c \in Calls : Call(c) \/ \E o \in Outcomes : Produce(c, o) \/ Complete(c, o)

Spec == Init /\ [][Next]_vars
=============================================================================
