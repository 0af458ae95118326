------------------------------ MODULE MCServers ------------------------------
(***************************************************************************)
(* A small instance of the request-reply pattern for TLC.  A behaviour is    *)
(* one of calls of a method that is there (RemoteCall) or one of methods     *)
(* that come and go with their server (ServerMethods); the other one rests.  *)
(***************************************************************************)
EXTENDS RemoteCall, ServerMethods

VARIABLE aspect

\* In a run of RemoteCall alone nothing is registered.
\* Threads are alike, and so are names: three threads are about one name, or
\* one of them is about another.
SomeNames ==
    \E n \in Names, t \in Threads :
        /\ n = CHOOSE m \in Names : TRUE
        /\ t = CHOOSE u \in Threads : TRUE
        /\ \A u \in Threads \ {t} : name[u] = n

AtRest == at = [t \in Threads |-> "idle"] /\ name = [t \in Threads |-> CHOOSE n \in Names : TRUE]

ServersInit ==
    /\ aspect \in {"calls", "methods"}
    /\ Init /\ MethodsInit /\ SomeNames
    /\ aspect = "calls" => AtRest /\ class = "remote"

InCalls(A) == aspect = "calls" /\ A /\ UNCHANGED <<aspect, methodsAndServerVars>>
InMethods(A) == aspect = "methods" /\ A /\ UNCHANGED <<aspect, vars>>

ServersNext == InCalls(Next) \/ InMethods(MethodsNext)

allVars == <<aspect, vars, methodsAndServerVars>>

\* Threads that can run do (module RemoteCall); callbacks return.
ServersFairness ==
    /\ \A c \in Calls : WF_allVars(InCalls(FinishCall(c))) /\ WF_allVars(InCalls(GetResult(c)))
    /\ SF_allVars(InCalls(HandleReply))
    /\ \A s \in Servers : WF_allVars(InCalls(ServerStep(s)))
    /\ \A t \in Threads : WF_allVars(InMethods(ThreadStep(t))) /\ WF_allVars(InMethods(WorkerStep(t)))
    /\ WF_allVars(InMethods(EndStep))

ServersSpec == ServersInit /\ [][ServersNext]_allVars /\ ServersFairness
==============================================================================
