---------------------------- MODULE ServerMethods ----------------------------
(***************************************************************************)
(* The methods of a server and their life: rsb/patterns/Server.cpp          *)
(* (Method), LocalServer.cpp and RemoteServer.cpp (LocalServer and          *)
(* RemoteServer, their destructors, registerMethod and getMethod).          *)
(*                                                                         *)
(* A method owns a listener, made when it is activated, and an informer,    *)
(* made when the first event is published.  Requests and replies share the  *)
(* scope of the method, and the in-process transport brings a server its    *)
(* own replies; only a filter tells them apart.  The listener has the       *)
(* method as its handler, which closes a cycle of shared pointers that only *)
(* deactivate() breaks.                                                     *)
(*                                                                         *)
(* A method object is named by the thread that makes it.  The listener's    *)
(* queue and its worker are the parallel strategy (module ParallelDelivery);*)
(* what a call does with a reply is module RemoteCall.                      *)
(***************************************************************************)
EXTENDS Naturals, Sequences, FiniteSets

CONSTANTS Threads,   \* threads that register a method or call one, once each
          Names,     \* names of methods
          Classes,   \* servers to consider: "local", "remote"
          MaxEvents, \* bound on the events that arrive from elsewhere
          Nobody

ASSUME ClassesAssumption == Classes \subseteq {"local", "remote"}
ASSUME NobodyAssumption == Nobody \notin Threads
ASSUME MaxAssumption == MaxEvents \in Nat

VARIABLES class,    \* LocalServer or RemoteServer
          name,     \* the method name each thread is about
          at,       \* the step of each thread
          methodsMutex,
          methods,  \* the server's map: the methods in it, under their names
          listener, \* per method: is its listener up, has it filter and handler?
          informer, \* per method: has it an informer?
          queue,    \* events queued for the method by its listener
          worker,   \* the event the method is handling
          handled,  \* kinds of events the methods have handled (history)
          server,   \* "alive", "ending" in its destructor, "gone"
          unheard,  \* replies that met no handler (history)
          arrivals  \* events that have come from elsewhere

methodsAndServerVars == <<class, name, at, methodsMutex, methods, listener, informer,
                          queue, worker, handled, server, unheard, arrivals>>
methodVars == <<listener, informer, queue, worker>>
serverVars == <<class, name, methodsMutex, methods, server>>
history == <<handled, unheard, arrivals>>

Kind == {"request", "reply"}
NoListener == [up |-> FALSE, filter |-> FALSE, handler |-> FALSE]

\* What a method wants to hear: makeListener's MethodFilter
Wanted == IF class = "local" THEN "request" ELSE "reply"

MethodsTypeOK ==
    /\ class \in Classes
    /\ name \in [Threads -> Names]
    /\ at \in [Threads -> {"idle", "looking", "making", "filtering", "attaching",
                           "entering", "calling", "waiting", "done", "refused"}]
    /\ methodsMutex \in Threads \cup {Nobody}
    /\ methods \in [Names -> Threads \cup {Nobody}]
    /\ listener \in [Threads -> [up : BOOLEAN, filter : BOOLEAN, handler : BOOLEAN]]
    /\ informer \in [Threads -> BOOLEAN]
    /\ queue \in [Threads -> Seq(Kind)]
    /\ worker \in [Threads -> Kind \cup {"none"}]
    /\ handled \subseteq Kind
    /\ server \in {"alive", "ending", "gone"}
    /\ unheard \in BOOLEAN
    /\ arrivals \in 0..MaxEvents

MethodsInit ==
    /\ class \in Classes
    /\ name \in [Threads -> Names]
    /\ at = [t \in Threads |-> "idle"]
    /\ methodsMutex = Nobody
    /\ methods = [n \in Names |-> Nobody]
    /\ listener = [t \in Threads |-> NoListener]
    /\ informer = [t \in Threads |-> FALSE]
    /\ queue = [t \in Threads |-> <<>>]
    /\ worker = [t \in Threads |-> "none"]
    /\ handled = {}
    /\ server = "alive"
    /\ unheard = FALSE
    /\ arrivals = 0

Goto(t, step) == at' = [at EXCEPT ![t] = step]
\* The listeners of the name that are up take the event for their handlers.
Heard(n, kind) ==
    [t \in Threads |->
        IF name[t] = n /\ listener[t].up /\ listener[t].handler
        THEN Append(queue[t], kind) ELSE queue[t]]

Busy == {t \in Threads : at[t] \notin {"idle", "done", "refused"}}

-----------------------------------------------------------------------------
(* registerMethod and getMethod *)

\* Mutated: getMethod does not take the mutex.
Begin_unlocked(t) ==
    /\ at[t] = "idle" /\ server = "alive"
    /\ class = "local" => Busy = {}
    /\ Goto(t, "looking")
    /\ UNCHANGED <<serverVars, methodVars, history>>

\* getMethod takes methodsMutex.  registerMethod takes nothing ("TODO
\* locking?"): the owner must not register from two threads at once.
Begin(t) ==
    /\ at[t] = "idle" /\ server = "alive"
    /\ IF class = "local" THEN Busy = {} ELSE methodsMutex = Nobody
    /\ methodsMutex' = IF class = "local" THEN methodsMutex ELSE t
    /\ Goto(t, "looking")
    /\ UNCHANGED <<class, name, methods, server, methodVars, history>>

\* The name is not in the map.
LookNew(t) ==
    /\ at[t] = "looking" /\ methods[name[t]] = Nobody
    /\ Goto(t, "making")
    /\ UNCHANGED <<serverVars, methodVars, history>>

\* The name is there: registerMethod throws MethodExistsException, getMethod
\* releases the mutex and returns the method.
LookKnown(t) ==
    /\ at[t] = "looking" /\ methods[name[t]] # Nobody
    /\ Goto(t, IF class = "local" THEN "refused" ELSE "calling")
    /\ methodsMutex' = IF methodsMutex = t THEN Nobody ELSE methodsMutex
    /\ UNCHANGED <<class, name, methods, server, methodVars, history>>

\* Method::activate makes the listener, which is up from now on ...
MakeListener(t) ==
    /\ at[t] = "making"
    /\ listener' = [listener EXCEPT ![t].up = TRUE]
    /\ Goto(t, "filtering")
    /\ UNCHANGED <<serverVars, informer, queue, worker, history>>

\* ... gets the MethodFilter ...
AddFilter(t) ==
    /\ at[t] = "filtering"
    /\ listener' = [listener EXCEPT ![t].filter = TRUE]
    /\ Goto(t, "attaching")
    /\ UNCHANGED <<serverVars, informer, queue, worker, history>>

\* ... and then the method as its handler.
AddHandler(t) ==
    /\ at[t] = "attaching"
    /\ listener' = [listener EXCEPT ![t].handler = TRUE]
    /\ Goto(t, "entering")
    /\ UNCHANGED <<serverVars, informer, queue, worker, history>>

\* The method is entered into the map; getMethod releases the mutex.
Enter(t) ==
    /\ at[t] = "entering"
    /\ methods' = [methods EXCEPT ![name[t]] = t]
    /\ methodsMutex' = IF methodsMutex = t THEN Nobody ELSE methodsMutex
    /\ Goto(t, IF class = "local" THEN "done" ELSE "calling")
    /\ UNCHANGED <<class, name, server, methodVars, history>>

\* RemoteMethod::call makes the informer, if there is none, and publishes the
\* request, which the method's own listener hears too.
Call(t) ==
    /\ at[t] = "calling"
    /\ informer' = [informer EXCEPT ![methods[name[t]]] = TRUE]
    /\ queue' = Heard(name[t], "request")
    /\ Goto(t, "waiting")
    /\ UNCHANGED <<serverVars, listener, worker, history>>

\* Future::get gives up; a thread that has its reply returns in the same way.
Return(t) ==
    /\ at[t] = "waiting"
    /\ Goto(t, "done")
    /\ UNCHANGED <<serverVars, methodVars, history>>

-----------------------------------------------------------------------------
(* Events *)

\* An event from elsewhere arrives on the scope of a method: a request for
\* anybody, or the reply somebody is waiting for.
Arrive(n, kind) ==
    /\ arrivals < MaxEvents
    /\ kind = "reply" => \E t \in Threads : at[t] = "waiting" /\ name[t] = n
    /\ arrivals' = arrivals + 1
    /\ queue' = Heard(n, kind)
    /\ unheard' = (unheard \/
                   /\ class = "remote" /\ kind = "reply"
                   /\ ~\E t \in Threads : name[t] = n /\ listener[t].up /\ listener[t].handler)
    /\ UNCHANGED <<serverVars, at, listener, informer, worker, handled>>

\* The worker takes an event and matches it against the filters.
Take(t) ==
    /\ worker[t] = "none" /\ queue[t] # <<>> /\ listener[t].up
    /\ LET kind == Head(queue[t])
           matches == listener[t].filter => kind = Wanted
       IN  /\ worker' = [worker EXCEPT ![t] = IF matches THEN kind ELSE "none"]
           /\ handled' = IF matches THEN handled \cup {kind} ELSE handled
    /\ queue' = [queue EXCEPT ![t] = Tail(@)]
    /\ UNCHANGED <<serverVars, at, listener, informer, unheard, arrivals>>

\* Mutated: getInformer and deactivate share a mutex, which deactivate holds
\* while it waits for the worker.
Handled_locksMethod(t) ==
    /\ worker[t] # "none" /\ (server = "alive" \/ listener[t].up)
    /\ worker' = [worker EXCEPT ![t] = "none"]
    /\ informer' = [informer EXCEPT ![t] = (class = "local" \/ @)]
    /\ queue' = IF class = "local" THEN Heard(name[t], "reply") ELSE queue
    /\ UNCHANGED <<serverVars, at, listener, history>>

\* handle() ends.  LocalMethod::handle publishes the callback's reply, or its
\* error, with the informer, which it makes if there is none, and the reply comes
\* back on the method's own scope; a request of the wrong type gets no answer.
\* RemoteMethod::handle completes the call (module RemoteCall).
Handled(t) ==
    /\ worker[t] # "none"
    /\ worker' = [worker EXCEPT ![t] = "none"]
    /\ \/ class = "local"
          /\ informer' = [informer EXCEPT ![t] = TRUE]
          /\ queue' = Heard(name[t], "reply")
       \/ UNCHANGED <<informer, queue>>
    /\ UNCHANGED <<serverVars, at, listener, history>>

-----------------------------------------------------------------------------
(* The destructors of the servers *)

\* The owner drops the server when none of its threads is in a call of it.
Destroy ==
    /\ server = "alive" /\ Busy = {}
    /\ server' = "ending"
    /\ UNCHANGED <<class, name, methodsMutex, methods, at, methodVars, history>>

\* Method::deactivate drops the listener: its connectors are deactivated and
\* its strategy is stopped, with what is still queued.
StopListener(n) ==
    /\ server = "ending" /\ methods[n] # Nobody
    /\ listener[methods[n]].up
    /\ listener' = [listener EXCEPT ![methods[n]] = NoListener]
    /\ queue' = [queue EXCEPT ![methods[n]] = <<>>]
    /\ UNCHANGED <<serverVars, at, informer, worker, history>>

\* The destructor of the strategy has waited for the worker; only then is the
\* informer dropped.
DropInformer(n) ==
    /\ server = "ending" /\ methods[n] # Nobody
    /\ ~listener[methods[n]].up /\ worker[methods[n]] = "none"
    /\ informer' = [informer EXCEPT ![methods[n]] = FALSE]
    /\ methods' = [methods EXCEPT ![n] = Nobody]
    /\ UNCHANGED <<class, name, methodsMutex, server, at, listener, queue, worker, history>>

Destroyed ==
    /\ server = "ending" /\ \A n \in Names : methods[n] = Nobody
    /\ server' = "gone"
    /\ UNCHANGED <<class, name, methodsMutex, methods, at, methodVars, history>>

-----------------------------------------------------------------------------
ThreadStep(t) ==
    \/ LookNew(t) \/ LookKnown(t) \/ MakeListener(t) \/ AddFilter(t) \/ AddHandler(t)
    \/ Enter(t) \/ Call(t) \/ Return(t)
WorkerStep(t) == Take(t) \/ Handled(t)
EndStep == Destroyed \/ \E n \in Names : StopListener(n) \/ DropInformer(n)

MethodsNext ==
    \/ \E t \in Threads : Begin(t) \/ ThreadStep(t) \/ WorkerStep(t)
    \/ \E n \in Names, kind \in Kind : Arrive(n, kind)
    \/ Destroy \/ EndStep

MethodsSpec == MethodsInit /\ [][MethodsNext]_methodsAndServerVars

-----------------------------------------------------------------------------
(* Properties *)

\* A LocalMethod handles only requests and a RemoteMethod only replies, also
\* while its listener is being set up: the filter is there before the handler
\* (LocalServer.cpp:89, RemoteServer.cpp:69).  A server that handled its own
\* replies would answer them without end.
OnlyWanted == handled \subseteq {Wanted}

\* Threads that call one method for the first time make one method object
\* (RemoteServer.cpp:156), and registering a name again makes none
\* (LocalServer.cpp:157).
OnePerName ==
    \A s, t \in Threads : name[s] = name[t] /\ listener[s].up /\ listener[t].up => s = t

\* A request is not published before its reply can be handled
\* (RemoteServer.cpp:167 and :181).
RepliesAreHeard == ~unheard

\* However the first calls and registrations of several threads interleave with
\* events, each method is there once and does its part only
\* (LocalServer.cpp:157, RemoteServer.cpp:156).
MethodsSound == OnlyWanted /\ OnePerName /\ RepliesAreHeard

\* When the destructor of the server has returned no method listens, handles an
\* event or has an informer, although each method is held by its own listener
\* and a worker makes the informer anew when it needs one (Server.cpp:50).
GoneForGood ==
    server = "gone" =>
        \A t \in Threads : ~listener[t].up /\ ~informer[t] /\ worker[t] = "none"

\* The destructor returns.
DestructorReturns == server = "ending" ~> server = "gone"

\* A server that is destroyed ends, and takes all its methods with it
\* (Server.cpp:50).
ServerEnds == []GoneForGood /\ DestructorReturns
=============================================================================
