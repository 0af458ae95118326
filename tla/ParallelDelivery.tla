-------------------------- MODULE ParallelDelivery --------------------------
(***************************************************************************)
(* How a listener hands events to its handlers by default:                 *)
(* rsb/eventprocessing/ParallelEventReceivingStrategy.cpp, which Listener   *)
(* reaches through PushInRouteConfigurator.                                *)
(*                                                                         *)
(* The strategy owns an OrderedQueueDispatcherPool of the rsc library: one  *)
(* queue per handler and some worker threads that take an event, match it   *)
(* and deliver it.  The pool is modelled from how the strategy uses it: it  *)
(* runs one call per handler at a time unless parallel calls are enabled,   *)
(* and unregistering waits for the call in progress ("wait can be ignored   *)
(* because the pool always ensures this").                                 *)
(***************************************************************************)
EXTENDS Naturals, Sequences, FiniteSets

CONSTANTS Workers,              \* threads of the pool
          Handlers,             \* handlers of the listener
          Filters,              \* filters of the listener
          Passes,               \* pairs <<x, e>>: filter x matches event e, or
                                \* handler x accepts its method
          Throwing,             \* handlers and filters that may throw
          MaxEvents,            \* bound on the number of events
          ParallelHandlerCalls, \* option of the strategy, FALSE by default
          HandlersRemove        \* may a handler remove handlers, itself
                                \* included, while it is called?

ASSUME MaxEventsAssumption == MaxEvents \in Nat
ASSUME OptionsAssumption ==
    ParallelHandlerCalls \in BOOLEAN /\ HandlersRemove \in BOOLEAN

Owner == "owner"
ASSUME OwnerAssumption == Owner \notin Workers

Events == 1..MaxEvents
Strategies == {"log", "exit"}   \* "print" differs from "log" in the stream only

VARIABLES handlers,      \* handlers registered in the pool
          queue,         \* queue[h]: events waiting for h
          jobs,          \* what the workers are at
          waits,         \* waits[c]: the handler whose removal c waits for
          filters,       \* ParallelEventReceivingStrategy::filters
          errorStrategy, \* ParallelEventReceivingStrategy::errorStrategy
          pool,          \* "running", "stopping", "stopped"; "exited": exit(1)
          pushed,        \* number of events the connectors have pushed
          received,      \* history: received[h], the calls of h in order
          owed           \* history: events pushed since h was registered

vars == <<handlers, queue, jobs, waits, filters, errorStrategy, pool, pushed,
          received, owed>>

Callers == Workers \cup {Owner}
Job == [worker : Workers, handler : Handlers, event : Events, at : {"match", "call"}]

TypeOK ==
    /\ handlers \subseteq Handlers
    /\ queue \in [Handlers -> Seq(Events)]
    /\ jobs \subseteq Job
    /\ waits \in [Callers -> SUBSET Handlers]
    /\ filters \subseteq Filters
    /\ errorStrategy \in Strategies
    /\ pool \in {"running", "stopping", "stopped", "exited"}
    /\ pushed \in 0..MaxEvents
    /\ received \in [Handlers -> Seq(Events)]
    /\ owed \in [Handlers -> SUBSET Events]

Init ==
    /\ handlers = {}
    /\ queue = [h \in Handlers |-> <<>>]
    /\ jobs = {}
    /\ waits = [c \in Callers |-> {}]
    /\ filters = {}
    /\ errorStrategy = "log"
    /\ pool = "running"
    /\ pushed = 0
    /\ received = [h \in Handlers |-> <<>>]
    /\ owed = [h \in Handlers |-> {}]

Busy(w) == \E j \in jobs : j.worker = w
Called(h) == \E j \in jobs : j.handler = h

-----------------------------------------------------------------------------
(* The connectors and the listener's owner *)

\* ParallelEventReceivingStrategy::handle
Push ==
    /\ pool = "running" /\ pushed < MaxEvents
    /\ pushed' = pushed + 1
    /\ queue' = [h \in Handlers |-> IF h \in handlers THEN Append(queue[h], pushed + 1)
                                    ELSE queue[h]]
    /\ owed' = [h \in Handlers |-> IF h \in handlers THEN owed[h] \cup {pushed + 1}
                                   ELSE owed[h]]
    /\ UNCHANGED <<handlers, jobs, waits, filters, errorStrategy, pool, received>>

\* ParallelEventReceivingStrategy::addHandler
AddHandler(h) ==
    /\ pool = "running"
    /\ h \notin handlers /\ \A c \in Callers : h \notin waits[c]
    /\ handlers' = handlers \cup {h}
    /\ UNCHANGED <<queue, jobs, waits, filters, errorStrategy, pool, pushed, received, owed>>

\* The owner, or a worker from within a handler
MayCall(c) ==
    /\ waits[c] = {}
    /\ c # Owner => HandlersRemove /\ \E j \in jobs : j.worker = c /\ j.at = "call"

\* ParallelEventReceivingStrategy::removeHandler: what is queued is dropped,
\* and the caller waits for a call in progress.
RemoveHandler(c, h) ==
    /\ pool = "running" /\ MayCall(c) /\ h \in handlers
    /\ handlers' = handlers \ {h}
    /\ queue' = [queue EXCEPT ![h] = <<>>]
    /\ owed' = [owed EXCEPT ![h] = {}]
    /\ waits' = [waits EXCEPT ![c] = {h}]
    /\ UNCHANGED <<jobs, filters, errorStrategy, pool, pushed, received>>

\* Mutated: the caller does not wait.
RemoveReturns_early(c) ==
    /\ pool # "exited" /\ waits[c] # {}
    /\ waits' = [waits EXCEPT ![c] = {}]
    /\ UNCHANGED <<handlers, queue, jobs, filters, errorStrategy, pool, pushed, received, owed>>

RemoveReturns(c) ==
    /\ pool # "exited" /\ waits[c] # {}
    /\ \A h \in waits[c] : ~Called(h)
    /\ waits' = [waits EXCEPT ![c] = {}]
    /\ UNCHANGED <<handlers, queue, jobs, filters, errorStrategy, pool, pushed, received, owed>>

\* addFilter and removeFilter, under the write lock of filtersMutex
ChangeFilters(f) ==
    /\ pool = "running"
    /\ \/ filters' = filters \cup {f}
       \/ filters' = filters \ {f}
    /\ UNCHANGED <<handlers, queue, jobs, waits, errorStrategy, pool, pushed, received, owed>>

\* ParallelEventReceivingStrategy::setHandlerErrorStrategy
SetErrorStrategy(s) ==
    /\ pool = "running"
    /\ errorStrategy' = s
    /\ UNCHANGED <<handlers, queue, jobs, waits, filters, pool, pushed, received, owed>>

\* ~ParallelEventReceivingStrategy stops the pool and waits for the workers,
\* each of which ends with the event it is at.
Stop ==
    /\ pool = "running" /\ waits[Owner] = {}
    /\ pool' = "stopping"
    /\ UNCHANGED <<handlers, queue, jobs, waits, filters, errorStrategy, pushed, received, owed>>

Stopped ==
    /\ pool = "stopping" /\ jobs = {}
    /\ pool' = "stopped"
    /\ UNCHANGED <<handlers, queue, jobs, waits, filters, errorStrategy, pushed, received, owed>>

-----------------------------------------------------------------------------
(* The workers *)

\* Mutated: a handler may be called by two workers at a time.
Take_overlapping(w, h) ==
    /\ pool = "running" /\ ~Busy(w)
    /\ h \in handlers /\ queue[h] # <<>>
    /\ jobs' = jobs \cup {[worker |-> w, handler |-> h, event |-> Head(queue[h]),
                           at |-> "match"]}
    /\ queue' = [queue EXCEPT ![h] = Tail(@)]
    /\ UNCHANGED <<handlers, waits, filters, errorStrategy, pool, pushed, received, owed>>

\* The pool gives a worker the next event of some handler.
Take(w, h) ==
    /\ pool = "running" /\ ~Busy(w)
    /\ h \in handlers /\ queue[h] # <<>>
    /\ ParallelHandlerCalls \/ ~Called(h)
    /\ jobs' = jobs \cup {[worker |-> w, handler |-> h, event |-> Head(queue[h]),
                           at |-> "match"]}
    /\ queue' = [queue EXCEPT ![h] = Tail(@)]
    /\ UNCHANGED <<handlers, waits, filters, errorStrategy, pool, pushed, received, owed>>

\* The handler accepts the method and every filter matches; all are user code,
\* a filter that throws does not match.
Accepted(j) ==
    /\ <<j.handler, j.event>> \in Passes
    /\ \A f \in filters : <<f, j.event>> \in Passes /\ f \notin Throwing

\* ParallelEventReceivingStrategy::filter returned false
Reject(j) ==
    /\ pool \notin {"stopped", "exited"} /\ j.at = "match" /\ ~Accepted(j)
    /\ jobs' = jobs \ {j}
    /\ UNCHANGED <<handlers, queue, waits, filters, errorStrategy, pool, pushed, received, owed>>

\* ParallelEventReceivingStrategy::filter returned true and deliver() calls
\* the handler
Deliver(j) ==
    /\ pool \notin {"stopped", "exited"} /\ j.at = "match" /\ Accepted(j)
    /\ jobs' = (jobs \ {j}) \cup {[j EXCEPT !.at = "call"]}
    /\ received' = [received EXCEPT ![j.handler] = Append(@, j.event)]
    /\ UNCHANGED <<handlers, queue, waits, filters, errorStrategy, pool, pushed, owed>>

\* Mutated: an exception is not caught and ends the worker.
Return_uncaught(j) ==
    /\ pool \notin {"stopped", "exited"} /\ j.at = "call" /\ waits[j.worker] = {}
    /\ j.handler \notin Throwing
    /\ jobs' = jobs \ {j}
    /\ UNCHANGED <<handlers, queue, waits, filters, errorStrategy, pool, pushed, received, owed>>

\* The handler returns, or throws and the exception is logged.
Return(j) ==
    /\ pool \notin {"stopped", "exited"} /\ j.at = "call" /\ waits[j.worker] = {}
    /\ jobs' = jobs \ {j}
    /\ UNCHANGED <<handlers, queue, waits, filters, errorStrategy, pool, pushed, received, owed>>

\* handleDispatchError with ERROR_STRATEGY_EXIT, for a handler or a filter that
\* has thrown
Exit(j) ==
    /\ pool \notin {"stopped", "exited"} /\ errorStrategy = "exit"
    /\ IF j.at = "call" THEN waits[j.worker] = {} /\ j.handler \in Throwing
       ELSE <<j.handler, j.event>> \in Passes /\ \E f \in filters : f \in Throwing
    /\ pool' = "exited"
    /\ UNCHANGED <<handlers, queue, jobs, waits, filters, errorStrategy, pushed, received, owed>>

JobStep(j) == Reject(j) \/ Deliver(j) \/ Return(j)

Next ==
    \/ Push \/ Stop \/ Stopped
    \/ \E h \in Handlers : AddHandler(h)
    \/ \E c \in Callers : RemoveReturns(c) \/ \E h \in Handlers : RemoveHandler(c, h)
    \/ \E f \in Filters : ChangeFilters(f)
    \/ \E s \in Strategies : SetErrorStrategy(s)
    \/ \E w \in Workers, h \in Handlers : Take(w, h)
    \/ \E j \in jobs : JobStep(j) \/ Exit(j)

Spec == Init /\ [][Next]_vars

\* Workers take what there is, round robin over the handlers, and run; handlers
\* return; a caller whose wait is over returns.
Fairness ==
    /\ \A h \in Handlers : SF_vars(\E w \in Workers : Take(w, h))
    /\ \A w \in Workers : WF_vars(\E j \in jobs : j.worker = w /\ JobStep(j))
    /\ \A c \in Callers : WF_vars(RemoveReturns(c))
    /\ WF_vars(Stopped)

FairSpec == Spec /\ Fairness

-----------------------------------------------------------------------------
(* Properties *)

\* Without parallel handler calls a handler is called with the events in the
\* order they were pushed, each at most once, however many workers there are.
InOrder ==
    ~ParallelHandlerCalls =>
        \A h \in Handlers : \A i, k \in DOMAIN received[h] :
            i < k => received[h][i] < received[h][k]

\* An event pushed while a handler is registered reaches it, is queued or being
\* matched, unless its method or some filter would reject it: exceptions in
\* other handlers, changing filters and handlers lose nothing.
NoEventLost ==
    \A h \in handlers : \A e \in owed[h] :
        \/ \E x \in Filters \cup {h} : <<x, e>> \notin Passes
        \/ \E f \in Filters : f \in Throwing
        \/ \E i \in DOMAIN received[h] : received[h][i] = e
        \/ \E i \in DOMAIN queue[h] : queue[h][i] = e
        \/ \E j \in jobs : j.handler = h /\ j.event = e /\ j.at = "match"

\* When the destructor of the strategy returns no call is in progress, so that
\* no worker is left to touch what is destroyed.
QuietWhenStopped == pool = "stopped" => jobs = {}

\* Each handler gets its events, in order, while the strategy lives and not
\* after (ParallelEventReceivingStrategy.cpp, handle, dispatch and deliver).
HandledInOrder == InOrder /\ NoEventLost /\ QuietWhenStopped

\* Handlers are called only while installed, and removeHandler returns only
\* when the call in progress has ended (Listener.h:139).
Contract == INSTANCE HandlerContract
               WITH installed <- handlers \cup UNION {waits[c] : c \in Callers},
                    calls <- {<<j.handler, j.event>> : j \in {k \in jobs : k.at = "call"}}
ContractSpec == Contract!Spec

\* What is queued for a handler is handled in the end, also when handlers
\* throw, unless the strategy is to exit, the handler is removed or the
\* listener is destroyed.
QueueDrains ==
    \A h \in Handlers : queue[h] # <<>> ~> queue[h] = <<>> \/ pool # "running"

\* removeHandler returns, unless the program exits.
RemovalReturns ==
    \A c \in Callers : waits[c] # {} ~> waits[c] = {} \/ pool = "exited"

\* Nobody waits for the strategy in vain (ParallelEventReceivingStrategy.cpp,
\* removeHandler; OrderedQueueDispatcherPool in rsc).
Progress == QueueDrains /\ RemovalReturns
=============================================================================
