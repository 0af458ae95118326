------------------------ MODULE ParallelDeliveryProofs ------------------------
(***************************************************************************)
(* Proofs about ParallelDelivery, for any number of workers, handlers,     *)
(* filters and events and both settings of its options.                    *)
(***************************************************************************)
EXTENDS ParallelDelivery, TLAPS

-----------------------------------------------------------------------------
(* Type correctness *)

LEMMA TypeInit == Init => TypeOK
BY MaxEventsAssumption DEF Init, TypeOK, Strategies, Events, Job, Callers

LEMMA TypeNext == TypeOK /\ [Next]_vars => TypeOK'
<1> SUFFICES ASSUME TypeOK, [Next]_vars PROVE TypeOK'
  OBVIOUS
<1> USE MaxEventsAssumption DEF TypeOK, Events
<1>1. CASE Push
  <2>1. pushed' \in 0..MaxEvents /\ pushed + 1 \in Events
    BY <1>1 DEF Push
  <2>2. \A h \in Handlers : Append(queue[h], pushed + 1) \in Seq(Events)
    BY <2>1
  <2>3. queue' \in [Handlers -> Seq(Events)]
    BY <1>1, <2>2 DEF Push
  <2>4. owed' \in [Handlers -> SUBSET Events]
    BY <1>1, <2>1 DEF Push
  <2>5. QED
    BY <1>1, <2>1, <2>3, <2>4 DEF Push
<1>2. ASSUME NEW h \in Handlers, AddHandler(h) PROVE TypeOK'
  BY <1>2 DEF AddHandler
<1>3. ASSUME NEW c \in Callers, NEW h \in Handlers, RemoveHandler(c, h) PROVE TypeOK'
  <2>1. queue' \in [Handlers -> Seq(Events)]
    <3>1. <<>> \in Seq(Events)
      OBVIOUS
    <3>2. QED
      BY <1>3, <3>1 DEF RemoveHandler
  <2>2. owed' \in [Handlers -> SUBSET Events] /\ waits' \in [Callers -> SUBSET Handlers]
    BY <1>3 DEF RemoveHandler
  <2>3. QED
    BY <1>3, <2>1, <2>2 DEF RemoveHandler
<1>4. ASSUME NEW c \in Callers, RemoveReturns(c) PROVE TypeOK'
  BY <1>4 DEF RemoveReturns
<1>5. ASSUME NEW f \in Filters, ChangeFilters(f) PROVE TypeOK'
  BY <1>5 DEF ChangeFilters
<1>6. ASSUME NEW s \in Strategies, SetErrorStrategy(s) PROVE TypeOK'
  BY <1>6 DEF SetErrorStrategy
<1>7. CASE Stop \/ Stopped
  BY <1>7 DEF Stop, Stopped
<1>8. ASSUME NEW w \in Workers, NEW h \in Handlers, Take(w, h) PROVE TypeOK'
  <2>1. Head(queue[h]) \in Events /\ Tail(queue[h]) \in Seq(Events)
    BY <1>8 DEF Take
  <2>2. queue' \in [Handlers -> Seq(Events)]
    BY <1>8, <2>1 DEF Take
  <2>3. jobs' \subseteq Job
    BY <1>8, <2>1 DEF Take, Job
  <2>4. QED
    BY <1>8, <2>2, <2>3 DEF Take
<1>9. ASSUME NEW j \in jobs, Reject(j) \/ Return(j) PROVE TypeOK'
  BY <1>9 DEF Reject, Return
<1>10. ASSUME NEW j \in jobs, Deliver(j) PROVE TypeOK'
  <2>1. j.handler \in Handlers /\ j.event \in Events /\ [j EXCEPT !.at = "call"] \in Job
    BY DEF Job
  <2>2. Append(received[j.handler], j.event) \in Seq(Events)
    BY <2>1
  <2>3. received' \in [Handlers -> Seq(Events)]
    BY <1>10, <2>2 DEF Deliver
  <2>4. QED
    BY <1>10, <2>1, <2>3 DEF Deliver
<1>11. ASSUME NEW j \in jobs, Exit(j) PROVE TypeOK'
  BY <1>11 DEF Exit
<1>12. CASE UNCHANGED vars
  BY <1>12 DEF vars
<1>13. QED
  BY <1>1, <1>2, <1>3, <1>4, <1>5, <1>6, <1>7, <1>8, <1>9, <1>10, <1>11, <1>12
     DEF Next, JobStep

\* The state of the strategy and of its pool keeps its type
\* (ParallelEventReceivingStrategy.h, queues and workers of the rsc pool).
THEOREM TypeCorrect == Spec => []TypeOK
<1>1. QED
  BY TypeInit, TypeNext, PTL DEF Spec

-----------------------------------------------------------------------------
(* Sequences of events *)

Values(s) == {s[i] : i \in DOMAIN s}

Increasing(s) == \A i, k \in DOMAIN s : i < k => s[i] < s[k]

LEMMA NothingYet == Values(<<>>) = {} /\ Increasing(<<>>)
BY DEF Values, Increasing

\* The next event of a queue is the least one.
LEMMA HeadFirst ==
    ASSUME NEW S \in SUBSET Nat, NEW s \in Seq(S), s # <<>>, Increasing(s)
    PROVE  /\ Head(s) \in S
           /\ Values(s) = {Head(s)} \cup Values(Tail(s))
           /\ \A e \in Values(Tail(s)) : Head(s) < e
           /\ Increasing(Tail(s))
<1>1. /\ Len(s) \in Nat \ {0} /\ DOMAIN s = 1..Len(s) /\ Head(s) = s[1]
      /\ DOMAIN Tail(s) = 1..(Len(s) - 1)
      /\ \A i \in 1..(Len(s) - 1) : Tail(s)[i] = s[i + 1]
  OBVIOUS
<1>2. \A i \in 1..Len(s) : s[i] \in S
  OBVIOUS
<1>3. Values(s) = {Head(s)} \cup Values(Tail(s))
  <2>1. \A i \in 1..Len(s) : i = 1 \/ (i - 1 \in 1..(Len(s) - 1) /\ Tail(s)[i - 1] = s[i])
    BY <1>1
  <2>2. \A i \in 1..Len(s) : s[i] = Head(s) \/ s[i] \in Values(Tail(s))
    BY <1>1, <2>1 DEF Values
  <2>3. \A i \in 1..(Len(s) - 1) : Tail(s)[i] = s[i + 1] /\ i + 1 \in 1..Len(s)
    BY <1>1
  <2>4. {Head(s)} \cup Values(Tail(s)) \subseteq Values(s)
    BY <1>1, <2>3 DEF Values
  <2>5. Values(s) \subseteq {Head(s)} \cup Values(Tail(s))
    BY <1>1, <2>2 DEF Values
  <2>6. QED
    BY <2>4, <2>5
<1>4. \A i \in 1..(Len(s) - 1) : s[1] < s[i + 1]
  BY <1>1 DEF Increasing
<1>5. \A i, k \in 1..(Len(s) - 1) : i < k => s[i + 1] < s[k + 1]
  BY <1>1 DEF Increasing
<1>6. \A e \in Values(Tail(s)) : Head(s) < e
  BY <1>1, <1>4 DEF Values
<1>7. Increasing(Tail(s))
  BY <1>1, <1>5 DEF Increasing
<1>8. QED
  BY <1>1, <1>2, <1>3, <1>6, <1>7

LEMMA AppendLast ==
    ASSUME NEW S, NEW s \in Seq(S), NEW e
    PROVE  /\ Values(Append(s, e)) = Values(s) \cup {e}
           /\ Increasing(s) /\ (\A d \in Values(s) : d < e) => Increasing(Append(s, e))
<1>1. /\ DOMAIN Append(s, e) = 1..(Len(s) + 1) /\ DOMAIN s = 1..Len(s) /\ Len(s) \in Nat
      /\ Append(s, e)[Len(s) + 1] = e
      /\ \A i \in 1..Len(s) : Append(s, e)[i] = s[i]
  OBVIOUS
<1>2. Values(Append(s, e)) = Values(s) \cup {e}
  BY <1>1 DEF Values
<1>3. ASSUME Increasing(s), \A d \in Values(s) : d < e PROVE Increasing(Append(s, e))
  <2>1. \A i \in 1..Len(s) : s[i] < e
    BY <1>1, <1>3 DEF Values
  <2>2. \A i, k \in 1..(Len(s) + 1) : i < k => i \in 1..Len(s) /\ (k \in 1..Len(s) \/ k = Len(s) + 1)
    BY <1>1
  <2>3. QED
    BY <1>1, <1>3, <2>1, <2>2 DEF Increasing
<1>4. QED
  BY <1>2, <1>3

LEMMA EventsAreNumbers == Events \in SUBSET Nat
BY DEF Events

LEMMA ValueAt == \A s, e : e \in Values(s) <=> \E i \in DOMAIN s : s[i] = e
BY DEF Values

LEMMA ValuesInSet == ASSUME NEW S, NEW s \in Seq(S) PROVE Values(s) \subseteq S
BY DEF Values

-----------------------------------------------------------------------------
(* The inductive invariant *)

\* Handlers that addHandler has been called for, and removeHandler has not
\* returned for
Installed(h) == h \in handlers \/ \E c \in Callers : h \in waits[c]

\* A handler is in the pool or some caller, one, waits for its removal; only
\* then may a worker be at it, and only in the pool it has anything queued.
HandlerInv ==
    /\ \A h \in Handlers \ handlers : queue[h] = <<>> /\ owed[h] = {}
    /\ \A c \in Callers : \A h, k \in waits[c] : h = k /\ h \notin handlers
    /\ \A c, d \in Callers : \A h \in waits[c] : h \in waits[d] => c = d
    /\ \A j \in jobs : Installed(j.handler)

\* A worker is at one event, an event is with one worker for each handler and,
\* without parallel calls, a handler has one worker.
JobInv ==
    /\ \A j, k \in jobs : j.worker = k.worker => j = k
    /\ \A j, k \in jobs :
          j.handler = k.handler /\ (j.event = k.event \/ ~ParallelHandlerCalls) => j = k

\* For each handler: what is queued is in the order of the pushes and behind
\* what is or was with a worker; without parallel calls what is with a worker
\* is behind what was.
OrderOf(h) ==
    /\ Increasing(queue[h])
    /\ \A e \in Values(queue[h]) :
          /\ e <= pushed
          /\ \A r \in Values(received[h]) : r < e
          /\ \A j \in jobs : j.handler = h => j.event < e
    /\ \A r \in Values(received[h]) : r <= pushed
    /\ \A j \in jobs : j.handler = h =>
          /\ j.event <= pushed
          /\ ~ParallelHandlerCalls /\ j.at = "match" =>
                \A r \in Values(received[h]) : r < j.event

OrderInv == \A h \in Handlers : OrderOf(h)

LEMMA HandlerNext == TypeOK /\ HandlerInv /\ [Next]_vars => HandlerInv'
<1> SUFFICES ASSUME TypeOK, HandlerInv, [Next]_vars PROVE HandlerInv'
  OBVIOUS
<1> USE DEF HandlerInv, Installed
<1>1. CASE Push
  BY <1>1 DEF Push, TypeOK
<1>2. ASSUME NEW h \in Handlers, AddHandler(h) PROVE HandlerInv'
  BY <1>2 DEF AddHandler, TypeOK
<1>3. ASSUME NEW c \in Callers, NEW h \in Handlers, RemoveHandler(c, h) PROVE HandlerInv'
  <2>1. /\ queue'[h] = <<>> /\ owed'[h] = {}
        /\ \A k \in Handlers \ {h} : queue'[k] = queue[k] /\ owed'[k] = owed[k]
    BY <1>3 DEF RemoveHandler, TypeOK
  <2>2. waits'[c] = {h} /\ \A d \in Callers \ {c} : waits'[d] = waits[d]
    BY <1>3 DEF RemoveHandler, TypeOK
  <2>3. waits[c] = {} /\ h \in handlers /\ handlers' = handlers \ {h} /\ jobs' = jobs
    BY <1>3 DEF RemoveHandler, MayCall
  <2>4. \A k \in Handlers \ handlers' : queue'[k] = <<>> /\ owed'[k] = {}
    BY <2>1, <2>3
  <2>5. \A d \in Callers : \A k, l \in waits'[d] : k = l /\ k \notin handlers'
    BY <2>2, <2>3
  <2>6. \A d, e \in Callers : \A k \in waits'[d] : k \in waits'[e] => d = e
    BY <2>2, <2>3
  <2>7. \A k : Installed(k) => k \in handlers' \/ \E d \in Callers : k \in waits'[d]
    BY <2>2, <2>3
  <2>8. QED
    BY <2>3, <2>4, <2>5, <2>6, <2>7
<1>4. ASSUME NEW c \in Callers, RemoveReturns(c) PROVE HandlerInv'
  <2>1. waits'[c] = {} /\ \A d \in Callers \ {c} : waits'[d] = waits[d]
    BY <1>4 DEF RemoveReturns, TypeOK
  <2>2. \A j \in jobs : j.handler \notin waits[c]
    BY <1>4 DEF RemoveReturns, Called
  <2>3. UNCHANGED <<handlers, queue, jobs, owed>>
    BY <1>4 DEF RemoveReturns
  <2>4. QED
    BY <2>1, <2>2, <2>3
<1>5. ASSUME NEW w \in Workers, NEW h \in Handlers, Take(w, h) PROVE HandlerInv'
  BY <1>5 DEF Take, TypeOK
<1>6. ASSUME NEW j \in jobs, Reject(j) \/ Return(j) PROVE HandlerInv'
  BY <1>6 DEF Reject, Return
<1>7. ASSUME NEW j \in jobs, Deliver(j) PROVE HandlerInv'
  <2>1. j \in Job /\ [j EXCEPT !.at = "call"].handler = j.handler
    BY DEF TypeOK, Job
  <2>2. \A k \in jobs' : k \in jobs \/ k.handler = j.handler
    BY <1>7, <2>1 DEF Deliver
  <2>3. QED
    BY <1>7, <2>2 DEF Deliver
<1>8. CASE \/ \E f \in Filters : ChangeFilters(f)
           \/ \E s \in Strategies : SetErrorStrategy(s)
           \/ Stop \/ Stopped \/ \E j \in jobs : Exit(j)
           \/ UNCHANGED vars
  BY <1>8 DEF ChangeFilters, SetErrorStrategy, Stop, Stopped, Exit, vars
<1>9. QED
  BY <1>1, <1>2, <1>3, <1>4, <1>5, <1>6, <1>7, <1>8 DEF Next, JobStep

\* What takes the place of a job when its handler is called
LEMMA CallOf ==
  ASSUME NEW j \in Job
  PROVE  LET k == [j EXCEPT !.at = "call"]
         IN  /\ k \in Job /\ k.at = "call"
             /\ k.worker = j.worker /\ k.handler = j.handler /\ k.event = j.event
BY DEF Job

LEMMA JobNext == TypeOK /\ OrderInv /\ JobInv /\ [Next]_vars => JobInv'
<1> SUFFICES ASSUME TypeOK, OrderInv, JobInv, [Next]_vars PROVE JobInv'
  OBVIOUS
<1>1. ASSUME NEW w \in Workers, NEW h \in Handlers, Take(w, h) PROVE JobInv'
  <2> DEFINE t == [worker |-> w, handler |-> h, event |-> Head(queue[h]), at |-> "match"]
  <2>1. queue[h] \in Seq(Events) /\ queue[h] # <<>>
    BY <1>1 DEF Take, TypeOK
  <2>2. Head(queue[h]) \in Events /\ Head(queue[h]) \in Values(queue[h])
    BY <2>1, EventsAreNumbers, HeadFirst DEF OrderInv, OrderOf
  <2>3. \A j \in jobs : j.handler = h => j.event < t.event /\ j.event \in Events
    BY <2>2 DEF OrderInv, OrderOf, TypeOK, Job
  <2>4. \A j \in jobs : j.handler = h => j.event # t.event
    BY <2>2, <2>3 DEF Events
  <2>5. \A j \in jobs : /\ j.worker # t.worker
                        /\ ~ParallelHandlerCalls => j.handler # t.handler
    BY <1>1 DEF Take, Busy, Called
  <2>6. jobs' = jobs \cup {t}
    BY <1>1 DEF Take
  <2>7. t.handler = h
    OBVIOUS
  <2> HIDE DEF t
  <2>8. QED
    BY <2>4, <2>5, <2>6, <2>7 DEF JobInv
<1>2. ASSUME NEW j \in jobs, Reject(j) \/ Return(j) PROVE JobInv'
  BY <1>2 DEF Reject, Return, JobInv
<1>3. ASSUME NEW j \in jobs, Deliver(j) PROVE JobInv'
  <2>1. PICK k : k = [j EXCEPT !.at = "call"]
    OBVIOUS
  <2>2. j \in Job
    BY DEF TypeOK
  <2>3. k.worker = j.worker /\ k.handler = j.handler /\ k.event = j.event
    BY <2>1, <2>2, CallOf
  <2>4. jobs' = (jobs \ {j}) \cup {k}
    BY <1>3, <2>1 DEF Deliver
  <2>5. QED
    BY <2>3, <2>4 DEF JobInv
<1>4. CASE UNCHANGED jobs
  BY <1>4 DEF JobInv
<1>5. QED
  BY <1>1, <1>2, <1>3, <1>4
     DEF Next, JobStep, Push, AddHandler, RemoveHandler, RemoveReturns, ChangeFilters,
         SetErrorStrategy, Stop, Stopped, Exit, vars

\* The numbers the order is about
LEMMA Numbers ==
    ASSUME TypeOK, NEW h \in Handlers
    PROVE  /\ pushed \in Nat
           /\ queue[h] \in Seq(Events) /\ Values(queue[h]) \subseteq Nat
           /\ received[h] \in Seq(Events) /\ Values(received[h]) \subseteq Nat
           /\ \A j \in jobs : j \in Job /\ j.event \in Nat
<1>1. queue[h] \in Seq(Events) /\ received[h] \in Seq(Events)
  BY DEF TypeOK
<1>2. Values(queue[h]) \subseteq Events /\ Values(received[h]) \subseteq Events
  BY <1>1, ValuesInSet
<1>3. \A j \in jobs : j \in Job /\ j.event \in Events
  BY DEF TypeOK, Job
<1>4. pushed \in Nat
  BY MaxEventsAssumption DEF TypeOK
<1>5. QED
  BY <1>1, <1>2, <1>3, <1>4, EventsAreNumbers

LEMMA OrderNext == TypeOK /\ OrderInv /\ JobInv /\ [Next]_vars => OrderInv'
<1> SUFFICES ASSUME TypeOK, OrderInv, JobInv, [Next]_vars, NEW h \in Handlers
             PROVE  OrderOf(h)'
  BY DEF OrderInv
<1>1. OrderOf(h)
  BY DEF OrderInv
<1>2. /\ pushed \in Nat
      /\ queue[h] \in Seq(Events) /\ Values(queue[h]) \subseteq Nat
      /\ received[h] \in Seq(Events) /\ Values(received[h]) \subseteq Nat
      /\ \A j \in jobs : j \in Job /\ j.event \in Nat
  BY Numbers
<1>3. CASE Push
  <2>1. pushed' = pushed + 1 /\ UNCHANGED <<jobs, received>>
    BY <1>3 DEF Push
  <2>2. CASE queue'[h] = Append(queue[h], pushed + 1)
    <3>1. \A e \in Values(queue[h]) : e < pushed + 1
      BY <1>1, <1>2 DEF OrderOf
    <3>2. Values(queue'[h]) = Values(queue[h]) \cup {pushed + 1} /\ Increasing(queue'[h])
      BY <1>1, <1>2, <2>2, <3>1, AppendLast DEF OrderOf
    <3>3. QED
      BY <1>1, <1>2, <2>1, <3>2 DEF OrderOf
  <2>3. CASE queue'[h] = queue[h]
    BY <1>1, <1>2, <2>1, <2>3 DEF OrderOf
  <2>4. QED
    BY <1>3, <2>2, <2>3 DEF Push
<1>4. ASSUME NEW c \in Callers, NEW g \in Handlers, RemoveHandler(c, g) PROVE OrderOf(h)'
  <2>1. queue'[h] = <<>> \/ queue'[h] = queue[h]
    BY <1>4 DEF RemoveHandler, TypeOK
  <2>2. UNCHANGED <<jobs, pushed, received>>
    BY <1>4 DEF RemoveHandler
  <2>3. CASE queue'[h] = <<>>
    BY <1>1, <2>2, <2>3, NothingYet DEF OrderOf
  <2>4. CASE queue'[h] = queue[h]
    BY <1>1, <2>2, <2>4 DEF OrderOf
  <2>5. QED
    BY <2>1, <2>3, <2>4
<1>5. ASSUME NEW w \in Workers, NEW g \in Handlers, Take(w, g) PROVE OrderOf(h)'
  <2>1. PICK t : t = [worker |-> w, handler |-> g, event |-> Head(queue[g]), at |-> "match"]
    OBVIOUS
  <2>2. jobs' = jobs \cup {t} /\ t.handler = g /\ t.event = Head(queue[g])
    BY <1>5, <2>1 DEF Take
  <2>3. UNCHANGED <<pushed, received>>
    BY <1>5 DEF Take
  <2>4. CASE g = h
    <3>1. queue'[h] = Tail(queue[h]) /\ queue[h] # <<>>
      BY <1>5, <2>4 DEF Take, TypeOK
    <3>2. /\ Values(queue[h]) = {t.event} \cup Values(queue'[h])
          /\ \A e \in Values(queue'[h]) : t.event < e
          /\ Increasing(queue'[h])
      BY <1>1, <1>2, <2>2, <2>4, <3>1, HeadFirst, EventsAreNumbers DEF OrderOf
    <3>3. QED
      BY <1>1, <2>2, <2>3, <3>2 DEF OrderOf
  <2>5. CASE g # h
    <3>1. queue'[h] = queue[h]
      BY <1>5, <2>5 DEF Take, TypeOK
    <3>2. QED
      BY <1>1, <2>2, <2>3, <2>5, <3>1 DEF OrderOf
  <2>6. QED
    BY <2>4, <2>5
<1>6. ASSUME NEW j \in jobs, Reject(j) \/ Return(j) PROVE OrderOf(h)'
  BY <1>1, <1>6 DEF Reject, Return, OrderOf
<1>7. ASSUME NEW j \in jobs, Deliver(j) PROVE OrderOf(h)'
  <2>1. PICK k : k = [j EXCEPT !.at = "call"]
    OBVIOUS
  <2>2. k.handler = j.handler /\ k.event = j.event /\ k.at = "call"
    BY <1>2, <2>1, CallOf
  <2>3. jobs' = (jobs \ {j}) \cup {k} /\ UNCHANGED <<pushed, queue>> /\ j.at = "match"
    BY <1>7, <2>1 DEF Deliver
  <2>4. CASE j.handler = h
    <3>1. received'[h] = Append(received[h], j.event)
      BY <1>7, <2>4 DEF Deliver, TypeOK
    <3>2. Values(received'[h]) = Values(received[h]) \cup {j.event}
      BY <1>2, <3>1, AppendLast
    <3>3. ~ParallelHandlerCalls => \A l \in jobs \ {j} : l.handler # h
      BY <2>4 DEF JobInv
    <3>4. \A e \in Values(queue'[h]) : \A l \in jobs' : l.handler = h => l.event < e
      BY <1>1, <2>2, <2>3, <2>4 DEF OrderOf
    <3>5. \A e \in Values(queue'[h]) : \A r \in Values(received'[h]) : r < e
      BY <1>1, <2>3, <2>4, <3>2 DEF OrderOf
    <3>6. \A l \in jobs' : l.handler = h => /\ l.event <= pushed'
                                            /\ ParallelHandlerCalls \/ l.at # "match"
      BY <1>1, <2>2, <2>3, <2>4, <3>3 DEF OrderOf
    <3>7. \A r \in Values(received'[h]) : r <= pushed'
      BY <1>1, <2>3, <2>4, <3>2 DEF OrderOf
    <3>8. QED
      BY <1>1, <2>3, <3>4, <3>5, <3>6, <3>7 DEF OrderOf
  <2>5. CASE j.handler # h
    <3>1. received'[h] = received[h]
      BY <1>7, <2>5 DEF Deliver, TypeOK
    <3>2. QED
      BY <1>1, <2>2, <2>3, <2>5, <3>1 DEF OrderOf
  <2>6. QED
    BY <2>4, <2>5
<1>8. CASE UNCHANGED <<queue, jobs, pushed, received>>
  BY <1>1, <1>8 DEF OrderOf
<1>9. QED
  BY <1>3, <1>4, <1>5, <1>6, <1>7, <1>8
     DEF Next, JobStep, AddHandler, RemoveReturns, ChangeFilters, SetErrorStrategy,
         Stop, Stopped, Exit, vars

-----------------------------------------------------------------------------
(* What the handlers get *)

DeliveryInv == TypeOK /\ HandlerInv /\ JobInv /\ OrderInv

LEMMA DeliveryInit == Init => DeliveryInv /\ HandledInOrder
<1> SUFFICES ASSUME Init PROVE DeliveryInv /\ HandledInOrder
  OBVIOUS
<1>1. TypeOK
  BY TypeInit
<1>2. HandlerInv /\ JobInv
  BY DEF Init, HandlerInv, JobInv, Installed
<1>3. OrderInv
  BY NothingYet DEF Init, OrderInv, OrderOf
<1>4. HandledInOrder
  BY DEF Init, HandledInOrder, InOrder, NoEventLost, QuietWhenStopped
<1>5. QED
  BY <1>1, <1>2, <1>3, <1>4 DEF DeliveryInv

LEMMA DeliveryNext == DeliveryInv /\ [Next]_vars => DeliveryInv'
BY TypeNext, HandlerNext, JobNext, OrderNext DEF DeliveryInv

LEMMA InOrderNext == DeliveryInv /\ InOrder /\ [Next]_vars => InOrder'
<1> SUFFICES ASSUME DeliveryInv, InOrder, [Next]_vars, ~ParallelHandlerCalls,
                    NEW h \in Handlers
             PROVE  Increasing(received[h])'
  BY DEF InOrder, Increasing
<1>1. Increasing(received[h])
  BY DEF InOrder, Increasing
<1>2. ASSUME NEW j \in jobs, Deliver(j) PROVE Increasing(received[h])'
  <2>1. received[h] \in Seq(Events) /\ j.event \in Events
    BY DEF DeliveryInv, TypeOK, Job
  <2>2. received'[h] = IF h = j.handler THEN Append(received[h], j.event) ELSE received[h]
    BY <1>2 DEF Deliver, DeliveryInv, TypeOK
  <2>3. h = j.handler => \A r \in Values(received[h]) : r < j.event
    BY <1>2 DEF Deliver, DeliveryInv, OrderInv, OrderOf
  <2>4. QED
    BY <1>1, <2>1, <2>2, <2>3, AppendLast
<1>3. CASE UNCHANGED received
  BY <1>1, <1>3
<1>4. QED
  BY <1>2, <1>3
     DEF Next, JobStep, Push, AddHandler, RemoveHandler, RemoveReturns, ChangeFilters,
         SetErrorStrategy, Stop, Stopped, Take, Reject, Return, Exit, vars

\* What becomes of an event e that h is owed
Fate(h, e) ==
    \/ \E x \in Filters \cup {h} : <<x, e>> \notin Passes
    \/ \E f \in Filters : f \in Throwing
    \/ e \in Values(received[h])
    \/ e \in Values(queue[h])
    \/ \E j \in jobs : j.handler = h /\ j.event = e /\ j.at = "match"

LEMMA NoEventLostNext == DeliveryInv /\ NoEventLost /\ [Next]_vars => NoEventLost'
<1> SUFFICES ASSUME DeliveryInv, NoEventLost, [Next]_vars,
                    NEW h \in handlers', NEW e \in owed'[h]
             PROVE  Fate(h, e)'
  BY ValueAt DEF NoEventLost, Fate
<1>1. h \in handlers /\ e \in owed[h] => Fate(h, e)
  BY DEF NoEventLost, Fate, Values
<1>2. TypeOK /\ HandlerInv
  BY DEF DeliveryInv
<1>3. CASE Push
  <2>1. h \in handlers /\ h \in Handlers /\ queue[h] \in Seq(Events)
    BY <1>2, <1>3 DEF Push, TypeOK
  <2>2. queue'[h] = Append(queue[h], pushed + 1) /\ owed'[h] = owed[h] \cup {pushed + 1}
    BY <1>3, <2>1 DEF Push
  <2>3. Values(queue'[h]) = Values(queue[h]) \cup {pushed + 1}
    BY <2>1, <2>2, AppendLast
  <2>4. e \in owed[h] \/ e \in Values(queue'[h])
    BY <2>2, <2>3
  <2>5. UNCHANGED <<jobs, received>>
    BY <1>3 DEF Push
  <2>6. QED
    BY <1>1, <2>1, <2>3, <2>4, <2>5 DEF Fate
<1>4. ASSUME NEW g \in Handlers, AddHandler(g) PROVE Fate(h, e)'
  <2>1. h \in handlers
    BY <1>2, <1>4 DEF AddHandler, HandlerInv
  <2>2. QED
    BY <1>1, <1>4, <2>1 DEF AddHandler, Fate
<1>5. ASSUME NEW c \in Callers, NEW g \in Handlers, RemoveHandler(c, g) PROVE Fate(h, e)'
  <2>1. h \in handlers /\ h # g /\ h \in Handlers
    BY <1>2, <1>5 DEF RemoveHandler, TypeOK
  <2>2. queue'[h] = queue[h] /\ owed'[h] = owed[h] /\ UNCHANGED <<jobs, received>>
    BY <1>2, <1>5, <2>1 DEF RemoveHandler, TypeOK
  <2>3. QED
    BY <1>1, <2>1, <2>2 DEF Fate
<1>6. ASSUME NEW w \in Workers, NEW g \in Handlers, Take(w, g) PROVE Fate(h, e)'
  <2>1. PICK t : t = [worker |-> w, handler |-> g, event |-> Head(queue[g]), at |-> "match"]
    OBVIOUS
  <2>2. /\ jobs' = jobs \cup {t}
        /\ t.handler = g /\ t.event = Head(queue[g]) /\ t.at = "match"
    BY <1>6, <2>1 DEF Take
  <2>3. h \in handlers /\ e \in owed[h] /\ received' = received /\ h \in Handlers
    BY <1>2, <1>6 DEF Take, TypeOK
  <2>4. e \in Values(queue[h]) => e \in Values(queue'[h]) \/ (h = g /\ e = t.event)
    <3>1. CASE h = g
      <4>1. queue[h] \in Seq(Events) /\ queue[h] # <<>> /\ queue'[h] = Tail(queue[h])
        BY <1>2, <1>6, <2>3, <3>1 DEF Take, TypeOK
      <4>2. Increasing(queue[h])
        BY <2>3 DEF DeliveryInv, OrderInv, OrderOf
      <4>3. Values(queue[h]) = {t.event} \cup Values(queue'[h])
        BY <2>2, <3>1, <4>1, <4>2, HeadFirst, EventsAreNumbers
      <4>4. QED
        BY <3>1, <4>3
    <3>2. CASE h # g
      BY <1>2, <1>6, <2>3, <3>2 DEF Take, TypeOK
    <3>3. QED
      BY <3>1, <3>2
  <2>5. QED
    BY <1>1, <2>2, <2>3, <2>4 DEF Fate
<1>7. ASSUME NEW j \in jobs, Reject(j) PROVE Fate(h, e)'
  <2>1. h \in handlers /\ e \in owed[h] /\ UNCHANGED <<queue, received>> /\ jobs' = jobs \ {j}
    BY <1>7 DEF Reject
  <2>2. \/ <<j.handler, j.event>> \notin Passes
        \/ \E f \in Filters : <<f, j.event>> \notin Passes \/ f \in Throwing
    BY <1>2, <1>7 DEF Reject, Accepted, TypeOK
  <2>3. QED
    BY <1>1, <2>1, <2>2 DEF Fate
<1>8. ASSUME NEW j \in jobs, Deliver(j) PROVE Fate(h, e)'
  <2>1. h \in handlers /\ e \in owed[h] /\ queue' = queue /\ jobs \ {j} \subseteq jobs'
    BY <1>8 DEF Deliver
  <2>2. received[h] \in Seq(Events)
    BY <1>2, <2>1 DEF TypeOK
  <2>3. received'[h] = IF h = j.handler THEN Append(received[h], j.event) ELSE received[h]
    BY <1>2, <1>8, <2>1 DEF Deliver, TypeOK
  <2>4. /\ Values(received[h]) \subseteq Values(received'[h])
        /\ h = j.handler => j.event \in Values(received'[h])
    BY <2>2, <2>3, AppendLast
  <2>5. QED
    BY <1>1, <2>1, <2>4 DEF Fate
<1>9. ASSUME NEW j \in jobs, Return(j) PROVE Fate(h, e)'
  BY <1>1, <1>9 DEF Return, Fate
<1>10. CASE \/ \E c \in Callers : RemoveReturns(c)
            \/ \E f \in Filters : ChangeFilters(f)
            \/ \E s \in Strategies : SetErrorStrategy(s)
            \/ Stop \/ Stopped \/ \E j \in jobs : Exit(j)
            \/ UNCHANGED vars
  <2>1. UNCHANGED <<handlers, queue, jobs, received, owed>>
    BY <1>10 DEF RemoveReturns, ChangeFilters, SetErrorStrategy, Stop, Stopped, Exit, vars
  <2>2. QED
    BY <1>1, <2>1 DEF Fate
<1>11. QED
  BY <1>3, <1>4, <1>5, <1>6, <1>7, <1>8, <1>9, <1>10 DEF Next, JobStep

LEMMA QuietNext == DeliveryInv /\ QuietWhenStopped /\ [Next]_vars => QuietWhenStopped'
<1> SUFFICES ASSUME QuietWhenStopped, [Next]_vars PROVE QuietWhenStopped'
  OBVIOUS
<1>1. QED
  BY DEF QuietWhenStopped, Next, JobStep, Push, AddHandler, RemoveHandler, RemoveReturns,
         ChangeFilters, SetErrorStrategy, Stop, Stopped, Take, Reject, Deliver, Return, Exit, vars

\* A handler is called with the events in the order of the pushes, each at most
\* once, unless parallel calls are enabled; whatever the workers, throwing
\* handlers, changing filters and removals do, an event reaches every handler
\* it was pushed for; and the destructor leaves no call in progress
\* (ParallelEventReceivingStrategy.cpp, handle, dispatch, filter, deliver).
THEOREM HandledAsPushed == Spec => []HandledInOrder
<1>1. DeliveryInv /\ HandledInOrder /\ [Next]_vars => (DeliveryInv /\ HandledInOrder)'
  BY DeliveryNext, InOrderNext, NoEventLostNext, QuietNext DEF HandledInOrder
<1>2. QED
  BY <1>1, DeliveryInit, PTL DEF Spec

-----------------------------------------------------------------------------
(* The contract with the handlers *)

InstalledSet == handlers \cup UNION {waits[c] : c \in Callers}
Calls == {<<j.handler, j.event>> : j \in {k \in jobs : k.at = "call"}}

LEMMA ContractInit == Init => Contract!Init
BY DEF Init, Contract!Init

LEMMA ContractNext == DeliveryInv /\ [Next]_vars => [Contract!Next]_(Contract!vars)
<1> SUFFICES ASSUME DeliveryInv, [Next]_vars
             PROVE  Contract!Next \/ UNCHANGED <<InstalledSet, Calls>>
  BY DEF Contract!vars, InstalledSet, Calls
<1>1. TypeOK /\ HandlerInv /\ JobInv
  BY DEF DeliveryInv
<1>2. ASSUME NEW h \in Handlers, AddHandler(h) PROVE Contract!Next
  <2>1. InstalledSet' = InstalledSet \cup {h} /\ UNCHANGED Calls
    BY <1>2 DEF AddHandler, InstalledSet, Calls
  <2>2. Contract!Install(h)
    BY <2>1 DEF Contract!Install, InstalledSet, Calls
  <2>3. QED
    BY <2>2 DEF Contract!Next
<1>3. ASSUME NEW c \in Callers, NEW h \in Handlers, RemoveHandler(c, h)
      PROVE  UNCHANGED <<InstalledSet, Calls>>
  <2>1. h \in handlers /\ handlers' = handlers \ {h} /\ waits[c] = {} /\ jobs' = jobs
    BY <1>3 DEF RemoveHandler, MayCall
  <2>2. waits'[c] = {h} /\ \A d \in Callers \ {c} : waits'[d] = waits[d]
    BY <1>1, <1>3 DEF RemoveHandler, TypeOK
  <2>3. \A k : k \in InstalledSet' <=> k \in InstalledSet
    BY <2>1, <2>2 DEF InstalledSet
  <2>4. QED
    BY <2>1, <2>3 DEF InstalledSet, Calls
<1>4. ASSUME NEW c \in Callers, RemoveReturns(c) PROVE Contract!Next
  <2>1. PICK h \in waits[c] : TRUE
    BY <1>4 DEF RemoveReturns
  <2>2. waits[c] = {h} /\ h \in Handlers /\ h \notin handlers
    BY <1>1, <2>1 DEF TypeOK, HandlerInv
  <2>3. waits'[c] = {} /\ (\A d \in Callers \ {c} : waits'[d] = waits[d] /\ h \notin waits[d])
    BY <1>1, <1>4, <2>1 DEF RemoveReturns, TypeOK, HandlerInv
  <2>4. handlers' = handlers /\ jobs' = jobs /\ \A j \in jobs : j.handler # h
    BY <1>4, <2>1 DEF RemoveReturns, Called
  <2>5. InstalledSet' = InstalledSet \ {h}
    BY <2>2, <2>3, <2>4 DEF InstalledSet
  <2>6. Calls' = Calls /\ \A e \in Events : <<h, e>> \notin Calls
    BY <2>4 DEF Calls
  <2>7. Contract!Uninstall(h)
    BY <2>5, <2>6 DEF Contract!Uninstall, InstalledSet, Calls
  <2>8. QED
    BY <2>2, <2>7 DEF Contract!Next
<1>5. ASSUME NEW w \in Workers, NEW h \in Handlers, Take(w, h)
      PROVE  UNCHANGED <<InstalledSet, Calls>>
  <2>1. PICK t : t = [worker |-> w, handler |-> h, event |-> Head(queue[h]), at |-> "match"]
    OBVIOUS
  <2>2. jobs' = jobs \cup {t} /\ t.at # "call" /\ UNCHANGED <<handlers, waits>>
    BY <1>5, <2>1 DEF Take
  <2>3. QED
    BY <2>2 DEF InstalledSet, Calls
<1>6. ASSUME NEW j \in jobs, Reject(j) PROVE UNCHANGED <<InstalledSet, Calls>>
  BY <1>6 DEF Reject, InstalledSet, Calls
<1>7. ASSUME NEW j \in jobs, Deliver(j) PROVE Contract!Next
  <2>1. PICK k : k = [j EXCEPT !.at = "call"]
    OBVIOUS
  <2>2. j \in Job /\ j.handler \in Handlers /\ j.event \in Events
    BY <1>1 DEF TypeOK, Job
  <2>3. k.handler = j.handler /\ k.event = j.event /\ k.at = "call"
    BY <2>1, <2>2, CallOf
  <2>4. jobs' = (jobs \ {j}) \cup {k} /\ j.at = "match" /\ UNCHANGED <<handlers, waits>>
    BY <1>7, <2>1 DEF Deliver
  <2>5. Calls' = Calls \cup {<<j.handler, j.event>>} /\ InstalledSet' = InstalledSet
    BY <2>3, <2>4 DEF Calls, InstalledSet
  <2>6. j.handler \in InstalledSet
    BY <1>1 DEF HandlerInv, Installed, InstalledSet
  <2>7. Contract!Begin(j.handler, j.event)
    BY <2>5, <2>6 DEF Contract!Begin, InstalledSet, Calls
  <2>8. QED
    BY <2>2, <2>7 DEF Contract!Next
<1>8. ASSUME NEW j \in jobs, Return(j) PROVE Contract!Next
  <2>1. j.handler \in Handlers /\ j.event \in Events
    BY <1>1 DEF TypeOK, Job
  <2>2. jobs' = jobs \ {j} /\ UNCHANGED <<handlers, waits>>
    BY <1>8 DEF Return
  <2>3. \A k \in jobs \ {j} : <<k.handler, k.event>> # <<j.handler, j.event>>
    BY <1>1 DEF JobInv
  <2>4. Calls' = Calls \ {<<j.handler, j.event>>} /\ InstalledSet' = InstalledSet
    BY <2>2, <2>3 DEF Calls, InstalledSet
  <2>5. Contract!End(j.handler, j.event)
    BY <2>4 DEF Contract!End, InstalledSet, Calls
  <2>6. QED
    BY <2>1, <2>5 DEF Contract!Next
<1>9. CASE UNCHANGED <<handlers, waits, jobs>>
  BY <1>9 DEF InstalledSet, Calls
<1>10. QED
  BY <1>2, <1>3, <1>4, <1>5, <1>6, <1>7, <1>8, <1>9
     DEF Next, JobStep, Push, ChangeFilters, SetErrorStrategy, Stop, Stopped, Exit, vars

\* The strategy keeps the promise of Listener::addHandler and removeHandler: a
\* handler is called only between the two, and removeHandler, in whichever
\* thread, returns only when no worker is in a call of that handler.
THEOREM ContractIsKept == Spec => ContractSpec
<1>1. Spec => []DeliveryInv
  BY DeliveryInit, DeliveryNext, PTL DEF Spec
<1>2. QED
  BY <1>1, ContractInit, ContractNext, PTL DEF Spec, ContractSpec, Contract!Spec
=============================================================================
