---------------------------- MODULE Introspection ----------------------------
(***************************************************************************)
(* A process that tells others about its participants:                     *)
(* rsb/introspection/Plugin.cpp (the observer of the factory's signals) and *)
(* rsb/introspection/IntrospectionSender.cpp (Hello, Bye and the answers to *)
(* queries).                                                               *)
(*                                                                         *)
(* Participants are created and destroyed by threads of the application,   *)
(* each inside a call of the factory or of a destructor.  The sender has    *)
(* participants of its own: the listener for queries, whose handler runs on *)
(* a worker of its strategy, one query after the other, an informer, and a  *)
(* server.  They raise the same signals.                                   *)
(*                                                                         *)
(* Publishing a Hello, a Bye or an answer may fail, with the message out or *)
(* not (the connectors publish one after the other).                       *)
(***************************************************************************)
EXTENDS Naturals, Sequences, FiniteSets

CONSTANTS Participants, \* of the application; each lives once
          Disabled,     \* those with introspection disabled
          MaxQueries    \* bound on the number of queries that arrive

ASSUME DisabledAssumption == Disabled \subseteq Participants
ASSUME MaxQueriesAssumption == MaxQueries \in Nat

\* The sender's own participants, below /__rsb/introspection
Internal == {"listener", "informer", "server"}
ASSUME InternalAssumption == Internal \cap Participants = {}

VARIABLES at,           \* where the thread that has p created or destroyed is
          senderMutex,  \* senderMutex of the observer: its holder, if any
          sender,       \* the sender, and how far its destruction has come
          mutex,        \* IntrospectionSender::mutex: its holder, if any
          participants, \* IntrospectionSender::participants, whose order is of
                        \* no account
          queries,      \* queries queued for the listener's handler
          worker,       \* QueryHandler::handle
          directory,    \* what a remote process has learned from the messages
          arrived,      \* number of queries that have arrived
          failed        \* participants whose creation has thrown

vars == <<at, senderMutex, sender, mutex, participants, queries, worker,
          directory, arrived, failed>>

Worker == "worker"
ASSUME WorkerAssumption == Worker \notin Participants

\* A query asks for all participants or for one.  "owed" is history: those it
\* asks for that were alive when it arrived, are still, and have not answered.
Asked == {"survey", "ping"} \cup Participants
Query == [asks : Asked, owed : SUBSET Participants]
NoQuery == [asks |-> "survey", owed |-> {}]

AtValues == {"idle", "created", "build", "add", "hello", "live",
             "destroyed", "remove", "bye", "reset", "stop", "join", "leave", "gone"}

TypeOK ==
    /\ at \in [Participants -> AtValues]
    /\ senderMutex \subseteq Participants
    /\ sender \in {"none", "up", "mute", "stopping"}
    /\ mutex \subseteq Participants \cup {Worker}
    /\ participants \subseteq Participants
    /\ queries \in Seq(Query)
    /\ worker \in [at : {"idle", "lock", "answer"}, query : Query, rest : SUBSET Participants]
    /\ directory \in [Participants -> {"unknown", "present", "absent"}]
    /\ arrived \in 0..MaxQueries
    /\ failed \subseteq Participants

Init ==
    /\ at = [p \in Participants |-> "idle"]
    /\ senderMutex = {} /\ sender = "none"
    /\ mutex = {} /\ participants = {}
    /\ queries = <<>>
    /\ worker = [at |-> "idle", query |-> NoQuery, rest |-> {}]
    /\ directory = [p \in Participants |-> "unknown"]
    /\ arrived = 0 /\ failed = {}

Goto(p, step) == at' = [at EXCEPT ![p] = step]

\* p need no longer be answered for.
Excused(p, query) == [query EXCEPT !.owed = @ \ {p}]

-----------------------------------------------------------------------------
(* The observer's handlers *)

\* Mutated: only the option is looked at, not the scope.
Ignored_anyScope(x) == x \in Disabled

\* Neither the sender's participants nor disabled ones are looked after.
Ignored(x) == x \in Internal \/ x \in Disabled

\* A signal about one of the sender's own participants: a handler that does
\* not ignore it waits for senderMutex, which is not recursive.
OwnSignalReturns == \A x \in Internal : Ignored(x) \/ senderMutex = {}

\* Factory::create...: the participant is there, its creation is signalled.
Create(p) ==
    /\ at[p] = "idle"
    /\ Goto(p, IF Ignored(p) THEN "live" ELSE "created")
    /\ UNCHANGED <<senderMutex, sender, mutex, participants, queries, worker, directory, arrived, failed>>

\* handleParticipantCreated up to the creation of a sender
EnterCreated(p) ==
    /\ at[p] = "created" /\ senderMutex = {}
    /\ senderMutex' = {p}
    /\ Goto(p, IF sender = "none" THEN "build" ELSE "add")
    /\ UNCHANGED <<sender, mutex, participants, queries, worker, directory, arrived, failed>>

\* The constructor of the sender creates its participants.
BuildSender(p) ==
    /\ at[p] = "build" /\ OwnSignalReturns
    /\ sender' = "up"
    /\ Goto(p, "add")
    /\ UNCHANGED <<senderMutex, mutex, participants, queries, worker, directory, arrived, failed>>

\* The constructor of the sender throws, for instance because a connector
\* cannot connect.  The factory gives up p, whose destruction is signalled.
FailToBuild(p) ==
    /\ at[p] = "build" /\ OwnSignalReturns
    /\ senderMutex' = {}
    /\ failed' = failed \cup {p}
    /\ Goto(p, "destroyed")
    /\ UNCHANGED <<sender, mutex, participants, queries, worker, directory, arrived>>

\* The destructor of a participant begins; Participant::~Participant signals it.
Destroy(p) ==
    /\ at[p] = "live"
    /\ Goto(p, IF Ignored(p) THEN "gone" ELSE "destroyed")
    /\ queries' = [i \in DOMAIN queries |-> Excused(p, queries[i])]
    /\ worker' = [worker EXCEPT !.query = Excused(p, @)]
    /\ UNCHANGED <<senderMutex, sender, mutex, participants, directory, arrived, failed>>

\* handleParticipantDestroyed up to the test of the sender
EnterDestroyed(p) ==
    /\ at[p] = "destroyed" /\ senderMutex = {}
    /\ IF sender = "none"
       THEN Goto(p, "gone") /\ UNCHANGED senderMutex
       ELSE Goto(p, "remove") /\ senderMutex' = {p}
    /\ UNCHANGED <<sender, mutex, participants, queries, worker, directory, arrived, failed>>

\* sender.reset(): the members go in the reverse order of their declaration,
\* first the server and the informer ...
DestroyInformer(p) ==
    /\ at[p] = "reset" /\ OwnSignalReturns
    /\ sender' = "mute"
    /\ Goto(p, "stop")
    /\ UNCHANGED <<senderMutex, mutex, participants, queries, worker, directory, arrived, failed>>

\* ... then the listener: its strategy takes no more queries ...
StopListener(p) ==
    /\ at[p] = "stop"
    /\ sender' = "stopping"
    /\ Goto(p, "join")
    /\ UNCHANGED <<senderMutex, mutex, participants, queries, worker, directory, arrived, failed>>

\* ... and waits for the one that is being handled.
JoinWorker(p) ==
    /\ at[p] = "join" /\ worker.at = "idle" /\ OwnSignalReturns
    /\ sender' = "none"
    /\ queries' = <<>>
    /\ Goto(p, "leave")
    /\ UNCHANGED <<senderMutex, mutex, participants, worker, directory, arrived, failed>>

\* handleParticipantDestroyed returns.
LeaveDestroyed(p) ==
    /\ at[p] = "leave"
    /\ senderMutex' = {}
    /\ Goto(p, "gone")
    /\ UNCHANGED <<sender, mutex, participants, queries, worker, directory, arrived, failed>>

-----------------------------------------------------------------------------
(* The sender *)

\* addParticipant up to the Hello
AddParticipant(p) ==
    /\ at[p] = "add" /\ mutex = {}
    /\ mutex' = {p}
    /\ participants' = participants \cup {p}
    /\ Goto(p, "hello")
    /\ UNCHANGED <<senderMutex, sender, queries, worker, directory, arrived, failed>>

\* sendHello; addParticipant and handleParticipantCreated return.
SendHello(p) ==
    /\ at[p] = "hello"
    /\ directory' = [directory EXCEPT ![p] = "present"]
    /\ mutex' = {} /\ senderMutex' = {}
    /\ Goto(p, "live")
    /\ UNCHANGED <<sender, participants, queries, worker, arrived, failed>>

\* sendHello throws behind push_back: the entry stays while the factory gives p
\* up, whose destruction is signalled.
FailHello(p) ==
    /\ at[p] = "hello"
    /\ \E known \in {directory[p], "present"} : directory' = [directory EXCEPT ![p] = known]
    /\ mutex' = {} /\ senderMutex' = {}
    /\ failed' = failed \cup {p}
    /\ Goto(p, "destroyed")
    /\ UNCHANGED <<sender, participants, queries, worker, arrived>>

\* removeParticipant up to the search
LockToRemove(p) ==
    /\ at[p] = "remove" /\ mutex = {}
    /\ mutex' = {p}
    /\ Goto(p, "bye")
    /\ UNCHANGED <<senderMutex, sender, participants, queries, worker, directory, arrived, failed>>

\* Mutated: the sender goes when one participant is left.
SendBye_oneLeft(p) ==
    /\ at[p] = "bye"
    /\ p \in participants
    /\ directory' = [directory EXCEPT ![p] = "absent"]
    /\ participants' = participants \ {p}
    /\ mutex' = {}
    /\ Goto(p, IF Cardinality(participants') <= 1 THEN "reset" ELSE "leave")
    /\ UNCHANGED <<senderMutex, sender, queries, worker, arrived, failed>>

\* sendBye and the end of removeParticipant: the last one takes the sender.
SendBye(p) ==
    /\ at[p] = "bye"
    /\ p \in participants
    /\ directory' = [directory EXCEPT ![p] = "absent"]
    /\ participants' = participants \ {p}
    /\ mutex' = {}
    /\ Goto(p, IF participants' = {} THEN "reset" ELSE "leave")
    /\ UNCHANGED <<senderMutex, sender, queries, worker, arrived, failed>>

\* sendBye throws, out of p's destructor: the erase is skipped, and the entry
\* stays for good where the process survives that.  It does not when the
\* destructor runs because p's creation has thrown.
FailBye(p) ==
    /\ at[p] = "bye"
    /\ p \in participants /\ p \notin failed
    /\ \E known \in {directory[p], "absent"} : directory' = [directory EXCEPT ![p] = known]
    /\ mutex' = {} /\ senderMutex' = {}
    /\ Goto(p, "gone")
    /\ UNCHANGED <<sender, participants, queries, worker, arrived, failed>>

\* removeParticipant finds no entry, and warns: p was given up before it was
\* added, since no sender could be built for it, and another thread has built
\* one in the meantime.
RemoveUnknown(p) ==
    /\ at[p] = "bye"
    /\ p \notin participants
    /\ mutex' = {}
    /\ Goto(p, IF participants = {} THEN "reset" ELSE "leave")
    /\ UNCHANGED <<senderMutex, sender, participants, queries, worker, directory, arrived, failed>>

-----------------------------------------------------------------------------
(* Queries *)

\* Does a query ask for p?
AsksFor(asks, p) == asks \in {"survey", "ping", p}

\* A live participant owes an answer.
Owes(asks, p) == at[p] = "live" /\ ~Ignored(p) /\ AsksFor(asks, p)

\* A query of another process reaches the listener.
Arrive(asks) ==
    /\ arrived < MaxQueries
    /\ sender \in {"up", "mute"}
    /\ queries' = Append(queries, [asks |-> asks, owed |-> {p \in Participants : Owes(asks, p)}])
    /\ arrived' = arrived + 1
    /\ UNCHANGED <<at, senderMutex, sender, mutex, participants, worker, directory, failed>>

\* The worker takes a query; QueryHandler::handle begins.
TakeQuery ==
    /\ worker.at = "idle" /\ queries # <<>>
    /\ sender \in {"up", "mute"}
    /\ worker' = [at |-> "lock", query |-> Head(queries), rest |-> {}]
    /\ queries' = Tail(queries)
    /\ UNCHANGED <<at, senderMutex, sender, mutex, participants, directory, arrived, failed>>

\* Those the handler goes through
Answering(query) == {p \in participants : AsksFor(query.asks, p)}

\* Mutated: the list is copied and iterated without the mutex.
LockQuery_unlocked ==
    /\ worker.at = "lock" /\ mutex = {}
    /\ worker' = [worker EXCEPT !.at = "answer", !.rest = Answering(worker.query)]
    /\ UNCHANGED <<at, senderMutex, sender, mutex, participants, queries, directory, arrived, failed>>

\* QueryHandler::handle locks the sender, and iterates over its participants.
LockQuery ==
    /\ worker.at = "lock" /\ mutex = {}
    /\ mutex' = {Worker}
    /\ worker' = [worker EXCEPT !.at = "answer", !.rest = Answering(worker.query)]
    /\ UNCHANGED <<at, senderMutex, sender, participants, queries, directory, arrived, failed>>

\* Mutated: only the first participant answers.
SendAnswer_once ==
    /\ worker.at = "answer"
    /\ \E p \in worker.rest :
           /\ worker' = [worker EXCEPT !.query = Excused(p, @), !.rest = {}]
           /\ directory' = IF worker.query.asks = "ping" THEN directory
                           ELSE [directory EXCEPT ![p] = "present"]
    /\ UNCHANGED <<at, senderMutex, sender, mutex, participants, queries, arrived, failed>>

\* sendHello or, for a ping, sendPong for one participant
SendAnswer ==
    /\ worker.at = "answer"
    /\ \E p \in worker.rest :
           /\ worker' = [worker EXCEPT !.query = Excused(p, @), !.rest = @ \ {p}]
           /\ directory' = IF worker.query.asks = "ping" THEN directory
                           ELSE [directory EXCEPT ![p] = "present"]
    /\ UNCHANGED <<at, senderMutex, sender, mutex, participants, queries, arrived, failed>>

\* sendHello or sendPong throws: the strategy logs that the handler has thrown,
\* those it has not reached go without an answer.
FailAnswer ==
    /\ worker.at = "answer"
    /\ \E p \in worker.rest :
          \E known \in IF worker.query.asks = "ping" THEN {directory[p]}
                       ELSE {directory[p], "present"} :
              directory' = [directory EXCEPT ![p] = known]
    /\ worker' = [worker EXCEPT !.at = "idle", !.query = NoQuery, !.rest = {}]
    /\ mutex' = mutex \ {Worker}
    /\ UNCHANGED <<at, senderMutex, sender, participants, queries, arrived, failed>>

\* QueryHandler::handle returns.
FinishQuery ==
    /\ worker.at = "answer" /\ worker.rest = {}
    /\ worker' = [worker EXCEPT !.at = "idle", !.query = NoQuery]
    /\ mutex' = mutex \ {Worker}
    /\ UNCHANGED <<at, senderMutex, sender, participants, queries, directory, arrived, failed>>

-----------------------------------------------------------------------------
ObserverStep(p) ==
    \/ EnterCreated(p) \/ BuildSender(p) \/ FailToBuild(p)
    \/ EnterDestroyed(p) \/ DestroyInformer(p) \/ StopListener(p) \/ JoinWorker(p)
    \/ LeaveDestroyed(p)

SenderStep(p) ==
    \/ AddParticipant(p) \/ SendHello(p) \/ FailHello(p)
    \/ LockToRemove(p) \/ SendBye(p) \/ FailBye(p) \/ RemoveUnknown(p)

WorkerStep == TakeQuery \/ LockQuery \/ SendAnswer \/ FailAnswer \/ FinishQuery

Next ==
    \/ \E p \in Participants : Create(p) \/ Destroy(p) \/ ObserverStep(p) \/ SenderStep(p)
    \/ \E asks \in Asked : Arrive(asks)
    \/ WorkerStep

Spec == Init /\ [][Next]_vars

\* A thread inside a call goes on, and gets a mutex that is free again and
\* again.  Nothing makes the application create or destroy participants.
Fairness ==
    /\ \A p \in Participants : SF_vars(ObserverStep(p)) /\ SF_vars(SenderStep(p))
    /\ WF_vars(FinishQuery) /\ WF_vars(SendAnswer) /\ SF_vars(LockQuery) /\ WF_vars(TakeQuery)

FairSpec == Spec /\ Fairness

-----------------------------------------------------------------------------
(* Properties *)

\* Whatever the interleaving of creations, destructions and queries, a live
\* participant is known to a process that has followed the messages: its
\* Hello precedes the return of its creation, and no Bye names it
\* (Plugin.cpp, handleParticipantCreated).
LiveIsKnown ==
    \A p \in Participants : at[p] = "live" /\ ~Ignored(p) => directory[p] = "present"

\* A query that is being answered never uses the informer of a sender that is
\* being destroyed, although the informer goes before the listener whose
\* worker runs the handler: the last participant has left the list before,
\* under the mutex the handler holds (IntrospectionSender.cpp, handleSurvey,
\* removeParticipant; Plugin.cpp, sender.reset()).
InformerOutlivesAnswers ==
    worker.at = "answer" /\ worker.rest # {} => sender = "up"

\* When a query has been answered, or is dropped with the listener, no
\* participant it asked for is missing that lived from the query's arrival
\* till then, unless publishing one of the answers has failed
\* (IntrospectionSender.cpp, handleSurvey, handleRequest, handlePing).
NobodyMissed ==
    /\ worker.at = "answer" /\ worker.rest = {} => worker.query.owed = {}
    /\ sender \in {"mute", "stopping"} => \A i \in DOMAIN queries : queries[i].owed = {}

\* Whoever follows the messages or asks learns of every live participant
\* (IntrospectionSender.cpp, addParticipant, handleSurvey, handleRequest).
EveryoneIsTold == LiveIsKnown /\ NobodyMissed

\* A participant is announced only while it exists, a Bye is the last message
\* about it, and it comes before its destructor returns: a late answer to a
\* query does not resurrect it.  The exception is a participant whose Bye could
\* not be published: its entry stays, and queries announce it for ever
\* (IntrospectionSender.cpp, removeParticipant).
Leftover == {p \in participants : at[p] = "gone"}
Directory == INSTANCE ParticipantDirectory
    WITH alive <- {p \in Participants : at[p] \notin {"idle", "gone"}},
         leftover <- Leftover, known <- directory
DirectorySpec == Directory!Spec

\* No call of the factory and no destructor hangs in the observer: neither on
\* the mutexes, nor on the worker it joins, nor on the signals of the sender's
\* own participants (Plugin.cpp, the comment before the lock in
\* handleParticipantDestroyed).
SignalsReturn ==
    \A p \in Participants : at[p] \notin {"idle", "live", "gone"} ~> at[p] \in {"live", "gone"}
==============================================================================
