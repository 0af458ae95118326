----------------------------- MODULE RemoteCall -----------------------------
(***************************************************************************)
(* Remote method calls: rsb/patterns/RemoteServer.cpp (RemoteMethod) on    *)
(* the caller's side and rsb/patterns/LocalServer.cpp (LocalMethod) on the *)
(* servers'.  A request is an event with method "REQUEST" on the method's  *)
(* scope, a reply one with method "REPLY" whose causes contain the id of   *)
(* the request.                                                            *)
(*                                                                         *)
(* Each listener has one queue and handles its events one after the other  *)
(* (ParallelEventReceivingStrategy without parallel handler calls), on a   *)
(* thread that is not the publisher's.                                      *)
(* Callers are threads that share one RemoteMethod.                        *)
(***************************************************************************)
EXTENDS Naturals, Sequences, FiniteSets

CONSTANTS Calls,       \* the calls; a call also stands for its request's id
          Servers,     \* LocalMethods registered on the method's scope
          Mismatched,  \* calls whose request has not the callback's type
          Transports,  \* over how many transports an event arrives
          OwnCauses,   \* may a callback return an event with causes?
          Failures     \* may publishing fail on a transport, and a callback
                       \* throw something that is no std::exception?

ASSUME CallsAssumption == Mismatched \subseteq Calls
ASSUME TransportsAssumption == Transports \in Nat \ {0}
ASSUME ModesAssumption ==
    OwnCauses \in BOOLEAN /\ Failures \in BOOLEAN

VARIABLES pc,         \* where the caller is
          mutex,      \* RemoteMethod::inprogressMutex: holders, at most one
          inprogress, \* keys of RemoteMethod::inprogress
          future,     \* what the call's future was given, in order
          requests,   \* requests[s]: request events queued at s's listener
          replies,    \* reply events queued at the RemoteMethod's listener
          produced    \* history: outcomes the servers produced for a call

vars == <<pc, mutex, inprogress, future, requests, replies, produced>>

Outcomes == {"value", "error"}

\* A reply: the call it answers, what it carries, and the first element of
\* its set of causes, the only one RemoteMethod::handle looks at.  The set is
\* ordered by event id, so with more than one cause any may come first.
Foreign == "foreign"
Reply == [of : Calls, outcome : Outcomes, first : Calls \cup {Foreign}]

ASSUME ForeignAssumption == Foreign \notin Calls

TypeOK ==
    /\ pc \in [Calls -> {"idle", "publishing", "failed", "waiting", "done", "timeout"}]
    /\ mutex \subseteq Calls
    /\ inprogress \subseteq Calls
    /\ future \in [Calls -> Seq(Outcomes)]
    /\ requests \in [Servers -> Seq(Calls)]
    /\ replies \in Seq(Reply)
    /\ produced \in [Calls -> SUBSET Outcomes]

Init ==
    /\ pc = [c \in Calls |-> "idle"]
    /\ mutex = {}
    /\ inprogress = {}
    /\ future = [c \in Calls |-> <<>>]
    /\ requests = [s \in Servers |-> <<>>]
    /\ replies = <<>>
    /\ produced = [c \in Calls |-> {}]

\* n copies of an event, one for each transport it takes
Times(n, e) == [i \in 1..n |-> e]
Copies(e) == Times(Transports, e)

-----------------------------------------------------------------------------
(* The caller *)

\* Mutated: the request is published before the mutex is taken.
BeginCall_unlocked(c) ==
    /\ pc[c] = "idle" /\ mutex = {}
    /\ requests' = [s \in Servers |-> requests[s] \o Copies(c)]
    /\ pc' = [pc EXCEPT ![c] = "publishing"]
    /\ UNCHANGED <<mutex, inprogress, future, replies, produced>>

\* RemoteMethod::call: take the mutex and publish the request
BeginCall(c) ==
    /\ pc[c] = "idle" /\ mutex = {}
    /\ mutex' = {c}
    /\ requests' = [s \in Servers |-> requests[s] \o Copies(c)]
    /\ pc' = [pc EXCEPT ![c] = "publishing"]
    /\ UNCHANGED <<inprogress, future, replies, produced>>

\* RemoteMethod::call: publish() throws on one of the transports, after the
\* ones before it have sent the request.  The exception releases the mutex and
\* reaches the caller, who gets no future.
FailCall(c) ==
    /\ Failures
    /\ pc[c] = "idle" /\ mutex = {}
    /\ \E n \in 0..(Transports - 1) :
           requests' = [s \in Servers |-> requests[s] \o Times(n, c)]
    /\ pc' = [pc EXCEPT ![c] = "failed"]
    /\ UNCHANGED <<mutex, inprogress, future, replies, produced>>

\* Mutated: the mutex stays locked.
FinishCall_keepsMutex(c) ==
    /\ pc[c] = "publishing"
    /\ inprogress' = inprogress \cup {c}
    /\ pc' = [pc EXCEPT ![c] = "waiting"]
    /\ UNCHANGED <<mutex, future, requests, replies, produced>>

\* RemoteMethod::call: remember the future and release the mutex
FinishCall(c) ==
    /\ pc[c] = "publishing"
    /\ inprogress' = inprogress \cup {c}
    /\ mutex' = mutex \ {c}
    /\ pc' = [pc EXCEPT ![c] = "waiting"]
    /\ UNCHANGED <<future, requests, replies, produced>>

\* RemoteServer::call: the future's get() returns or throws what was set ...
GetResult(c) ==
    /\ pc[c] = "waiting" /\ future[c] # <<>>
    /\ pc' = [pc EXCEPT ![c] = "done"]
    /\ UNCHANGED <<mutex, inprogress, future, requests, replies, produced>>

\* ... or throws a FutureTimeoutException; nothing is cleaned up
Timeout(c) ==
    /\ pc[c] = "waiting" /\ future[c] = <<>>
    /\ pc' = [pc EXCEPT ![c] = "timeout"]
    /\ UNCHANGED <<mutex, inprogress, future, requests, replies, produced>>

\* Mutated: the entry is not erased.
HandleReply_keepsEntry ==
    /\ replies # <<>> /\ mutex = {}
    /\ LET r == Head(replies)
       IN  future' = IF r.first \in inprogress
                     THEN [future EXCEPT ![r.first] = Append(@, r.outcome)]
                     ELSE future
    /\ replies' = Tail(replies)
    /\ UNCHANGED <<pc, mutex, inprogress, requests, produced>>

\* Mutated: the reply completes whatever call is in progress.
HandleReply_anyEntry ==
    /\ replies # <<>> /\ mutex = {}
    /\ LET r == Head(replies)
       IN  IF inprogress = {}
           THEN UNCHANGED <<inprogress, future>>
           ELSE \E c \in inprogress :
                    /\ inprogress' = inprogress \ {c}
                    /\ future' = [future EXCEPT ![c] = Append(@, r.outcome)]
    /\ replies' = Tail(replies)
    /\ UNCHANGED <<pc, mutex, requests, produced>>

\* RemoteMethod::handle: the mutex is only held for a look into inprogress, and
\* a caller cannot tell the moment before the future is set from the moment
\* before that, so this is one step.  A reply without an entry (late, duplicate, somebody
\* else's) is dropped.
HandleReply ==
    /\ replies # <<>> /\ mutex = {}
    /\ LET r == Head(replies)
       IN  /\ inprogress' = inprogress \ {r.first}
           /\ future' = IF r.first \in inprogress
                        THEN [future EXCEPT ![r.first] = Append(@, r.outcome)]
                        ELSE future
    /\ replies' = Tail(replies)
    /\ UNCHANGED <<pc, mutex, requests, produced>>

-----------------------------------------------------------------------------
(* The servers: LocalMethod::handle *)

\* The request's type is not the callback's: logged, nothing is sent.
RejectRequest(s) ==
    /\ requests[s] # <<>> /\ Head(requests[s]) \in Mismatched
    /\ requests' = [requests EXCEPT ![s] = Tail(@)]
    /\ UNCHANGED <<pc, mutex, inprogress, future, replies, produced>>

FirstCauses(c) == IF OwnCauses THEN {c, Foreign} ELSE {c}

\* The callback returns an event or throws a std::exception, which becomes a
\* fresh event marked "rsb:error?".  Either gets the request as a cause and is
\* published.
AnswerRequest(s, o) ==
    /\ requests[s] # <<>> /\ Head(requests[s]) \notin Mismatched
    /\ LET c == Head(requests[s])
       IN  /\ \E first \in IF o = "error" THEN {c} ELSE FirstCauses(c) :
                 replies' = replies \o Copies([of |-> c, outcome |-> o, first |-> first])
           /\ produced' = [produced EXCEPT ![c] = @ \cup {o}]
    /\ requests' = [requests EXCEPT ![s] = Tail(@)]
    /\ UNCHANGED <<pc, mutex, inprogress, future>>

\* The callback throws something else, or publishing the reply fails: the
\* exception passes through LocalMethod::handle to the receiving strategy,
\* which logs it.
EscapeRequest(s) ==
    /\ Failures
    /\ requests[s] # <<>> /\ Head(requests[s]) \notin Mismatched
    /\ requests' = [requests EXCEPT ![s] = Tail(@)]
    /\ UNCHANGED <<pc, mutex, inprogress, future, replies, produced>>

ServerStep(s) ==
    RejectRequest(s) \/ EscapeRequest(s) \/ \E o \in Outcomes : AnswerRequest(s, o)

CallerStep(c) == BeginCall(c) \/ FailCall(c) \/ FinishCall(c) \/ GetResult(c) \/ Timeout(c)

Next ==
    \/ \E c \in Calls : CallerStep(c)
    \/ HandleReply
    \/ \E s \in Servers : ServerStep(s)

Spec == Init /\ [][Next]_vars

\* Threads that can run do: callers past publish(), the listeners' worker
\* threads.  Nobody has to call, and time need not run out.
Fairness ==
    /\ \A c \in Calls : WF_vars(FinishCall(c)) /\ WF_vars(GetResult(c))
    /\ SF_vars(HandleReply)
    /\ \A s \in Servers : WF_vars(ServerStep(s))

FairSpec == Spec /\ Fairness

-----------------------------------------------------------------------------
(* Properties *)

\* Once a server has produced an outcome, the call's future has one or a reply
\* is still on its way: the mutex is held from before publish() to after
\* insert(), so that a quick reply cannot be handled before the entry exists.
NoReplyLost ==
    \A c \in Calls :
        produced[c] # {} /\ pc[c] # "failed" /\ ~OwnCauses
            => future[c] # <<>> \/ \E i \in DOMAIN replies : replies[i].first = c

\* A future is completed at most once, whatever several servers, several
\* transports or late replies deliver.
CompletedOnce == \A c \in Calls : Len(future[c]) <= 1

\* An entry that stays behind belongs to a call that was sent and that nobody
\* has answered yet: a call whose publish() threw leaves none, and an answered
\* one has been erased, also when its caller had given up.
EntryMeansUnanswered ==
    \A c \in inprogress : future[c] = <<>> /\ pc[c] \in {"waiting", "timeout"}

\* A call is settled once: its future is completed at most once, and with it,
\* or when it cannot be sent, the call leaves the map (RemoteServer.cpp:81, :116).
SettledOnce == CompletedOnce /\ EntryMeansUnanswered

\* Callers get only what a server produced for their own request.
Rpc == INSTANCE RpcContract
          WITH called <- {c \in Calls : pc[c] # "idle"},
               future <- [c \in Calls |-> {future[c][i] : i \in DOMAIN future[c]}]
RpcSpec == Rpc!Spec

\* An answer that a callback produced reaches the future, also of a caller
\* that has given up ("returning an event which contains the value returned
\* by the remote method", RemoteServer.h:152).
AnswerArrives ==
    \A c \in Calls : produced[c] # {} ~> future[c] # <<>> \/ pc[c] = "failed"
=============================================================================
