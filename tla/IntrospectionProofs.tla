------------------------- MODULE IntrospectionProofs -------------------------
(***************************************************************************)
(* Safety of Introspection for any participants and queries.               *)
(*                                                                         *)
(* Both mutexes have at most one holder (Holders), and who holds            *)
(* senderMutex knows what has become of the sender (SenderLife).  So the    *)
(* sender is there while a participant is listed (Listed), and since the    *)
(* worker holds the sender's mutex while it answers, it answers for listed  *)
(* participants only (Asking), whose Bye is not out (Told) unless             *)
(* publishing it has failed.                                               *)
(***************************************************************************)
EXTENDS Introspection, SequenceTheorems, TLAPS

\* Where a thread holds senderMutex, and where it holds the sender's mutex
InObserver == {"build", "add", "hello", "remove", "bye", "reset", "stop", "join", "leave"}
InSender == {"hello", "bye"}

\* Each mutex has the one holder whose position says so.
Holders ==
    /\ \A p \in Participants : p \in senderMutex <=> at[p] \in InObserver
    /\ \A p, q \in senderMutex : p = q
    /\ \A p \in Participants : p \in mutex <=> at[p] \in InSender
    /\ Worker \in mutex <=> worker.at = "answer"
    /\ \A x, y \in mutex : x = y

\* The sender goes through its life in the hands of the holder of senderMutex,
\* and it is built before the first participant is added and destroyed after
\* the last one has been removed.
SenderLife ==
    /\ \A p \in Participants :
           /\ at[p] = "build" => sender = "none"
           /\ at[p] \in {"add", "hello", "remove", "bye", "reset"} => sender = "up"
           /\ at[p] = "stop" => sender = "mute"
           /\ at[p] = "join" => sender = "stopping"
           /\ at[p] = "reset" => participants = {}
           /\ at[p] = "leave" => sender \in {"none", "up"}
    /\ sender # "up" => participants = {}
    /\ sender = "mute" => \E p \in Participants : at[p] = "stop"
    /\ sender = "stopping" => \E p \in Participants : at[p] = "join"

\* The sender's list holds the participants between their Hello and their Bye,
\* those whose Bye has failed for ever, and none that is ignored.
Listed ==
    \A p \in Participants :
        /\ at[p] \notin {"idle", "live", "gone"} => ~Ignored(p)
        /\ p \in participants =>
               /\ ~Ignored(p)
               /\ at[p] \in {"hello", "live", "destroyed", "remove", "bye", "gone"}
        /\ at[p] = "hello" \/ (at[p] = "live" /\ ~Ignored(p)) => p \in participants

\* What the messages have told so far
Told ==
    \A p \in Participants :
        /\ at[p] \in {"idle", "created", "build", "add", "hello"} => directory[p] = "unknown"
        /\ p \in failed =>
              at[p] \notin {"idle", "created", "build", "add", "hello", "live"}
        /\ directory[p] = "present" => p \in participants
        /\ p \in participants /\ at[p] # "gone" => directory[p] # "absent"
        /\ p \in participants /\ at[p] \notin {"hello", "gone"} /\ p \notin failed
           => directory[p] = "present"

\* The worker goes through listed participants, and all who owe an answer are
\* among those it has not reached yet.
Asking ==
    /\ worker.rest \subseteq participants
    /\ worker.at # "answer" => worker.rest = {}
    /\ worker.at = "answer" => worker.query.owed \subseteq worker.rest
    /\ \A p \in worker.query.owed : Owes(worker.query.asks, p)
    /\ \A i \in DOMAIN queries : \A p \in queries[i].owed : Owes(queries[i].asks, p)

IInv == TypeOK /\ Holders /\ SenderLife /\ Listed /\ Told /\ Asking

LEMMA InitIInv == ASSUME Init PROVE IInv
<1> USE DisabledAssumption, MaxQueriesAssumption
<1>1. TypeOK
  BY DEF Init, TypeOK, AtValues, Query, NoQuery, Asked
<1>2. Holders /\ SenderLife
  BY DEF Init, Holders, SenderLife, InObserver, InSender
<1>3. Listed /\ Told /\ Asking
  BY DEF Init, Listed, Told, Asking, NoQuery
<1>. QED
  BY <1>1, <1>2, <1>3 DEF IInv

\* Every step keeps the types.
LEMMA TypeOKStep == ASSUME TypeOK, [Next]_vars PROVE TypeOK'
<1> USE DisabledAssumption, InternalAssumption, WorkerAssumption, MaxQueriesAssumption
<1>1. ASSUME NEW p \in Participants, Create(p) PROVE TypeOK'
  BY <1>1 DEF Create, Goto, AtValues, TypeOK
<1>2. ASSUME NEW p \in Participants, Destroy(p) PROVE TypeOK'
  <2>1. \A q \in Query : Excused(p, q) \in Query
    BY DEF Query, Excused
  <2>2. queries' \in Seq(Query)
    <3>1. Len(queries) \in Nat /\ DOMAIN queries = 1..Len(queries)
      BY DEF TypeOK
    <3>2. \A i \in 1..Len(queries) : queries[i] \in Query
      BY DEF TypeOK
    <3>3. queries' \in [1..Len(queries) -> Query]
      BY <1>2, <2>1, <3>1, <3>2 DEF Destroy
    <3>. QED
      BY <3>1, <3>3, SeqDef
  <2>3. worker' \in [at : {"idle", "lock", "answer"}, query : Query, rest : SUBSET Participants]
    BY <1>2, <2>1 DEF Destroy, TypeOK
  <2>. QED
    BY <1>2, <2>2, <2>3 DEF Destroy, TypeOK, Goto, AtValues
<1>3. ASSUME NEW p \in Participants, EnterCreated(p) PROVE TypeOK'
  BY <1>3 DEF EnterCreated, Goto, AtValues, TypeOK
<1>4. ASSUME NEW p \in Participants, BuildSender(p) PROVE TypeOK'
  BY <1>4 DEF BuildSender, Goto, AtValues, TypeOK
<1>5. ASSUME NEW p \in Participants, FailToBuild(p) PROVE TypeOK'
  BY <1>5 DEF FailToBuild, Goto, AtValues, TypeOK
<1>6. ASSUME NEW p \in Participants, EnterDestroyed(p) PROVE TypeOK'
  BY <1>6 DEF EnterDestroyed, Goto, AtValues, TypeOK
<1>7. ASSUME NEW p \in Participants, DestroyInformer(p) PROVE TypeOK'
  BY <1>7 DEF DestroyInformer, Goto, AtValues, TypeOK
<1>8. ASSUME NEW p \in Participants, StopListener(p) PROVE TypeOK'
  BY <1>8 DEF StopListener, Goto, AtValues, TypeOK
<1>9. ASSUME NEW p \in Participants, JoinWorker(p) PROVE TypeOK'
  BY <1>9 DEF JoinWorker, Goto, AtValues, TypeOK
<1>10. ASSUME NEW p \in Participants, LeaveDestroyed(p) PROVE TypeOK'
  BY <1>10 DEF LeaveDestroyed, Goto, AtValues, TypeOK
<1>11. ASSUME NEW p \in Participants, AddParticipant(p) PROVE TypeOK'
  BY <1>11 DEF AddParticipant, Goto, AtValues, TypeOK
<1>12. ASSUME NEW p \in Participants, SendHello(p) PROVE TypeOK'
  BY <1>12 DEF SendHello, Goto, AtValues, TypeOK
<1>13. ASSUME NEW p \in Participants, LockToRemove(p) PROVE TypeOK'
  BY <1>13 DEF LockToRemove, Goto, AtValues, TypeOK
<1>14. ASSUME NEW p \in Participants, SendBye(p) PROVE TypeOK'
  BY <1>14 DEF SendBye, Goto, AtValues, TypeOK
<1>15. ASSUME NEW p \in Participants, RemoveUnknown(p) PROVE TypeOK'
  BY <1>15 DEF RemoveUnknown, Goto, AtValues, TypeOK
<1>16. ASSUME NEW asks \in Asked, Arrive(asks) PROVE TypeOK'
  BY <1>16 DEF Arrive, TypeOK, Query, Owes
<1>17. CASE TakeQuery
  <2>1. Head(queries) \in Query /\ Tail(queries) \in Seq(Query)
    BY <1>17, HeadTailProperties DEF TakeQuery, TypeOK
  <2>. QED
    BY <1>17, <2>1 DEF TakeQuery, TypeOK
<1>18. CASE LockQuery
  BY <1>18 DEF LockQuery, TypeOK, Answering
<1>19. CASE SendAnswer
  <2>1. \A p, q : q \in Query => Excused(p, q) \in Query
    BY DEF Query, Excused
  <2>2. PICK p \in worker.rest :
            /\ worker' = [worker EXCEPT !.query = Excused(p, @), !.rest = @ \ {p}]
            /\ directory' = IF worker.query.asks = "ping" THEN directory
                            ELSE [directory EXCEPT ![p] = "present"]
    BY <1>19 DEF SendAnswer
  <2>3. worker' \in [at : {"idle", "lock", "answer"}, query : Query, rest : SUBSET Participants]
    BY <2>1, <2>2 DEF TypeOK
  <2>4. directory' \in [Participants -> {"unknown", "present", "absent"}]
    BY <2>2 DEF TypeOK
  <2>. QED
    BY <1>19, <2>3, <2>4 DEF SendAnswer, TypeOK
<1>20. CASE FinishQuery
  BY <1>20 DEF FinishQuery, TypeOK, Query, NoQuery, Asked
<1>21. CASE UNCHANGED vars
  BY <1>21 DEF vars, TypeOK
<1>22. ASSUME NEW p \in Participants, FailHello(p) PROVE TypeOK'
  BY <1>22 DEF FailHello, Goto, AtValues, TypeOK
<1>23. ASSUME NEW p \in Participants, FailBye(p) PROVE TypeOK'
  BY <1>23 DEF FailBye, Goto, AtValues, TypeOK
<1>24. CASE FailAnswer
  BY <1>24 DEF FailAnswer, TypeOK, Query, NoQuery, Asked
<1>. QED
  BY <1>1, <1>2, <1>3, <1>4, <1>5, <1>6, <1>7, <1>8, <1>9, <1>10, <1>11, <1>12,
     <1>13, <1>14, <1>15, <1>16, <1>17, <1>18, <1>19, <1>20, <1>21,
     <1>22, <1>23, <1>24 DEF Next,
     ObserverStep, SenderStep, WorkerStep

\* The holder of a mutex is the one its position says.
LEMMA HoldersStep == ASSUME TypeOK, Holders, [Next]_vars PROVE Holders'
<1> USE DisabledAssumption, InternalAssumption, WorkerAssumption, MaxQueriesAssumption
<1>1. ASSUME NEW p \in Participants, Create(p) PROVE Holders'
  BY <1>1 DEF Create, Goto, TypeOK, Holders, InObserver, InSender
<1>2. ASSUME NEW p \in Participants, Destroy(p) PROVE Holders'
  BY <1>2 DEF Destroy, Goto, TypeOK, Holders, InObserver, InSender
<1>3. ASSUME NEW p \in Participants, EnterCreated(p) PROVE Holders'
  BY <1>3 DEF EnterCreated, Goto, TypeOK, Holders, InObserver, InSender
<1>4. ASSUME NEW p \in Participants, BuildSender(p) PROVE Holders'
  BY <1>4 DEF BuildSender, Goto, TypeOK, Holders, InObserver, InSender
<1>5. ASSUME NEW p \in Participants, FailToBuild(p) PROVE Holders'
  BY <1>5 DEF FailToBuild, Goto, TypeOK, Holders, InObserver, InSender
<1>6. ASSUME NEW p \in Participants, EnterDestroyed(p) PROVE Holders'
  BY <1>6 DEF EnterDestroyed, Goto, TypeOK, Holders, InObserver, InSender
<1>7. ASSUME NEW p \in Participants, DestroyInformer(p) PROVE Holders'
  BY <1>7 DEF DestroyInformer, Goto, TypeOK, Holders, InObserver, InSender
<1>8. ASSUME NEW p \in Participants, StopListener(p) PROVE Holders'
  BY <1>8 DEF StopListener, Goto, TypeOK, Holders, InObserver, InSender
<1>9. ASSUME NEW p \in Participants, JoinWorker(p) PROVE Holders'
  BY <1>9 DEF JoinWorker, Goto, TypeOK, Holders, InObserver, InSender
<1>10. ASSUME NEW p \in Participants, LeaveDestroyed(p) PROVE Holders'
  BY <1>10 DEF LeaveDestroyed, Goto, TypeOK, Holders, InObserver, InSender
<1>11. ASSUME NEW p \in Participants, AddParticipant(p) PROVE Holders'
  BY <1>11 DEF AddParticipant, Goto, TypeOK, Holders, InObserver, InSender
<1>12. ASSUME NEW p \in Participants, SendHello(p) PROVE Holders'
  BY <1>12 DEF SendHello, Goto, TypeOK, Holders, InObserver, InSender
<1>13. ASSUME NEW p \in Participants, LockToRemove(p) PROVE Holders'
  BY <1>13 DEF LockToRemove, Goto, TypeOK, Holders, InObserver, InSender
<1>14. ASSUME NEW p \in Participants, SendBye(p) PROVE Holders'
  BY <1>14 DEF SendBye, Goto, TypeOK, Holders, InObserver, InSender
<1>15. ASSUME NEW p \in Participants, RemoveUnknown(p) PROVE Holders'
  BY <1>15 DEF RemoveUnknown, Goto, TypeOK, Holders, InObserver, InSender
<1>16. ASSUME NEW asks \in Asked, Arrive(asks) PROVE Holders'
  BY <1>16 DEF Arrive, TypeOK, Holders, InObserver, InSender
<1>17. CASE TakeQuery
  BY <1>17 DEF TakeQuery, TypeOK, Holders, InObserver, InSender
<1>18. CASE LockQuery
  BY <1>18 DEF LockQuery, TypeOK, Holders, InObserver, InSender
<1>19. CASE SendAnswer
  BY <1>19 DEF SendAnswer, TypeOK, Holders, InObserver, InSender
<1>20. CASE FinishQuery
  BY <1>20 DEF FinishQuery, TypeOK, Holders, InObserver, InSender
<1>21. CASE UNCHANGED vars
  BY <1>21 DEF vars, TypeOK, Holders, InObserver, InSender
<1>22. ASSUME NEW p \in Participants, FailHello(p) PROVE Holders'
  BY <1>22 DEF FailHello, Goto, TypeOK, Holders, InObserver, InSender
<1>23. ASSUME NEW p \in Participants, FailBye(p) PROVE Holders'
  BY <1>23 DEF FailBye, Goto, TypeOK, Holders, InObserver, InSender
<1>24. CASE FailAnswer
  BY <1>24 DEF FailAnswer, TypeOK, Holders, InObserver, InSender
<1>. QED
  BY <1>1, <1>2, <1>3, <1>4, <1>5, <1>6, <1>7, <1>8, <1>9, <1>10, <1>11, <1>12,
     <1>13, <1>14, <1>15, <1>16, <1>17, <1>18, <1>19, <1>20, <1>21,
     <1>22, <1>23, <1>24 DEF Next,
     ObserverStep, SenderStep, WorkerStep

\* The sender is built and destroyed by the holder of senderMutex only.
LEMMA SenderLifeStep == ASSUME TypeOK, Holders, SenderLife, [Next]_vars PROVE SenderLife'
<1> USE DisabledAssumption, InternalAssumption, WorkerAssumption, MaxQueriesAssumption
<1>1. ASSUME NEW p \in Participants, Create(p) PROVE SenderLife'
  BY <1>1 DEF Create, Goto, TypeOK, SenderLife, Holders, InObserver, InSender
<1>2. ASSUME NEW p \in Participants, Destroy(p) PROVE SenderLife'
  BY <1>2 DEF Destroy, Goto, TypeOK, SenderLife, Holders, InObserver, InSender
<1>3. ASSUME NEW p \in Participants, EnterCreated(p) PROVE SenderLife'
  BY <1>3 DEF EnterCreated, Goto, TypeOK, SenderLife, Holders, InObserver, InSender
<1>4. ASSUME NEW p \in Participants, BuildSender(p) PROVE SenderLife'
  BY <1>4 DEF BuildSender, Goto, TypeOK, SenderLife, Holders, InObserver, InSender
<1>5. ASSUME NEW p \in Participants, FailToBuild(p) PROVE SenderLife'
  BY <1>5 DEF FailToBuild, Goto, TypeOK, SenderLife, Holders, InObserver, InSender
<1>6. ASSUME NEW p \in Participants, EnterDestroyed(p) PROVE SenderLife'
  BY <1>6 DEF EnterDestroyed, Goto, TypeOK, SenderLife, Holders, InObserver, InSender
<1>7. ASSUME NEW p \in Participants, DestroyInformer(p) PROVE SenderLife'
  BY <1>7 DEF DestroyInformer, Goto, TypeOK, SenderLife, Holders, InObserver, InSender
<1>8. ASSUME NEW p \in Participants, StopListener(p) PROVE SenderLife'
  BY <1>8 DEF StopListener, Goto, TypeOK, SenderLife, Holders, InObserver, InSender
<1>9. ASSUME NEW p \in Participants, JoinWorker(p) PROVE SenderLife'
  BY <1>9 DEF JoinWorker, Goto, TypeOK, SenderLife, Holders, InObserver, InSender
<1>10. ASSUME NEW p \in Participants, LeaveDestroyed(p) PROVE SenderLife'
  BY <1>10 DEF LeaveDestroyed, Goto, TypeOK, SenderLife, Holders, InObserver, InSender
<1>11. ASSUME NEW p \in Participants, AddParticipant(p) PROVE SenderLife'
  BY <1>11 DEF AddParticipant, Goto, TypeOK, SenderLife, Holders, InObserver, InSender
<1>12. ASSUME NEW p \in Participants, SendHello(p) PROVE SenderLife'
  BY <1>12 DEF SendHello, Goto, TypeOK, SenderLife, Holders, InObserver, InSender
<1>13. ASSUME NEW p \in Participants, LockToRemove(p) PROVE SenderLife'
  BY <1>13 DEF LockToRemove, Goto, TypeOK, SenderLife, Holders, InObserver, InSender
<1>14. ASSUME NEW p \in Participants, SendBye(p) PROVE SenderLife'
  BY <1>14 DEF SendBye, Goto, TypeOK, SenderLife, Holders, InObserver, InSender
<1>15. ASSUME NEW p \in Participants, RemoveUnknown(p) PROVE SenderLife'
  BY <1>15 DEF RemoveUnknown, Goto, TypeOK, SenderLife, Holders, InObserver, InSender
<1>16. ASSUME NEW asks \in Asked, Arrive(asks) PROVE SenderLife'
  BY <1>16 DEF Arrive, TypeOK, SenderLife, Holders, InObserver, InSender
<1>17. CASE TakeQuery
  BY <1>17 DEF TakeQuery, TypeOK, SenderLife, Holders, InObserver, InSender
<1>18. CASE LockQuery
  BY <1>18 DEF LockQuery, TypeOK, SenderLife, Holders, InObserver, InSender
<1>19. CASE SendAnswer
  BY <1>19 DEF SendAnswer, TypeOK, SenderLife, Holders, InObserver, InSender
<1>20. CASE FinishQuery
  BY <1>20 DEF FinishQuery, TypeOK, SenderLife, Holders, InObserver, InSender
<1>21. CASE UNCHANGED vars
  BY <1>21 DEF vars, TypeOK, SenderLife, Holders, InObserver, InSender
<1>22. ASSUME NEW p \in Participants, FailHello(p) PROVE SenderLife'
  BY <1>22 DEF FailHello, Goto, TypeOK, SenderLife, Holders, InObserver, InSender
<1>23. ASSUME NEW p \in Participants, FailBye(p) PROVE SenderLife'
  BY <1>23 DEF FailBye, Goto, TypeOK, SenderLife, Holders, InObserver, InSender
<1>24. CASE FailAnswer
  BY <1>24 DEF FailAnswer, TypeOK, SenderLife, Holders, InObserver, InSender
<1>. QED
  BY <1>1, <1>2, <1>3, <1>4, <1>5, <1>6, <1>7, <1>8, <1>9, <1>10, <1>11, <1>12,
     <1>13, <1>14, <1>15, <1>16, <1>17, <1>18, <1>19, <1>20, <1>21,
     <1>22, <1>23, <1>24 DEF Next,
     ObserverStep, SenderStep, WorkerStep

\* A participant is listed from its Hello to its Bye.
LEMMA ListedStep == ASSUME TypeOK, SenderLife, Listed, [Next]_vars PROVE Listed'
<1> USE DisabledAssumption, InternalAssumption, WorkerAssumption, MaxQueriesAssumption
<1>1. ASSUME NEW p \in Participants, Create(p) PROVE Listed'
  BY <1>1 DEF Create, Goto, TypeOK, Listed, Ignored
<1>2. ASSUME NEW p \in Participants, Destroy(p) PROVE Listed'
  BY <1>2 DEF Destroy, Goto, TypeOK, Listed, Ignored
<1>3. ASSUME NEW p \in Participants, EnterCreated(p) PROVE Listed'
  BY <1>3 DEF EnterCreated, Goto, TypeOK, Listed, Ignored
<1>4. ASSUME NEW p \in Participants, BuildSender(p) PROVE Listed'
  BY <1>4 DEF BuildSender, Goto, TypeOK, Listed, Ignored
<1>5. ASSUME NEW p \in Participants, FailToBuild(p) PROVE Listed'
  BY <1>5 DEF FailToBuild, Goto, TypeOK, Listed, Ignored
<1>6. ASSUME NEW p \in Participants, EnterDestroyed(p) PROVE Listed'
  BY <1>6 DEF EnterDestroyed, Goto, TypeOK, Listed, Ignored, SenderLife
<1>7. ASSUME NEW p \in Participants, DestroyInformer(p) PROVE Listed'
  BY <1>7 DEF DestroyInformer, Goto, TypeOK, Listed, Ignored
<1>8. ASSUME NEW p \in Participants, StopListener(p) PROVE Listed'
  BY <1>8 DEF StopListener, Goto, TypeOK, Listed, Ignored
<1>9. ASSUME NEW p \in Participants, JoinWorker(p) PROVE Listed'
  BY <1>9 DEF JoinWorker, Goto, TypeOK, Listed, Ignored
<1>10. ASSUME NEW p \in Participants, LeaveDestroyed(p) PROVE Listed'
  BY <1>10 DEF LeaveDestroyed, Goto, TypeOK, Listed, Ignored
<1>11. ASSUME NEW p \in Participants, AddParticipant(p) PROVE Listed'
  BY <1>11 DEF AddParticipant, Goto, TypeOK, Listed, Ignored
<1>12. ASSUME NEW p \in Participants, SendHello(p) PROVE Listed'
  BY <1>12 DEF SendHello, Goto, TypeOK, Listed, Ignored
<1>13. ASSUME NEW p \in Participants, LockToRemove(p) PROVE Listed'
  BY <1>13 DEF LockToRemove, Goto, TypeOK, Listed, Ignored
<1>14. ASSUME NEW p \in Participants, SendBye(p) PROVE Listed'
  BY <1>14 DEF SendBye, Goto, TypeOK, Listed, Ignored
<1>15. ASSUME NEW p \in Participants, RemoveUnknown(p) PROVE Listed'
  BY <1>15 DEF RemoveUnknown, Goto, TypeOK, Listed, Ignored
<1>16. ASSUME NEW asks \in Asked, Arrive(asks) PROVE Listed'
  BY <1>16 DEF Arrive, TypeOK, Listed, Ignored
<1>17. CASE TakeQuery
  BY <1>17 DEF TakeQuery, TypeOK, Listed, Ignored
<1>18. CASE LockQuery
  BY <1>18 DEF LockQuery, TypeOK, Listed, Ignored
<1>19. CASE SendAnswer
  BY <1>19 DEF SendAnswer, TypeOK, Listed, Ignored
<1>20. CASE FinishQuery
  BY <1>20 DEF FinishQuery, TypeOK, Listed, Ignored
<1>21. CASE UNCHANGED vars
  BY <1>21 DEF vars, TypeOK, Listed, Ignored
<1>22. ASSUME NEW p \in Participants, FailHello(p) PROVE Listed'
  BY <1>22 DEF FailHello, Goto, TypeOK, Listed, Ignored
<1>23. ASSUME NEW p \in Participants, FailBye(p) PROVE Listed'
  BY <1>23 DEF FailBye, Goto, TypeOK, Listed, Ignored
<1>24. CASE FailAnswer
  BY <1>24 DEF FailAnswer, TypeOK, Listed, Ignored
<1>. QED
  BY <1>1, <1>2, <1>3, <1>4, <1>5, <1>6, <1>7, <1>8, <1>9, <1>10, <1>11, <1>12,
     <1>13, <1>14, <1>15, <1>16, <1>17, <1>18, <1>19, <1>20, <1>21,
     <1>22, <1>23, <1>24 DEF Next,
     ObserverStep, SenderStep, WorkerStep

\* Only listed participants are announced, also by an answer.
LEMMA ToldStep == ASSUME TypeOK, Holders, Listed, Told, Asking, [Next]_vars PROVE Told'
<1> USE DisabledAssumption, InternalAssumption, WorkerAssumption, MaxQueriesAssumption
<1>1. ASSUME NEW p \in Participants, Create(p) PROVE Told'
  BY <1>1 DEF Create, Goto, TypeOK, Listed, Told, Ignored
<1>2. ASSUME NEW p \in Participants, Destroy(p) PROVE Told'
  BY <1>2 DEF Destroy, Goto, TypeOK, Listed, Told, Ignored
<1>3. ASSUME NEW p \in Participants, EnterCreated(p) PROVE Told'
  BY <1>3 DEF EnterCreated, Goto, TypeOK, Listed, Told, Ignored
<1>4. ASSUME NEW p \in Participants, BuildSender(p) PROVE Told'
  BY <1>4 DEF BuildSender, Goto, TypeOK, Listed, Told, Ignored
<1>5. ASSUME NEW p \in Participants, FailToBuild(p) PROVE Told'
  BY <1>5 DEF FailToBuild, Goto, TypeOK, Listed, Told, Ignored
<1>6. ASSUME NEW p \in Participants, EnterDestroyed(p) PROVE Told'
  BY <1>6 DEF EnterDestroyed, Goto, TypeOK, Listed, Told, Ignored
<1>7. ASSUME NEW p \in Participants, DestroyInformer(p) PROVE Told'
  BY <1>7 DEF DestroyInformer, Goto, TypeOK, Listed, Told, Ignored
<1>8. ASSUME NEW p \in Participants, StopListener(p) PROVE Told'
  BY <1>8 DEF StopListener, Goto, TypeOK, Listed, Told, Ignored
<1>9. ASSUME NEW p \in Participants, JoinWorker(p) PROVE Told'
  BY <1>9 DEF JoinWorker, Goto, TypeOK, Listed, Told, Ignored
<1>10. ASSUME NEW p \in Participants, LeaveDestroyed(p) PROVE Told'
  BY <1>10 DEF LeaveDestroyed, Goto, TypeOK, Listed, Told, Ignored
<1>11. ASSUME NEW p \in Participants, AddParticipant(p) PROVE Told'
  BY <1>11 DEF AddParticipant, Goto, TypeOK, Listed, Told, Ignored
<1>12. ASSUME NEW p \in Participants, SendHello(p) PROVE Told'
  BY <1>12 DEF SendHello, Goto, TypeOK, Listed, Told, Ignored
<1>13. ASSUME NEW p \in Participants, LockToRemove(p) PROVE Told'
  BY <1>13 DEF LockToRemove, Goto, TypeOK, Listed, Told, Ignored
<1>14. ASSUME NEW p \in Participants, SendBye(p) PROVE Told'
  BY <1>14 DEF SendBye, Goto, TypeOK, Listed, Told, Ignored, Holders, InObserver,
     InSender
<1>15. ASSUME NEW p \in Participants, RemoveUnknown(p) PROVE Told'
  BY <1>15 DEF RemoveUnknown, Goto, TypeOK, Listed, Told, Ignored
<1>16. ASSUME NEW asks \in Asked, Arrive(asks) PROVE Told'
  BY <1>16 DEF Arrive, TypeOK, Listed, Told, Ignored
<1>17. CASE TakeQuery
  BY <1>17 DEF TakeQuery, TypeOK, Listed, Told, Ignored
<1>18. CASE LockQuery
  BY <1>18 DEF LockQuery, TypeOK, Listed, Told, Ignored
<1>19. CASE SendAnswer
  BY <1>19 DEF SendAnswer, TypeOK, Listed, Told, Ignored, Asking, Holders,
     InObserver, InSender
<1>20. CASE FinishQuery
  BY <1>20 DEF FinishQuery, TypeOK, Listed, Told, Ignored
<1>21. CASE UNCHANGED vars
  BY <1>21 DEF vars, TypeOK, Listed, Told, Ignored
<1>22. ASSUME NEW p \in Participants, FailHello(p) PROVE Told'
  BY <1>22 DEF FailHello, Goto, TypeOK, Listed, Told, Ignored, Holders, InObserver, InSender
<1>23. ASSUME NEW p \in Participants, FailBye(p) PROVE Told'
  BY <1>23 DEF FailBye, Goto, TypeOK, Listed, Told, Ignored, Holders, InObserver, InSender
<1>24. CASE FailAnswer
  BY <1>24 DEF FailAnswer, TypeOK, Listed, Told, Ignored, Asking, Holders,
     InObserver, InSender
<1>. QED
  BY <1>1, <1>2, <1>3, <1>4, <1>5, <1>6, <1>7, <1>8, <1>9, <1>10, <1>11, <1>12,
     <1>13, <1>14, <1>15, <1>16, <1>17, <1>18, <1>19, <1>20, <1>21,
     <1>22, <1>23, <1>24 DEF Next,
     ObserverStep, SenderStep, WorkerStep

\* The worker's list stays within the sender's, which it has locked.
LEMMA AskingStep == ASSUME TypeOK, Holders, SenderLife, Listed, Asking, [Next]_vars PROVE Asking'
<1> USE DisabledAssumption, InternalAssumption, WorkerAssumption, MaxQueriesAssumption
<1>1. ASSUME NEW p \in Participants, Create(p) PROVE Asking'
  BY <1>1 DEF Create, Goto, TypeOK, Asking, Owes, AsksFor, Ignored, Listed
<1>2. ASSUME NEW p \in Participants, Destroy(p) PROVE Asking'
  <2>1. /\ at' = [at EXCEPT ![p] = IF Ignored(p) THEN "gone" ELSE "destroyed"]
        /\ UNCHANGED participants
    BY <1>2 DEF Destroy, Goto
  <2> DEFINE Due(q, x) == at'[x] = "live" /\ ~Ignored(x) /\ AsksFor(q.asks, x)
  <2>2. \A q \in Query : (\A x \in q.owed : Owes(q.asks, x))
                           => \A x \in Excused(p, q).owed : Due(Excused(p, q), x)
    BY <2>1 DEF Query, Excused, Owes, AsksFor, Ignored, TypeOK
  <2>3. \A q \in Query : Excused(p, q).owed \subseteq q.owed
    BY DEF Query, Excused
  <2>4. /\ worker'.at = worker.at /\ worker'.rest = worker.rest
        /\ worker'.query = Excused(p, worker.query)
    BY <1>2 DEF Destroy, TypeOK
  <2>5. /\ DOMAIN queries' = DOMAIN queries
        /\ \A i \in DOMAIN queries : queries'[i] = Excused(p, queries[i])
    BY <1>2 DEF Destroy
  <2>6. worker.query \in Query /\ \A i \in DOMAIN queries : queries[i] \in Query
    BY DEF TypeOK
  <2>7. \A x \in worker'.query.owed : Due(worker'.query, x)
    BY <2>2, <2>4, <2>6 DEF Asking
  <2>8. \A i \in DOMAIN queries' : \A x \in queries'[i].owed : Due(queries'[i], x)
    BY <2>2, <2>5, <2>6 DEF Asking
  <2>. QED
    BY <2>1, <2>3, <2>4, <2>6, <2>7, <2>8 DEF Asking, Owes, AsksFor, Ignored
<1>3. ASSUME NEW p \in Participants, EnterCreated(p) PROVE Asking'
  BY <1>3 DEF EnterCreated, Goto, TypeOK, Asking, Owes, AsksFor, Ignored
<1>4. ASSUME NEW p \in Participants, BuildSender(p) PROVE Asking'
  BY <1>4 DEF BuildSender, Goto, TypeOK, Asking, Owes, AsksFor, Ignored
<1>5. ASSUME NEW p \in Participants, FailToBuild(p) PROVE Asking'
  BY <1>5 DEF FailToBuild, Goto, TypeOK, Asking, Owes, AsksFor, Ignored
<1>6. ASSUME NEW p \in Participants, EnterDestroyed(p) PROVE Asking'
  <2>1. /\ at[p] = "destroyed"
        /\ \A x \in Participants \ {p} : at'[x] = at[x]
        /\ UNCHANGED <<participants, worker, queries>>
    BY <1>6 DEF EnterDestroyed, Goto, TypeOK
  <2>2. \A x \in Participants, asks \in Asked : Owes(asks, x) => Owes(asks, x)'
    BY <2>1 DEF Owes, AsksFor, Ignored
  <2>3. /\ worker.query \in Query
        /\ \A i \in DOMAIN queries : queries[i] \in Query
    BY DEF TypeOK
  <2>4. \A q \in Query : q.asks \in Asked /\ q.owed \subseteq Participants
    BY DEF Query
  <2>. QED
    BY <2>1, <2>2, <2>3, <2>4 DEF Asking
<1>7. ASSUME NEW p \in Participants, DestroyInformer(p) PROVE Asking'
  BY <1>7 DEF DestroyInformer, Goto, TypeOK, Asking, Owes, AsksFor, Ignored
<1>8. ASSUME NEW p \in Participants, StopListener(p) PROVE Asking'
  BY <1>8 DEF StopListener, Goto, TypeOK, Asking, Owes, AsksFor, Ignored
<1>9. ASSUME NEW p \in Participants, JoinWorker(p) PROVE Asking'
  BY <1>9 DEF JoinWorker, Goto, TypeOK, Asking, Owes, AsksFor, Ignored, SenderLife
<1>10. ASSUME NEW p \in Participants, LeaveDestroyed(p) PROVE Asking'
  BY <1>10 DEF LeaveDestroyed, Goto, TypeOK, Asking, Owes, AsksFor, Ignored
<1>11. ASSUME NEW p \in Participants, AddParticipant(p) PROVE Asking'
  BY <1>11 DEF AddParticipant, Goto, TypeOK, Asking, Owes, AsksFor, Ignored,
     Holders, InObserver, InSender
<1>12. ASSUME NEW p \in Participants, SendHello(p) PROVE Asking'
  BY <1>12 DEF SendHello, Goto, TypeOK, Asking, Owes, AsksFor, Ignored
<1>13. ASSUME NEW p \in Participants, LockToRemove(p) PROVE Asking'
  BY <1>13 DEF LockToRemove, Goto, TypeOK, Asking, Owes, AsksFor, Ignored
<1>14. ASSUME NEW p \in Participants, SendBye(p) PROVE Asking'
  BY <1>14 DEF SendBye, Goto, TypeOK, Asking, Owes, AsksFor, Ignored, Holders,
     InObserver, InSender
<1>15. ASSUME NEW p \in Participants, RemoveUnknown(p) PROVE Asking'
  BY <1>15 DEF RemoveUnknown, Goto, TypeOK, Asking, Owes, AsksFor, Ignored
<1>16. ASSUME NEW asks \in Asked, Arrive(asks) PROVE Asking'
  BY <1>16 DEF Arrive, TypeOK, Asking, Owes, AsksFor, Ignored, Query
<1>17. CASE TakeQuery
  <2>1. /\ \A i \in DOMAIN queries : \A p \in queries[i].owed : Owes(queries[i].asks, p)
        /\ queries \in Seq(Query) /\ queries # <<>>
    BY <1>17 DEF TakeQuery, Asking, TypeOK
  <2>2. \A p \in Head(queries).owed : Owes(Head(queries).asks, p)
    BY <2>1
  <2>3. \A i \in DOMAIN Tail(queries) : \A p \in Tail(queries)[i].owed : Owes(Tail(queries)[i].asks, p)
    BY <2>1, HeadTailProperties
  <2>. QED
    BY <1>17, <2>2, <2>3 DEF TakeQuery, Asking, TypeOK, Owes, AsksFor, Ignored
<1>18. CASE LockQuery
  BY <1>18 DEF LockQuery, TypeOK, Asking, Owes, AsksFor, Ignored, Listed, Answering,
     Asked, Query
<1>19. CASE SendAnswer
  BY <1>19 DEF SendAnswer, TypeOK, Asking, Owes, AsksFor, Ignored, Excused, Query
<1>20. CASE FinishQuery
  BY <1>20 DEF FinishQuery, TypeOK, Asking, Owes, AsksFor, Ignored, Query, NoQuery
<1>21. CASE UNCHANGED vars
  BY <1>21 DEF vars, TypeOK, Asking, Owes, AsksFor, Ignored
<1>22. ASSUME NEW p \in Participants, FailHello(p) PROVE Asking'
  BY <1>22 DEF FailHello, Goto, TypeOK, Asking, Owes, AsksFor, Ignored, Holders,
     InObserver, InSender
<1>23. ASSUME NEW p \in Participants, FailBye(p) PROVE Asking'
  BY <1>23 DEF FailBye, Goto, TypeOK, Asking, Owes, AsksFor, Ignored, Holders, InObserver, InSender
<1>24. CASE FailAnswer
  BY <1>24 DEF FailAnswer, TypeOK, Asking, Owes, AsksFor, Ignored, Query, NoQuery
<1>. QED
  BY <1>1, <1>2, <1>3, <1>4, <1>5, <1>6, <1>7, <1>8, <1>9, <1>10, <1>11, <1>12,
     <1>13, <1>14, <1>15, <1>16, <1>17, <1>18, <1>19, <1>20, <1>21,
     <1>22, <1>23, <1>24 DEF Next,
     ObserverStep, SenderStep, WorkerStep

LEMMA Invariance == Spec => []IInv
<1>1. Init => IInv
  BY InitIInv
<1>2. IInv /\ [Next]_vars => IInv'
  BY TypeOKStep, HoldersStep, SenderLifeStep, ListedStep, ToldStep, AskingStep DEF IInv
<1>. QED
  BY <1>1, <1>2, PTL DEF Spec

-----------------------------------------------------------------------------
\* The variables of the observer, the sender and the worker keep their types
\* (Plugin.cpp, IntrospectionSender.cpp).
THEOREM TypeCorrect == Spec => []TypeOK
  BY Invariance, PTL DEF IInv

\* Whatever the number of participants, threads and queries, a live participant
\* is known to a process that has followed the messages (Plugin.cpp,
\* handleParticipantCreated).
THEOREM KnownWhileLive == Spec => []LiveIsKnown
<1>1. IInv => LiveIsKnown
  BY DEF IInv, Listed, Told, LiveIsKnown
<1>. QED
  BY <1>1, Invariance, PTL

\* No answer to a query uses the informer of a sender that is being destroyed
\* (IntrospectionSender.cpp, handleSurvey; Plugin.cpp, sender.reset()).
THEOREM InformerLives == Spec => []InformerOutlivesAnswers
<1>1. IInv => InformerOutlivesAnswers
  BY DEF IInv, TypeOK, SenderLife, Asking, InformerOutlivesAnswers
<1>. QED
  BY <1>1, Invariance, PTL

\* No query misses a participant that lived from its arrival till it was
\* answered or dropped (IntrospectionSender.cpp, handleSurvey).
THEOREM AllAnswered == Spec => []NobodyMissed
<1>1. IInv => NobodyMissed
  <2> SUFFICES ASSUME IInv PROVE NobodyMissed
    OBVIOUS
  <2>1. worker.at = "answer" /\ worker.rest = {} => worker.query.owed = {}
    BY DEF IInv, Asking
  <2>2. ASSUME sender \in {"mute", "stopping"}, NEW i \in DOMAIN queries
        PROVE queries[i].owed = {}
    <3>1. participants = {}
      BY <2>2 DEF IInv, SenderLife
    <3>2. queries[i].owed \subseteq Participants
      <4>1. queries[i] \in Query
        BY DEF IInv, TypeOK
      <4>. QED
        BY <4>1 DEF Query
    <3>3. \A p \in queries[i].owed : p \in participants
      BY <2>2, <3>2 DEF IInv, Asking, Listed, Owes
    <3>. QED
      BY <3>1, <3>3
  <2>. QED
    BY <2>1, <2>2 DEF NobodyMissed
<1>. QED
  BY <1>1, Invariance, PTL

\* Whoever follows the messages or asks learns of every live participant
\* (IntrospectionSender.cpp, addParticipant, handleSurvey).
THEOREM AllAreTold == Spec => []EveryoneIsTold
<1>. QED
  BY KnownWhileLive, AllAnswered, PTL DEF EveryoneIsTold

-----------------------------------------------------------------------------
\* The steps that neither begin nor end a life and send no message
LEMMA Silent ==
    ASSUME NEW p \in Participants, NEW step, at' = [at EXCEPT ![p] = step],
           TypeOK, at[p] \notin {"idle", "gone"}, step \notin {"idle", "gone"},
           UNCHANGED <<participants, directory>> \/ (AddParticipant(p) /\ UNCHANGED directory)
    PROVE  UNCHANGED Directory!vars
<1>1. \A x \in Participants : /\ at'[x] \notin {"idle", "gone"} <=> at[x] \notin {"idle", "gone"}
                              /\ at'[x] = "gone" <=> at[x] = "gone"
  BY DEF TypeOK
<1>2. Leftover' = Leftover
  <2>1. at'[p] # "gone" /\ participants \subseteq Participants
    BY DEF TypeOK
  <2>2. participants' \in {participants, participants \cup {p}}
    BY DEF AddParticipant
  <2>3. \A x : x \in Leftover' <=> x \in Leftover
    BY <1>1, <2>1, <2>2 DEF Leftover
  <2>. QED
    BY <2>3
<1>. QED
  BY <1>1, <1>2 DEF Directory!vars

\* The worker holds the sender's mutex, so that those it answers for are not
\* between their entry and their Hello, and a Bye about them was not sent or has
\* failed.
LEMMA AnsweringShows ==
    ASSUME IInv, worker.at = "answer", NEW p \in worker.rest, UNCHANGED <<at, participants>>,
           NEW known \in {directory[p], "present"},
           directory' = [directory EXCEPT ![p] = known]
    PROVE  [Directory!Next]_(Directory!vars)
<1>1. p \in Participants /\ p \in participants
  BY DEF IInv, TypeOK, Asking
<1>2. UNCHANGED Leftover
  BY DEF Leftover
<1>3. CASE known = directory[p]
  <2>1. directory' = directory
    BY <1>1, <1>3 DEF IInv, TypeOK
  <2>. QED
    BY <1>2, <2>1 DEF Directory!vars
<1>4. CASE known = "present" /\ at[p] = "gone"
  BY <1>1, <1>2, <1>4 DEF Leftover, Directory!Next, Directory!Haunt
<1>5. CASE known = "present" /\ at[p] # "gone" /\ directory[p] # known
  <2>1. directory[p] = "unknown" /\ at[p] \notin {"idle", "gone"}
    BY <1>1, <1>5 DEF IInv, TypeOK, Told, Listed
  <2>. QED
    BY <1>1, <1>2, <1>5, <2>1 DEF Directory!Next, Directory!Appear
<1>. QED
  BY <1>3, <1>4, <1>5

\* Every step is one of the directory's, or does not show.
LEMMA StepRefines ==
    ASSUME IInv, [Next]_vars PROVE [Directory!Next]_(Directory!vars)
<1> DEFINE Alive == {p \in Participants : at[p] \notin {"idle", "gone"}}
<1>1. ASSUME NEW p \in Participants, Create(p) PROVE [Directory!Next]_(Directory!vars)
  <2>1. /\ Alive' = Alive \cup {p} /\ directory[p] = "unknown"
        /\ UNCHANGED <<Leftover, directory>>
    BY <1>1 DEF Create, IInv, TypeOK, Told, Listed, Goto, Leftover
  <2>. QED
    BY <2>1 DEF Directory!Next, Directory!Start
<1>2. ASSUME NEW p \in Participants, Destroy(p) PROVE [Directory!Next]_(Directory!vars)
  <2>1. CASE Ignored(p)
    <3>1. Alive' = Alive \ {p} /\ directory[p] # "present" /\ UNCHANGED <<Leftover, directory>>
      BY <1>2, <2>1 DEF Destroy, IInv, TypeOK, Told, Listed, SenderLife, Goto, Leftover
    <3>. QED
      BY <3>1 DEF Directory!Next, Directory!End
  <2>2. CASE ~(Ignored(p))
    <3>1. /\ at' = [at EXCEPT ![p] = "destroyed"] /\ at[p] = "live"
          /\ UNCHANGED <<participants, directory>> /\ TypeOK
      BY <1>2, <2>2 DEF Destroy, Goto, IInv
    <3>2. at[p] \notin {"idle", "gone"} /\ "destroyed" \notin {"idle", "gone"}
      BY <3>1
    <3>. QED
      BY <3>1, <3>2, Silent
  <2>. QED
    BY <2>1, <2>2
<1>3. ASSUME NEW p \in Participants, EnterCreated(p) PROVE [Directory!Next]_(Directory!vars)
  <2>1. PICK step \in {"build", "add"} : at' = [at EXCEPT ![p] = step]
    BY <1>3 DEF EnterCreated, Goto
  <2>2. /\ at[p] \notin {"idle", "gone"} /\ step \notin {"idle", "gone"}
        /\ UNCHANGED <<participants, directory>> /\ TypeOK
    BY <1>3 DEF EnterCreated, IInv
  <2>. QED
    BY <2>1, <2>2, Silent
<1>4. ASSUME NEW p \in Participants, BuildSender(p) PROVE [Directory!Next]_(Directory!vars)
  BY <1>4, Silent DEF BuildSender, Goto, IInv
<1>5. ASSUME NEW p \in Participants, FailToBuild(p) PROVE [Directory!Next]_(Directory!vars)
  BY <1>5, Silent DEF FailToBuild, Goto, IInv
<1>6. ASSUME NEW p \in Participants, EnterDestroyed(p) PROVE [Directory!Next]_(Directory!vars)
  <2>1. CASE sender = "none"
    <3>1. Alive' = Alive \ {p} /\ directory[p] # "present" /\ UNCHANGED <<Leftover, directory>>
      BY <1>6, <2>1 DEF EnterDestroyed, IInv, TypeOK, Told, Listed, SenderLife, Goto, Leftover
    <3>. QED
      BY <3>1 DEF Directory!Next, Directory!End
  <2>2. CASE ~(sender = "none")
    BY <1>6, <2>2, Silent DEF EnterDestroyed, Goto, IInv
  <2>. QED
    BY <2>1, <2>2
<1>7. ASSUME NEW p \in Participants, DestroyInformer(p) PROVE [Directory!Next]_(Directory!vars)
  BY <1>7, Silent DEF DestroyInformer, Goto, IInv
<1>8. ASSUME NEW p \in Participants, StopListener(p) PROVE [Directory!Next]_(Directory!vars)
  BY <1>8, Silent DEF StopListener, Goto, IInv
<1>9. ASSUME NEW p \in Participants, JoinWorker(p) PROVE [Directory!Next]_(Directory!vars)
  BY <1>9, Silent DEF JoinWorker, Goto, IInv
<1>10. ASSUME NEW p \in Participants, LeaveDestroyed(p) PROVE [Directory!Next]_(Directory!vars)
  <2>1. Alive' = Alive \ {p} /\ directory[p] # "present" /\ UNCHANGED <<Leftover, directory>>
    BY <1>10 DEF LeaveDestroyed, IInv, TypeOK, Told, Listed, SenderLife, Goto, Leftover
  <2>. QED
    BY <2>1 DEF Directory!Next, Directory!End
<1>11. ASSUME NEW p \in Participants, AddParticipant(p) PROVE [Directory!Next]_(Directory!vars)
  BY <1>11, Silent DEF AddParticipant, Goto, IInv
<1>12. ASSUME NEW p \in Participants, SendHello(p) PROVE [Directory!Next]_(Directory!vars)
  <2>1. /\ Alive' = Alive /\ p \in Alive /\ directory[p] = "unknown"
        /\ directory' = [directory EXCEPT ![p] = "present"] /\ UNCHANGED Leftover
    BY <1>12 DEF SendHello, IInv, TypeOK, Told, Listed, Goto, Leftover
  <2>. QED
    BY <2>1 DEF Directory!Next, Directory!Appear
<1>13. ASSUME NEW p \in Participants, LockToRemove(p) PROVE [Directory!Next]_(Directory!vars)
  BY <1>13, Silent DEF LockToRemove, Goto, IInv
<1>14. ASSUME NEW p \in Participants, SendBye(p) PROVE [Directory!Next]_(Directory!vars)
  <2>1. /\ Alive' = Alive /\ p \in Alive /\ directory[p] # "absent"
        /\ directory' = [directory EXCEPT ![p] = "absent"] /\ UNCHANGED Leftover
    BY <1>14 DEF SendBye, IInv, TypeOK, Told, Listed, Goto, Leftover
  <2>. QED
    BY <2>1 DEF Directory!Next, Directory!Vanish
<1>15. ASSUME NEW p \in Participants, RemoveUnknown(p) PROVE [Directory!Next]_(Directory!vars)
  BY <1>15, Silent DEF RemoveUnknown, Goto, IInv
<1>16. CASE SendAnswer \/ FailAnswer
  <2>1. PICK p \in worker.rest : \E known \in {directory[p], "present"} :
            directory' = [directory EXCEPT ![p] = known]
    <3>1. CASE SendAnswer
      <4>1. PICK p \in worker.rest :
                directory' = IF worker.query.asks = "ping" THEN directory
                             ELSE [directory EXCEPT ![p] = "present"]
        BY <3>1 DEF SendAnswer
      <4>2. directory = [directory EXCEPT ![p] = directory[p]]
        BY DEF IInv, TypeOK
      <4>. QED
        BY <4>1, <4>2
    <3>2. CASE FailAnswer
      BY <3>2 DEF FailAnswer
    <3>. QED
      BY <1>16, <3>1, <3>2
  <2>2. worker.at = "answer" /\ UNCHANGED <<at, participants>>
    BY <1>16 DEF SendAnswer, FailAnswer
  <2>. QED
    BY <2>1, <2>2, AnsweringShows
<1>17. CASE (\E asks \in Asked : Arrive(asks)) \/ TakeQuery \/ LockQuery \/ FinishQuery \/ UNCHANGED vars
  BY <1>17 DEF Arrive, TakeQuery, LockQuery, FinishQuery, vars, Leftover, Directory!vars
<1>18. ASSUME NEW p \in Participants, FailHello(p) PROVE [Directory!Next]_(Directory!vars)
  <2>1. /\ Alive' = Alive /\ p \in Alive /\ directory[p] = "unknown" /\ UNCHANGED Leftover
    BY <1>18 DEF FailHello, IInv, TypeOK, Told, Goto, Leftover
  <2>2. directory' \in {directory, [directory EXCEPT ![p] = "present"]}
    BY <1>18 DEF FailHello, IInv, TypeOK
  <2>. QED
    BY <2>1, <2>2 DEF Directory!Next, Directory!Appear, Directory!vars
<1>19. ASSUME NEW p \in Participants, FailBye(p) PROVE [Directory!Next]_(Directory!vars)
  <2>1. /\ Alive' = Alive \ {p} /\ p \in Alive /\ Leftover' = Leftover \cup {p}
    BY <1>19 DEF FailBye, IInv, TypeOK, Goto, Leftover
  <2>2. /\ directory[p] = "present"
        /\ \E k \in {"present", "absent"} : directory' = [directory EXCEPT ![p] = k]
    BY <1>19 DEF FailBye, IInv, Told
  <2>. QED
    BY <2>1, <2>2 DEF Directory!Next, Directory!LeaveUnsaid
<1>. QED
  BY <1>1, <1>2, <1>3, <1>4, <1>5, <1>6, <1>7, <1>8, <1>9, <1>10, <1>11, <1>12,
     <1>13, <1>14, <1>15, <1>16, <1>17, <1>18, <1>19 DEF Next, ObserverStep, SenderStep,
     WorkerStep

\* Seen by a process that follows the messages, the participants behave as
\* ParticipantDirectory says: a Bye is the last message about a participant,
\* whatever queries are being answered and whichever messages fail, except for
\* those whose Bye has failed (IntrospectionSender.cpp, removeParticipant).
THEOREM Implements == Spec => DirectorySpec
<1>1. Init => Directory!Init
  BY DEF Init, Leftover, Directory!Init
<1>2. IInv /\ IInv' /\ [Next]_vars => [Directory!Next]_(Directory!vars)
  BY StepRefines
<1>. QED
  BY <1>1, <1>2, Invariance, PTL DEF Spec, DirectorySpec, Directory!Spec
==============================================================================
