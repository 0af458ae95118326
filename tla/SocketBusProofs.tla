---------------------------- MODULE SocketBusProofs ----------------------------
(***************************************************************************)
(* Proofs about what a bus of the socket transport does in its own process: *)
(* the accept loop of its server (BusServer), for any clients and both      *)
(* settings of its option, and the routing to its connectors (SocketSinks), *)
(* for any connectors and scopes, any of them dropped while active.         *)
(***************************************************************************)
EXTENDS BusServer, SocketSinks, TLAPS, FiniteSetTheorems

(***************************************************************************)
(*                             The accept loop                             *)
(***************************************************************************)

\* The accept operation and the io thread are one token that moves round.
LoopEnded == accept = "none" /\ io = "poll" /\ ~shutdown

(***************************************************************************)
(* The token argument.  While the server is up the token (an outstanding    *)
(* accept, or a handler past its test) exists.  From shutdown = true on,   *)
(* only the handler that takes the token out of the loop resets the flag,  *)
(* so a flag found FALSE by the owner means that the token is gone.        *)
(***************************************************************************)
LoopInv ==
    /\ accept \in {"none", "pending", "connected", "aborted", "failed"}
    /\ io \in IoAt
    /\ owner \in OwnerAt
    /\ shutdown \in BOOLEAN
    /\ io # "poll" => accept = "none"
    /\ accepted # {} => accept = "connected"
    /\ io = "clear" => shutdown
    /\ owner = "idle" => LoopEnded
    /\ owner = "up" => ~shutdown /\ (accept # "none" \/ io \in {"test", "rearm", "thrown"})
    /\ owner \in {"cancel", "spin"} => shutdown \/ LoopEnded
    /\ owner \in {"drain", "wait", "gone"} => LoopEnded

LEMMA LoopInit == Init => LoopInv
BY DEF Init, LoopInv, LoopEnded, OwnerAt, IoAt

LEMMA LoopNext == LoopInv /\ [Next]_vars => LoopInv'
<1> SUFFICES ASSUME LoopInv, [Next]_vars PROVE LoopInv'
  OBVIOUS
<1> USE DEF LoopInv, LoopEnded, OwnerAt, IoAt
<1>1. CASE Activate
  BY <1>1 DEF Activate
<1>2. CASE RequestShutdown
  BY <1>2 DEF RequestShutdown
<1>3. CASE CancelAccept
  BY <1>3 DEF CancelAccept
<1>4. CASE LeaveSpin
  BY <1>4 DEF LeaveSpin
<1>5. CASE Drain
  BY <1>5 DEF Drain, Finish
<1>6. CASE Wakeup
  BY <1>6 DEF Wakeup, Finish
<1>7. CASE HandleAccept
  BY <1>7 DEF HandleAccept
<1>16. CASE ThrowOutOfAccept
  BY <1>16 DEF ThrowOutOfAccept
<1>8. CASE TestShutdown
  BY <1>8 DEF TestShutdown
<1>9. CASE AcceptAgain
  BY <1>9 DEF AcceptAgain
<1>10. CASE AcknowledgeShutdown
  BY <1>10 DEF AcknowledgeShutdown
<1>11. ASSUME NEW c \in Clients, RemoveConnection(c) PROVE LoopInv'
  BY <1>11 DEF RemoveConnection
<1>12. ASSUME NEW c \in Clients, Connect(c) \/ Disconnect(c) PROVE LoopInv'
  BY <1>12 DEF Connect, Disconnect
<1>13. ASSUME NEW c \in Clients, CompleteAccept(c) PROVE LoopInv'
  BY <1>13 DEF CompleteAccept
<1>14. CASE FailAccept
  BY <1>14 DEF FailAccept
<1>15. CASE UNCHANGED vars
  BY <1>15 DEF vars
<1> QED
  BY <1>1, <1>2, <1>3, <1>4, <1>5, <1>6, <1>7, <1>8, <1>9, <1>10, <1>11,
     <1>12, <1>13, <1>14, <1>15, <1>16 DEF Next, OwnerNext, IoNext

\* An owner past the busy-wait never meets a handler of the accept loop again.
THEOREM LoopEnds == Spec => []LoopEndedBeforeDrain
<1>1. LoopInv => LoopEndedBeforeDrain
  BY DEF LoopInv, LoopEnded, LoopEndedBeforeDrain
<1> QED
  BY <1>1, LoopInit, LoopNext, PTL DEF Spec

\* No failed accept and no number of connections ends the accept loop of a
\* server that is up; only a client that has reset its connection already does,
\* with the process (BusServerImpl.cpp:119).
THEOREM LoopStaysAlive == Spec => []AcceptLoopAlive
<1>1. LoopInv => AcceptLoopAlive
  BY DEF LoopInv, AcceptLoopAlive, Terminated
<1> QED
  BY <1>1, LoopInit, LoopNext, PTL DEF Spec

\* The connections deactivate() waits for can only become fewer.
THEOREM NoLateArrival == Spec => NoLateConnection
<1> DEFINE Step == (owner \in {"drain", "wait", "gone"})
                       => (connections' \subseteq connections)
<1>1. LoopInv /\ [Next]_vars => [Step]_vars
  <2> SUFFICES ASSUME LoopInv, Next, owner \in {"drain", "wait", "gone"}
               PROVE  connections' \subseteq connections
    OBVIOUS
  <2>1. ~HandleAccept
    BY DEF HandleAccept, LoopInv, LoopEnded
  <2> QED
    BY <2>1 DEF Next, OwnerNext, IoNext, Activate, RequestShutdown, CancelAccept,
       LeaveSpin, Drain, Wakeup, Finish, ThrowOutOfAccept, TestShutdown, AcceptAgain,
       AcknowledgeShutdown, RemoveConnection, Connect, Disconnect,
       CompleteAccept, FailAccept
<1> QED
  BY <1>1, LoopInit, LoopNext, PTL DEF Spec, NoLateConnection

(***************************************************************************)
(* With "wait" the owner returns from an empty list, and the list stays so. *)
(***************************************************************************)
DrainInv == LoopInv /\ DrainedWhenReturned

LEMMA DrainNext == DrainInv /\ [Next]_vars => DrainInv'
<1> SUFFICES ASSUME DrainInv, [Next]_vars, WaitForClientDisconnects, Returned'
             PROVE  connections' = {}
  BY LoopNext DEF DrainInv, DrainedWhenReturned
<1>0. LoopInv
  BY DEF DrainInv
<1>1. CASE Drain \/ Wakeup
  BY <1>1 DEF Drain, Wakeup, Finish, Returned
<1>2. CASE Next /\ ~Drain /\ ~Wakeup
  <2>1. Returned /\ connections = {}
    BY <1>2 DEF Next, OwnerNext, IoNext, Activate, RequestShutdown, CancelAccept,
       LeaveSpin, HandleAccept, ThrowOutOfAccept, TestShutdown, AcceptAgain, AcknowledgeShutdown,
       RemoveConnection, Connect, Disconnect, CompleteAccept, FailAccept,
       Returned, DrainInv, DrainedWhenReturned
  <2>2. ~HandleAccept
    BY <1>0, <2>1 DEF HandleAccept, LoopInv, LoopEnded, Returned
  <2> QED
    BY <1>2, <2>1, <2>2 DEF Next, OwnerNext, IoNext, Activate, RequestShutdown,
       CancelAccept, LeaveSpin, ThrowOutOfAccept, TestShutdown, AcceptAgain, AcknowledgeShutdown,
       RemoveConnection, Connect, Disconnect, CompleteAccept, FailAccept
<1>3. CASE UNCHANGED vars
  BY <1>3 DEF vars, DrainInv, DrainedWhenReturned, Returned
<1> QED
  BY <1>1, <1>2, <1>3

\* deactivate() with "wait" leaves no connection behind.
THEOREM Drained == Spec => []DrainedWhenReturned
<1>1. Init => DrainInv
  BY LoopInit DEF Init, DrainInv, DrainedWhenReturned, Returned
<1>2. DrainInv => DrainedWhenReturned
  BY DEF DrainInv
<1> QED
  BY <1>1, <1>2, DrainNext, PTL DEF Spec

(***************************************************************************)
(*                        Routing to the connectors                        *)
(***************************************************************************)
USE DEF connectorVars, dispatchVars, eventVars

-----------------------------------------------------------------------------
(* Lists *)

LEMMA TailOfConcat ==
    ASSUME NEW S, NEW s \in Seq(S), NEW t \in Seq(S), s # <<>>
    PROVE  s \o t # <<>> /\ Tail(s \o t) = Tail(s) \o t
<1>1. Len(s) > 0 /\ s \o t \in Seq(S) /\ Len(s \o t) = Len(s) + Len(t)
  OBVIOUS
<1>2. s \o t # <<>>
  BY <1>1
<1>3. /\ Tail(s \o t) \in Seq(S) /\ Len(Tail(s \o t)) = Len(s) + Len(t) - 1
      /\ Tail(s) \in Seq(S) /\ Len(Tail(s)) = Len(s) - 1
      /\ Tail(s) \o t \in Seq(S) /\ Len(Tail(s) \o t) = Len(s) + Len(t) - 1
  BY <1>1, <1>2
<1>4. ASSUME NEW i \in 1..(Len(s) + Len(t) - 1) PROVE Tail(s \o t)[i] = (Tail(s) \o t)[i]
  BY <1>1, <1>2, <1>3
<1>5. QED
  BY <1>2, <1>3, <1>4

LEMMA HandOver ==
    ASSUME NEW S, NEW s \in Seq(S), NEW t \in Seq(S), t # <<>>
    PROVE  Append(s, Head(t)) \o Tail(t) = s \o t
<1> DEFINE l == Append(s, Head(t)) \o Tail(t)
<1>1. Len(t) > 0 /\ Head(t) \in S /\ Head(t) = t[1] /\ Tail(t) \in Seq(S)
      /\ Len(Tail(t)) = Len(t) - 1 /\ \A i \in 1..Len(t) - 1 : Tail(t)[i] = t[i + 1]
  OBVIOUS
<1>2. Append(s, Head(t)) \in Seq(S) /\ Len(Append(s, Head(t))) = Len(s) + 1
  BY <1>1
<1>3. l \in Seq(S) /\ Len(l) = Len(s) + Len(t) /\ s \o t \in Seq(S)
      /\ Len(s \o t) = Len(s) + Len(t)
  BY <1>1, <1>2
<1>4. ASSUME NEW i \in 1..(Len(s) + Len(t)) PROVE l[i] = (s \o t)[i]
  BY <1>1, <1>2, <1>4
<1>5. QED
  BY <1>3, <1>4

LEMMA ListedIs ==
    ASSUME SocketTypeOK, NEW s \in DOMAIN socketSinks, NEW c \in Connectors
    PROVE  /\ s \in Scopes /\ socketSinks[s] \in SocketSinkLists /\ socketSinks[s][c] \in Nat
           /\ Listed(s, c) <=> socketSinks[s][c] # 0
BY DEF SocketTypeOK, SocketSinkLists, Listed

\* addSink lengthens one list by one entry.
LEMMA SocketAddedSinks ==
    ASSUME SocketTypeOK, NEW c \in Connectors, SocketAddSink(c)
    PROVE  /\ DOMAIN socketSinks' = DOMAIN socketSinks \cup {socketScope[c]}
           /\ socketSinks' \in [DOMAIN socketSinks' -> SocketSinkLists]
           /\ \A s \in DOMAIN socketSinks, d \in Connectors :
                 s # socketScope[c] \/ d # c => socketSinks'[s][d] = socketSinks[s][d]
           /\ \A d \in Connectors \ {c} :
                 socketScope[c] \notin DOMAIN socketSinks
                     => socketSinks'[socketScope[c]][d] = 0
           /\ socketSinks'[socketScope[c]][c] =
                 IF socketScope[c] \in DOMAIN socketSinks
                 THEN socketSinks[socketScope[c]][c] + 1 ELSE 1
<1> DEFINE t == socketScope[c]
<1>1. SinksOf(t) \in SocketSinkLists
  BY DEF SinksOf, NoSinks, SocketSinkLists, SocketTypeOK
<1>2. /\ [SinksOf(t) EXCEPT ![c] = @ + 1] \in SocketSinkLists
      /\ \A d \in Connectors \ {c} : [SinksOf(t) EXCEPT ![c] = @ + 1][d] = SinksOf(t)[d]
      /\ [SinksOf(t) EXCEPT ![c] = @ + 1][c] = SinksOf(t)[c] + 1
  BY <1>1 DEF SocketSinkLists
<1>3. socketSinks' = [s \in DOMAIN socketSinks \cup {t} |->
                   IF s # t THEN socketSinks[s] ELSE [SinksOf(s) EXCEPT ![c] = @ + 1]]
  BY DEF SocketAddSink
<1>4. /\ DOMAIN socketSinks' = DOMAIN socketSinks \cup {t}
      /\ socketSinks'[t] = [SinksOf(t) EXCEPT ![c] = @ + 1]
      /\ \A s \in DOMAIN socketSinks \ {t} : socketSinks'[s] = socketSinks[s]
  BY <1>3
<1>5. socketSinks' \in [DOMAIN socketSinks' -> SocketSinkLists]
  BY <1>2, <1>3, <1>4 DEF SocketTypeOK
<1>6. CASE t \in DOMAIN socketSinks
  BY <1>2, <1>4, <1>5, <1>6 DEF SinksOf
<1>7. CASE t \notin DOMAIN socketSinks
  BY <1>2, <1>4, <1>5, <1>7 DEF SinksOf, NoSinks
<1>8. QED
  BY <1>6, <1>7

\* removeSink leaves what holds other connectors, and no list that is empty.
LEMMA SocketRemovedSinks ==
    ASSUME SocketTypeOK, NEW c \in Connectors, SocketRemoveSink(c)
    PROVE  /\ DOMAIN socketSinks' \subseteq DOMAIN socketSinks
           /\ socketSinks' \in [DOMAIN socketSinks' -> SocketSinkLists]
           /\ \A s \in DOMAIN socketSinks \ {socketScope[c]} :
                 s \in DOMAIN socketSinks' /\ socketSinks'[s] = socketSinks[s]
           /\ \A d \in Connectors :
                 IF SocketExpired(d) \/ d = c
                 THEN socketScope[c] \in DOMAIN socketSinks'
                          => socketSinks'[socketScope[c]][d] = 0
                 ELSE /\ socketScope[c] \in DOMAIN socketSinks' =>
                           socketSinks'[socketScope[c]][d] = socketSinks[socketScope[c]][d]
                      /\ socketSinks[socketScope[c]][d] # 0
                             => socketScope[c] \in DOMAIN socketSinks'
           /\ socketScope[c] \in DOMAIN socketSinks'
                 => \E d \in Connectors : socketSinks'[socketScope[c]][d] # 0
<1> DEFINE t == socketScope[c]
           rest == Swept(socketSinks[t], c)
<1>1. t \in DOMAIN socketSinks /\ socketSinks[t] \in SocketSinkLists
  BY DEF SocketRemoveSink, SocketTypeOK
<1>2. /\ rest \in SocketSinkLists
      /\ \A d \in Connectors :
            rest[d] = IF SocketExpired(d) \/ d = c THEN 0 ELSE socketSinks[t][d]
  BY <1>1 DEF Swept, SocketSinkLists
<1>3. socketSinks' = IF rest = NoSinks THEN Restrict(socketSinks, DOMAIN socketSinks \ {t})
               ELSE [socketSinks EXCEPT ![t] = rest]
  BY DEF SocketRemoveSink
<1>4. rest = NoSinks <=> \A d \in Connectors : rest[d] = 0
  BY <1>2 DEF SocketSinkLists, NoSinks
<1> HIDE DEF rest
<1>5. CASE rest = NoSinks
  <2>1. socketSinks' = [s \in DOMAIN socketSinks \ {t} |-> socketSinks[s]]
    BY <1>3, <1>5 DEF Restrict
  <2>2. QED
    BY <1>1, <1>2, <1>4, <1>5, <2>1 DEF SocketTypeOK
<1>6. CASE rest # NoSinks
  <2>1. socketSinks' = [socketSinks EXCEPT ![t] = rest]
    BY <1>3, <1>6
  <2>2. DOMAIN socketSinks' = DOMAIN socketSinks /\ socketSinks'[t] = rest
    BY <1>1, <2>1
  <2>3. socketSinks' \in [DOMAIN socketSinks' -> SocketSinkLists]
        /\ \A s \in DOMAIN socketSinks \ {t} : socketSinks'[s] = socketSinks[s]
    BY <1>1, <1>2, <2>1 DEF SocketTypeOK
  <2>4. QED
    BY <1>1, <1>2, <1>4, <1>6, <2>2, <2>3
<1>7. QED
  BY <1>5, <1>6

-----------------------------------------------------------------------------
(* The invariant *)

\* What a connector is between the steps of its owner
Life(c) ==
    /\ hasBus[c] = socketActive[c]
    /\ socketCall[c] = "none" => socketRef[c] # "expired"
    /\ socketCall[c] = "joining" => socketRef[c] = "held" /\ socketActive[c]
    /\ socketCall[c] \in {"removing", "leaving"}
           => socketRef[c] \in {"held", "expired"} /\ socketActive[c]
    /\ socketCall[c] = "thrown" => socketRef[c] = "expired"
    /\ socketRef[c] = "freed" => ~socketActive[c]
    /\ socketRef[c] = "lent" => socketActive[c] /\ socketCall[c] = "none"
    /\ socketRef[c] \in {"lent", "expired"} => c \in Careless
LifeInv == \A c \in Connectors : Life(c)

\* A list holds who is subscribed, once, and is dropped when it is empty.
NoneIsEmpty == \A s \in DOMAIN socketSinks : \E c \in Connectors : socketSinks[s][c] # 0
AtMostOnce == \A s \in DOMAIN socketSinks, c \in Connectors : socketSinks[s][c] <= 1
ListInv == SinksMatchConnectors /\ NoneIsEmpty /\ AtMostOnce

\* While a dispatch has the lock, nobody it is to visit can leave the lists.
VisitInv ==
    /\ \A c \in Connectors : visits[c] # <<>> \/ c \in visited => Subscribed(c)
    /\ OnlyTheCarelessBreak

SinksInv == SocketTypeOK /\ LifeInv /\ ListInv /\ VisitInv

LEMMA SinksInvInit == SocketInit => SinksInv
<1> SUFFICES ASSUME SocketInit PROVE SinksInv
  OBVIOUS
<1>1. <<>> \in Seq(SocketEvent)
  OBVIOUS
<1>2. SocketTypeOK
  <2>1. /\ DOMAIN socketSinks \subseteq Scopes
        /\ socketSinks \in [DOMAIN socketSinks -> SocketSinkLists]
    BY DEF SocketInit
  <2>2. /\ socketInbox \in [Connectors -> Seq(SocketEvent)]
        /\ visits \in [Connectors -> Seq(SocketEvent)]
    BY <1>1 DEF SocketInit
  <2>3. /\ socketCall \in [Connectors -> Calls] /\ socketRef \in [Connectors -> References]
        /\ socketPublished \in 0..MaxEvents
    BY MaxEventsAssumption DEF SocketInit, Calls, References
  <2>4. /\ socketActive \in [Connectors -> BOOLEAN] /\ hasBus \in [Connectors -> BOOLEAN]
        /\ socketScope \in [Connectors -> Scopes] /\ visited \subseteq Connectors
        /\ undefined \in BOOLEAN
    BY DEF SocketInit
  <2>5. QED
    BY <2>1, <2>2, <2>3, <2>4 DEF SocketTypeOK
<1>3. LifeInv
  BY DEF SocketInit, LifeInv, Life
<1>4. DOMAIN socketSinks = {} /\ \A c \in Connectors : ~Subscribed(c)
  BY DEF SocketInit, Subscribed
<1>5. ListInv
  BY <1>4 DEF ListInv, SinksMatchConnectors, NoneIsEmpty, AtMostOnce
<1>6. VisitInv
  BY DEF SocketInit, VisitInv, OnlyTheCarelessBreak
<1>7. QED
  BY <1>2, <1>3, <1>5, <1>6 DEF SinksInv

\* An event is handed once to those whose scope covers its own, and to nobody else.
LEMMA HeardIsCovered ==
    ASSUME NEW s \in Scopes, NEW t \in Scopes
    PROVE  t \in Heard(s) <=> Covers(t, s)
<1>1. s \in Seq(STRING) /\ t \in Seq(STRING)
  BY ScopesAssumption
<1>2. Heard(s) = {SubSeq(s, 1, i - 1) : i \in 1..(Len(s) + 1)}
  BY DEF Heard, Range, SuperScopes
<1>3. ASSUME t \in Heard(s) PROVE Covers(t, s)
  <2>1. PICK i \in 1..(Len(s) + 1) : t = SubSeq(s, 1, i - 1)
    BY <1>2, <1>3
  <2>2. Len(t) = i - 1 /\ \A j \in 1..(i - 1) : t[j] = s[j]
    BY <1>1, <2>1
  <2>3. CASE i = Len(s) + 1
    <3>1. t = s
      BY <1>1, <2>1, <2>3
    <3>2. QED
      BY <3>1 DEF Covers
  <2>4. CASE i # Len(s) + 1
    BY <1>1, <2>2, <2>4 DEF Covers, IsSuperScopeOf
  <2>5. QED
    BY <2>3, <2>4
<1>4. ASSUME Covers(t, s) PROVE t \in Heard(s)
  <2>1. Len(t) <= Len(s) /\ \A j \in 1..Len(t) : t[j] = s[j]
    BY <1>1, <1>4 DEF Covers, IsSuperScopeOf
  <2>2. /\ SubSeq(s, 1, Len(t)) \in Seq(STRING) /\ Len(SubSeq(s, 1, Len(t))) = Len(t)
        /\ \A j \in 1..Len(t) : SubSeq(s, 1, Len(t))[j] = s[j]
    BY <1>1, <2>1
  <2>3. t = SubSeq(s, 1, Len(t))
    BY <1>1, <2>1, <2>2
  <2>4. Len(t) + 1 \in 1..(Len(s) + 1) /\ (Len(t) + 1) - 1 = Len(t)
    BY <1>1, <2>1
  <2>5. QED
    BY <1>2, <2>3, <2>4
<1>5. QED
  BY <1>3, <1>4

LEMMA SocketOneDelivery ==
    ASSUME SinksInv, NEW s \in Scopes, NEW c \in Connectors
    PROVE  SocketDeliveries(s, c) =
               IF Listed(socketScope[c], c) /\ Covers(socketScope[c], s) THEN 1 ELSE 0
<1> DEFINE places == UNION {{t} \X (1..socketSinks[t][c]) :
                              t \in Heard(s) \cap DOMAIN socketSinks}
<1>1. SocketTypeOK /\ SinksMatchConnectors /\ AtMostOnce /\ socketScope[c] \in Scopes
  BY DEF SinksInv, ListInv, SocketTypeOK
<1>2. ASSUME NEW t \in DOMAIN socketSinks
      PROVE  /\ socketSinks[t][c] \in Nat /\ socketSinks[t][c] <= 1
             /\ socketSinks[t][c] # 0 => Subscribed(c) /\ socketScope[c] = t
  BY <1>1, ListedIs DEF SinksMatchConnectors, AtMostOnce
<1>3. CASE Listed(socketScope[c], c) /\ Covers(socketScope[c], s)
  <2>1. socketScope[c] \in Heard(s) \cap DOMAIN socketSinks
        /\ socketSinks[socketScope[c]][c] = 1
    <3>1. socketScope[c] \in DOMAIN socketSinks /\ socketSinks[socketScope[c]][c] # 0
      BY <1>1, <1>3, ListedIs DEF Listed
    <3>2. QED
      BY <1>1, <1>2, <1>3, <3>1, HeardIsCovered
  <2>2. places = {<<socketScope[c], 1>>}
    <3>1. ASSUME NEW t \in Heard(s) \cap DOMAIN socketSinks, t # socketScope[c]
          PROVE 1..socketSinks[t][c] = {}
      BY <1>2, <3>1
    <3>2. 1..socketSinks[socketScope[c]][c] = {1}
      BY <2>1
    <3>3. QED
      BY <2>1, <3>1, <3>2
  <2>3. Cardinality(places) = 1
    BY <2>2, FS_Singleton
  <2>4. QED
    BY <1>3, <2>3 DEF SocketDeliveries
<1>4. CASE ~(Listed(socketScope[c], c) /\ Covers(socketScope[c], s))
  <2>1. ASSUME NEW t \in Heard(s) \cap DOMAIN socketSinks PROVE 1..socketSinks[t][c] = {}
    <3>1. socketSinks[t][c] = 0
      BY <1>1, <1>2, <1>4, HeardIsCovered, ListedIs
    <3>2. QED
      BY <3>1
  <2>2. places = {}
    BY <2>1
  <2>3. Cardinality(places) = 0
    BY <2>2, FS_EmptySet
  <2>4. QED
    BY <1>4, <2>3 DEF SocketDeliveries
<1>5. QED
  BY <1>3, <1>4

\* What a dispatch that begins has to hand to whom
LEMMA ToVisit ==
    ASSUME SinksInv, NEW s \in Scopes, Dispatch(s)
    PROVE  /\ \A c \in Connectors : visits[c] = <<>>
           /\ visits' = [c \in Connectors |->
                            IF Listed(socketScope[c], c) /\ Covers(socketScope[c], s)
                            THEN <<[id |-> socketPublished + 1, scope |-> s]>> ELSE <<>>]
<1> DEFINE e == [id |-> socketPublished + 1, scope |-> s]
<1>1. [i \in 1..1 |-> e] = <<e>> /\ [i \in 1..0 |-> e] = <<>>
  OBVIOUS
<1>2. ASSUME NEW c \in Connectors
      PROVE  [i \in 1..SocketDeliveries(s, c) |-> e] =
                 IF Listed(socketScope[c], c) /\ Covers(socketScope[c], s) THEN <<e>> ELSE <<>>
  BY <1>1, SocketOneDelivery
<1>3. QED
  BY <1>2 DEF Dispatch, Dispatching

-----------------------------------------------------------------------------
(* Type correctness *)

LEMMA SocketTypeNext == SinksInv /\ [SocketNext]_socketVars => SocketTypeOK'
<1> SUFFICES ASSUME SinksInv, SocketTypeOK, [SocketNext]_socketVars PROVE SocketTypeOK'
  BY DEF SinksInv
<1>1. ASSUME NEW c \in Connectors, NEW s \in Scopes, SocketSetScope(c, s) PROVE SocketTypeOK'
  BY <1>1 DEF SocketSetScope, SocketTypeOK
<1>2. ASSUME NEW c \in Connectors,
             \/ TakeBus(c) \/ BeginDeactivate(c) \/ SocketRelease(c)
             \/ FailToRemove(c) \/ DropBus(c)
      PROVE  SocketTypeOK'
  <2>1. UNCHANGED <<socketSinks, socketScope, socketInbox, socketPublished>>
    BY <1>2 DEF TakeBus, BeginDeactivate, SocketRelease, FailToRemove, DropBus
  <2>2. /\ socketActive' \in [Connectors -> BOOLEAN] /\ hasBus' \in [Connectors -> BOOLEAN]
        /\ socketCall' \in [Connectors -> Calls]
    BY <1>2 DEF TakeBus, BeginDeactivate, SocketRelease, FailToRemove, DropBus, SocketTypeOK,
                    Calls
  <2>3. socketRef' \in [Connectors -> References]
    BY <1>2 DEF TakeBus, BeginDeactivate, SocketRelease, FailToRemove, DropBus, SocketTypeOK,
                References
  <2>4. UNCHANGED <<visits, visited, undefined>>
    BY <1>2 DEF TakeBus, BeginDeactivate, SocketRelease, FailToRemove, DropBus
  <2>5. QED
    BY <2>1, <2>2, <2>3, <2>4 DEF SocketTypeOK
<1>3. ASSUME NEW c \in Connectors, SocketAddSink(c) PROVE SocketTypeOK'
  <2>1. socketCall' \in [Connectors -> Calls]
    BY <1>3 DEF SocketAddSink, SocketTypeOK, Calls
  <2>2. DOMAIN socketSinks' \subseteq Scopes
        /\ socketSinks' \in [DOMAIN socketSinks' -> SocketSinkLists]
    <3>1. DOMAIN socketSinks' = DOMAIN socketSinks \cup {socketScope[c]}
          /\ socketSinks' \in [DOMAIN socketSinks' -> SocketSinkLists]
      BY <1>3, SocketAddedSinks
    <3>2. DOMAIN socketSinks \subseteq Scopes /\ socketScope[c] \in Scopes
      BY DEF SocketTypeOK
    <3>3. QED
      BY <3>1, <3>2
  <2>3. QED
    BY <1>3, <2>1, <2>2 DEF SocketAddSink, SocketTypeOK
<1>4. ASSUME NEW c \in Connectors, SocketRemoveSink(c) PROVE SocketTypeOK'
  <2>1. socketCall' \in [Connectors -> Calls]
    BY <1>4 DEF SocketRemoveSink, SocketTypeOK, Calls
  <2>2. DOMAIN socketSinks' \subseteq Scopes
        /\ socketSinks' \in [DOMAIN socketSinks' -> SocketSinkLists]
    <3>1. DOMAIN socketSinks' \subseteq DOMAIN socketSinks
          /\ socketSinks' \in [DOMAIN socketSinks' -> SocketSinkLists]
      BY <1>4, SocketRemovedSinks
    <3>2. QED
      BY <3>1 DEF SocketTypeOK
  <2>3. QED
    BY <1>4, <2>1, <2>2 DEF SocketRemoveSink, SocketTypeOK
<1>5. ASSUME NEW s \in Scopes, Dispatch(s) PROVE SocketTypeOK'
  <2>1. socketPublished' \in 0..MaxEvents
    BY <1>5, MaxEventsAssumption DEF Dispatch, SocketTypeOK
  <2>2. visits' \in [Connectors -> Seq(SocketEvent)]
    <3>1. socketPublished + 1 \in Nat
          /\ [id |-> socketPublished + 1, scope |-> s] \in SocketEvent
      BY MaxEventsAssumption DEF SocketTypeOK, SocketEvent
    <3>2. <<[id |-> socketPublished + 1, scope |-> s]>> \in Seq(SocketEvent)
          /\ <<>> \in Seq(SocketEvent)
      BY <3>1
    <3>3. visits' = [c \in Connectors |->
                        IF Listed(socketScope[c], c) /\ Covers(socketScope[c], s)
                        THEN <<[id |-> socketPublished + 1, scope |-> s]>> ELSE <<>>]
      BY <1>5, ToVisit
    <3>4. QED
      BY <3>2, <3>3
  <2>3. QED
    BY <1>5, <2>1, <2>2 DEF Dispatch, SocketTypeOK
<1>9. ASSUME NEW c \in Connectors, Visit(c) \/ PassOver(c) \/ LetGo(c) PROVE SocketTypeOK'
  <2>1. CASE Visit(c) \/ PassOver(c)
    <3>1. /\ visits[c] \in Seq(SocketEvent) /\ visits[c] # <<>>
          /\ socketInbox[c] \in Seq(SocketEvent)
      BY <2>1 DEF Visit, PassOver, SocketTypeOK
    <3>2. Head(visits[c]) \in SocketEvent /\ Tail(visits[c]) \in Seq(SocketEvent)
      BY <3>1
    <3>3. Append(socketInbox[c], Head(visits[c])) \in Seq(SocketEvent)
      BY <3>1, <3>2
    <3>4. visits' \in [Connectors -> Seq(SocketEvent)]
          /\ socketInbox' \in [Connectors -> Seq(SocketEvent)]
      BY <2>1, <3>2, <3>3 DEF Visit, PassOver, SocketTypeOK
    <3>5. QED
      BY <2>1, <3>4 DEF Visit, PassOver, SocketTypeOK
  <2>2. CASE LetGo(c)
    BY <2>2 DEF LetGo, SocketTypeOK
  <2>3. QED
    BY <1>9, <2>1, <2>2
<1>6. ASSUME NEW c \in Connectors, SocketTake(c) PROVE SocketTypeOK'
  <2>1. socketInbox[c] \in Seq(SocketEvent) /\ socketInbox[c] # <<>>
    BY <1>6 DEF SocketTake, SocketTypeOK
  <2>2. Tail(socketInbox[c]) \in Seq(SocketEvent)
    BY <2>1
  <2>3. QED
    BY <1>6, <2>2 DEF SocketTake, SocketTypeOK
<1>7. CASE UNCHANGED socketVars
  BY <1>7 DEF socketVars, SocketTypeOK
<1>8. QED
  BY <1>1, <1>2, <1>3, <1>4, <1>5, <1>6, <1>7, <1>9 DEF SocketNext, SocketOwnerStep, BusStep

-----------------------------------------------------------------------------
(* Connectors and lists *)

LEMMA LifeNext == SinksInv /\ [SocketNext]_socketVars => LifeInv'
<1> SUFFICES ASSUME SinksInv, [SocketNext]_socketVars PROVE LifeInv'
  OBVIOUS
<1>1. SocketTypeOK /\ LifeInv /\ SinksMatchConnectors /\ VisitInv
  BY DEF SinksInv, ListInv
<1>2. ASSUME NEW c \in Connectors, FailToRemove(c) PROVE socketRef[c] = "expired"
  <2>1. socketActive[c] /\ socketRef[c] # "freed" /\ Subscribed(c)
    BY <1>1, <1>2 DEF FailToRemove, LifeInv, Life, Subscribed
  <2>2. ~Listed(socketScope[c], c)
    BY <1>2 DEF FailToRemove, Listed
  <2>3. SocketExpired(c)
    BY <1>1, <2>1, <2>2 DEF SinksMatchConnectors
  <2>4. QED
    BY <1>1, <2>1, <2>3 DEF SocketExpired, SocketTypeOK
<1>3. ASSUME NEW c \in Connectors, SocketOwnerStep(c) PROVE LifeInv'
  <2>1. \A d \in Connectors \ {c} :
           /\ socketActive'[d] = socketActive[d] /\ hasBus'[d] = hasBus[d]
           /\ socketCall'[d] = socketCall[d] /\ socketRef'[d] = socketRef[d]
    BY <1>1, <1>3
       DEF SocketOwnerStep, TakeBus, SocketAddSink, BeginDeactivate, SocketRemoveSink,
           FailToRemove, DropBus, SocketRelease, SocketTake, SocketSetScope, SocketTypeOK
  <2>2. SUFFICES Life(c)'
    BY <1>1, <2>1 DEF LifeInv, Life
  <2>3. Life(c) /\ socketActive[c] \in BOOLEAN /\ socketCall[c] \in Calls
        /\ socketRef[c] \in References
    BY <1>1 DEF LifeInv, SocketTypeOK
  <2>4. CASE TakeBus(c) \/ BeginDeactivate(c)
    <3>1. CASE TakeBus(c)
      BY <1>1, <2>3, <3>1 DEF TakeBus, SocketIdle, Life, SocketTypeOK
    <3>2. CASE BeginDeactivate(c)
      BY <1>1, <2>3, <3>2 DEF BeginDeactivate, SocketIdle, Life, SocketTypeOK
    <3>3. QED
      BY <2>4, <3>1, <3>2
  <2>5. CASE SocketAddSink(c) \/ SocketRemoveSink(c)
    <3>1. /\ <<socketCall[c], socketCall'[c]>>
                 \in {<<"joining", "none">>, <<"removing", "leaving">>}
          /\ UNCHANGED <<socketActive, hasBus, socketRef>>
      <4>1. CASE SocketAddSink(c)
        BY <1>1, <4>1 DEF SocketAddSink, SocketTypeOK
      <4>2. CASE SocketRemoveSink(c)
        BY <1>1, <4>2 DEF SocketRemoveSink, SocketTypeOK
      <4>3. QED
        BY <2>5, <4>1, <4>2
    <3>2. QED
      BY <2>3, <3>1 DEF Life
  <2>6. CASE SocketRelease(c)
    <3>1. c \in visited => socketActive[c]
      BY <1>1 DEF VisitInv, Subscribed
    <3>2. QED
      BY <1>1, <2>3, <2>6, <3>1 DEF SocketRelease, SocketIdle, Life, SocketTypeOK, References
  <2>7. CASE DropBus(c)
    BY <1>1, <2>3, <2>7 DEF DropBus, Life, SocketTypeOK
  <2>8. CASE FailToRemove(c)
    BY <1>1, <1>2, <2>3, <2>8 DEF FailToRemove, Life, SocketTypeOK
  <2>9. CASE SocketTake(c) \/ \E s \in Scopes : SocketSetScope(c, s)
    BY <2>3, <2>9 DEF SocketTake, SocketSetScope, Life
  <2>10. QED
    BY <1>3, <2>4, <2>5, <2>6, <2>7, <2>8, <2>9 DEF SocketOwnerStep
<1>4. CASE UNCHANGED socketVars \/ BusStep
  BY <1>1, <1>4 DEF BusStep, Dispatch, Visit, PassOver, LetGo, socketVars, LifeInv, Life
<1>5. QED
  BY <1>3, <1>4 DEF SocketNext

\* A step that changes no list keeps what they say, if who is listed stays
\* subscribed to its scope and nobody joins.
LEMMA QuietKeepsLists ==
    ASSUME SinksInv, UNCHANGED socketSinks,
           \A s \in DOMAIN socketSinks, c \in Connectors :
               Listed(s, c) => Subscribed(c)' /\ socketScope'[c] = s,
           \A c \in Connectors : Subscribed(c)' /\ ~SocketExpired(c)' =>
               Subscribed(c) /\ ~SocketExpired(c) /\ socketScope'[c] = socketScope[c]
    PROVE  ListInv'
<1>1. SinksMatchConnectors /\ NoneIsEmpty /\ AtMostOnce
  BY DEF SinksInv, ListInv
<1>2. NoneIsEmpty' /\ AtMostOnce'
  BY <1>1 DEF NoneIsEmpty, AtMostOnce
<1>3. \A s \in DOMAIN socketSinks', c \in Connectors :
         Listed(s, c)' => Subscribed(c)' /\ socketScope'[c] = s
  BY DEF Listed
<1>4. ASSUME NEW c \in Connectors, Subscribed(c)', ~SocketExpired(c)'
      PROVE Listed(socketScope[c], c)'
  <2>1. Listed(socketScope[c], c) /\ socketScope'[c] = socketScope[c]
    BY <1>1, <1>4 DEF SinksMatchConnectors
  <2>2. QED
    BY <2>1 DEF Listed
<1>5. SinksMatchConnectors'
  BY <1>3, <1>4 DEF SinksMatchConnectors
<1>6. QED
  BY <1>2, <1>5 DEF ListInv

LEMMA JoinKeepsLists ==
    ASSUME SinksInv, NEW c \in Connectors, SocketAddSink(c)
    PROVE  ListInv' /\ ~Subscribed(c) /\ Subscribed(c)' /\ ~SocketExpired(c)
<1> DEFINE t == socketScope[c]
<1>1. SocketTypeOK /\ LifeInv /\ SinksMatchConnectors /\ NoneIsEmpty /\ AtMostOnce
      /\ t \in Scopes
  BY DEF SinksInv, ListInv, SocketTypeOK
<1>2. /\ socketCall[c] = "joining" /\ socketActive[c] /\ socketRef[c] = "held"
      /\ UNCHANGED <<socketScope, socketActive, socketRef>>
      /\ socketCall'[c] = "none" /\ \A d \in Connectors \ {c} : socketCall'[d] = socketCall[d]
  BY <1>1 DEF SocketAddSink, LifeInv, Life, SocketTypeOK
<1>3. /\ ~Subscribed(c) /\ Subscribed(c)' /\ ~SocketExpired(c)
      /\ \A d \in Connectors \ {c} : Subscribed(d)' <=> Subscribed(d)
      /\ \A d \in Connectors : SocketExpired(d)' <=> SocketExpired(d)
  BY <1>2 DEF Subscribed, SocketExpired
<1>4. \A s \in DOMAIN socketSinks : socketSinks[s][c] = 0
  BY <1>1, <1>3, ListedIs DEF SinksMatchConnectors
<1>5. /\ DOMAIN socketSinks' = DOMAIN socketSinks \cup {t}
      /\ \A s \in DOMAIN socketSinks, d \in Connectors :
            s # t \/ d # c => socketSinks'[s][d] = socketSinks[s][d]
      /\ \A d \in Connectors \ {c} : t \notin DOMAIN socketSinks => socketSinks'[t][d] = 0
      /\ socketSinks'[t][c] = 1
  <2>1. t \in DOMAIN socketSinks => socketSinks[t][c] + 1 = 1
    BY <1>4
  <2>2. QED
    BY <1>1, <2>1, SocketAddedSinks
<1>6. NoneIsEmpty'
  <2>1. ASSUME NEW s \in DOMAIN socketSinks'
        PROVE \E d \in Connectors : socketSinks'[s][d] # 0
    <3>1. CASE s = t
      BY <1>5, <3>1
    <3>2. CASE s # t
      BY <1>1, <1>5, <3>2 DEF NoneIsEmpty
    <3>3. QED
      BY <3>1, <3>2
  <2>2. QED
    BY <2>1 DEF NoneIsEmpty
<1>7. AtMostOnce'
  <2>1. ASSUME NEW s \in DOMAIN socketSinks', NEW d \in Connectors
        PROVE socketSinks'[s][d] <= 1
    <3>1. CASE s = t /\ d = c
      BY <1>5, <3>1
    <3>2. CASE (s # t \/ d # c) /\ s \in DOMAIN socketSinks
      BY <1>1, <1>5, <3>2 DEF AtMostOnce
    <3>3. CASE d # c /\ s \notin DOMAIN socketSinks
      BY <1>5, <3>3
    <3>4. QED
      BY <1>5, <3>1, <3>2, <3>3
  <2>2. QED
    BY <2>1 DEF AtMostOnce
<1>8. ASSUME NEW s \in DOMAIN socketSinks', NEW d \in Connectors
      PROVE  Listed(s, d)' <=> Listed(s, d) \/ (s = t /\ d = c)
  <2>1. CASE s = t /\ d = c
    BY <1>5, <2>1 DEF Listed
  <2>2. CASE (s # t \/ d # c) /\ s \in DOMAIN socketSinks
    BY <1>5, <2>2 DEF Listed
  <2>3. CASE d # c /\ s \notin DOMAIN socketSinks
    BY <1>5, <2>3 DEF Listed
  <2>4. QED
    BY <1>5, <2>1, <2>2, <2>3
<1>9. SinksMatchConnectors'
  <2>1. ASSUME NEW s \in DOMAIN socketSinks', NEW d \in Connectors, Listed(s, d)'
        PROVE  Subscribed(d)' /\ socketScope'[d] = s
    BY <1>1, <1>2, <1>3, <1>8, <2>1 DEF SinksMatchConnectors, Listed
  <2>2. ASSUME NEW d \in Connectors, Subscribed(d)', ~SocketExpired(d)'
        PROVE  Listed(socketScope[d], d)'
    <3>1. CASE d = c
      BY <1>2, <1>5, <3>1 DEF Listed
    <3>2. CASE d # c
      <4>1. Listed(socketScope[d], d) /\ socketScope[d] \in DOMAIN socketSinks'
        BY <1>1, <1>3, <1>5, <2>2, <3>2 DEF SinksMatchConnectors, Listed
      <4>2. QED
        BY <1>2, <1>5, <3>2, <4>1 DEF Listed
    <3>3. QED
      BY <3>1, <3>2
  <2>3. QED
    BY <1>2, <2>1, <2>2 DEF SinksMatchConnectors
<1>10. QED
  BY <1>3, <1>6, <1>7, <1>9 DEF ListInv

LEMMA LeaveKeepsLists ==
    ASSUME SinksInv, NEW c \in Connectors, SocketRemoveSink(c)
    PROVE  ListInv'
<1> DEFINE t == socketScope[c]
<1>1. SocketTypeOK /\ SinksMatchConnectors /\ NoneIsEmpty /\ AtMostOnce
  BY DEF SinksInv, ListInv
<1>2. /\ t \in DOMAIN socketSinks /\ UNCHANGED <<socketScope, socketActive, socketRef>>
      /\ socketCall'[c] = "leaving"
      /\ \A d \in Connectors \ {c} : socketCall'[d] = socketCall[d]
  BY <1>1 DEF SocketRemoveSink, SocketTypeOK
<1>3. /\ ~Subscribed(c)'
      /\ \A d \in Connectors \ {c} : Subscribed(d)' <=> Subscribed(d)
      /\ \A d \in Connectors : SocketExpired(d)' <=> SocketExpired(d)
  BY <1>2 DEF Subscribed, SocketExpired
<1>4. /\ DOMAIN socketSinks' \subseteq DOMAIN socketSinks
      /\ \A s \in DOMAIN socketSinks \ {t} :
            s \in DOMAIN socketSinks' /\ socketSinks'[s] = socketSinks[s]
      /\ \A d \in Connectors :
            IF SocketExpired(d) \/ d = c
            THEN t \in DOMAIN socketSinks' => socketSinks'[t][d] = 0
            ELSE /\ t \in DOMAIN socketSinks' => socketSinks'[t][d] = socketSinks[t][d]
                 /\ socketSinks[t][d] # 0 => t \in DOMAIN socketSinks'
      /\ t \in DOMAIN socketSinks' => \E d \in Connectors : socketSinks'[t][d] # 0
  BY <1>1, SocketRemovedSinks
<1>5. NoneIsEmpty'
  <2>1. ASSUME NEW s \in DOMAIN socketSinks'
        PROVE \E d \in Connectors : socketSinks'[s][d] # 0
    BY <1>1, <1>4 DEF NoneIsEmpty
  <2>2. QED
    BY <2>1 DEF NoneIsEmpty
<1>6. ASSUME NEW s \in DOMAIN socketSinks', NEW d \in Connectors
      PROVE  /\ s \in DOMAIN socketSinks
             /\ socketSinks'[s][d] = socketSinks[s][d] \/ socketSinks'[s][d] = 0
             /\ s = t /\ d = c => socketSinks'[s][d] = 0
  BY <1>4
<1>7. AtMostOnce'
  <2>1. ASSUME NEW s \in DOMAIN socketSinks', NEW d \in Connectors
        PROVE socketSinks'[s][d] <= 1
    BY <1>1, <1>6 DEF AtMostOnce
  <2>2. QED
    BY <2>1 DEF AtMostOnce
<1>8. SinksMatchConnectors'
  <2>1. ASSUME NEW s \in DOMAIN socketSinks', NEW d \in Connectors, Listed(s, d)'
        PROVE  Subscribed(d)' /\ socketScope'[d] = s
    <3>1. socketSinks'[s][d] # 0
      BY <2>1 DEF Listed
    <3>2. Listed(s, d) /\ ~(s = t /\ d = c)
      BY <1>6, <2>1, <3>1 DEF Listed
    <3>3. Subscribed(d) /\ socketScope[d] = s
      BY <1>1, <1>6, <3>2 DEF SinksMatchConnectors
    <3>4. QED
      BY <1>2, <1>3, <3>2, <3>3
  <2>2. ASSUME NEW d \in Connectors, Subscribed(d)', ~SocketExpired(d)'
        PROVE  Listed(socketScope[d], d)'
    <3>1. d # c /\ ~SocketExpired(d) /\ Listed(socketScope[d], d)
      BY <1>1, <1>3, <2>2 DEF SinksMatchConnectors
    <3>2. socketScope[d] \in DOMAIN socketSinks /\ socketSinks[socketScope[d]][d] # 0
      BY <1>1, <3>1, ListedIs DEF Listed
    <3>3. socketScope[d] \in DOMAIN socketSinks'
          /\ socketSinks'[socketScope[d]][d] = socketSinks[socketScope[d]][d]
      BY <1>4, <3>1, <3>2
    <3>4. socketScope'[d] \in DOMAIN socketSinks' /\ socketSinks'[socketScope'[d]][d] > 0
      BY <1>2, <3>1, <3>3 DEF Listed
    <3>5. QED
      BY <3>4 DEF Listed
  <2>3. QED
    BY <1>2, <2>1, <2>2 DEF SinksMatchConnectors
<1>9. QED
  BY <1>5, <1>7, <1>8 DEF ListInv

\* The steps of an owner that change no list
LEMMA QuietSteps ==
    ASSUME SinksInv, NEW c \in Connectors,
           \/ TakeBus(c) \/ BeginDeactivate(c) \/ FailToRemove(c) \/ DropBus(c)
           \/ SocketRelease(c) \/ SocketTake(c) \/ \E s \in Scopes : SocketSetScope(c, s)
    PROVE  /\ UNCHANGED <<socketSinks, socketPublished>>
           /\ \A d \in Connectors : Subscribed(d) /\ (d = c => ~FailToRemove(c))
                                    => Subscribed(d)' /\ socketScope'[d] = socketScope[d]
           /\ \A d \in Connectors : Subscribed(d)' /\ ~SocketExpired(d)' =>
                  Subscribed(d) /\ ~SocketExpired(d) /\ socketScope'[d] = socketScope[d]
<1>1. SocketTypeOK /\ LifeInv
  BY DEF SinksInv
<1>2. /\ UNCHANGED <<socketSinks, socketPublished>>
      /\ \A d \in Connectors \ {c} :
            /\ socketActive'[d] = socketActive[d] /\ socketCall'[d] = socketCall[d]
            /\ socketRef'[d] = socketRef[d]
            /\ socketScope'[d] = socketScope[d]
  BY <1>1 DEF TakeBus, BeginDeactivate, FailToRemove, DropBus, SocketRelease, SocketTake,
              SocketSetScope, SocketTypeOK
<1>3. /\ Subscribed(c) /\ ~FailToRemove(c) 
             => Subscribed(c)' /\ socketScope'[c] = socketScope[c]
      /\ Subscribed(c)' /\ ~SocketExpired(c)' 
             => Subscribed(c) /\ ~SocketExpired(c) /\ socketScope'[c] = socketScope[c]
  <2>1. CASE TakeBus(c)
    BY <1>1, <2>1 DEF TakeBus, SocketIdle, SocketTypeOK, Subscribed, SocketExpired
  <2>2. CASE BeginDeactivate(c)
    BY <1>1, <2>2 DEF BeginDeactivate, SocketIdle, SocketTypeOK, Subscribed, SocketExpired
  <2>3. CASE FailToRemove(c)
    BY <1>1, <2>3 DEF FailToRemove, SocketTypeOK, Subscribed, SocketExpired
  <2>4. CASE DropBus(c)
    BY <1>1, <2>4 DEF DropBus, SocketTypeOK, Subscribed, SocketExpired
  <2>5. CASE SocketRelease(c)
    BY <1>1, <2>5 DEF SocketRelease, SocketIdle, SocketTypeOK, Subscribed, SocketExpired
  <2>6. CASE SocketTake(c)
    BY <2>6 DEF SocketTake, Subscribed, SocketExpired
  <2>7. CASE \E s \in Scopes : SocketSetScope(c, s)
    BY <2>7 DEF SocketSetScope, Subscribed, SocketExpired
  <2>8. QED
    BY <2>1, <2>2, <2>3, <2>4, <2>5, <2>6, <2>7
<1>4. \A d \in Connectors \ {c} :
         (Subscribed(d)' <=> Subscribed(d)) /\ (SocketExpired(d)' <=> SocketExpired(d))
  BY <1>2 DEF Subscribed, SocketExpired
<1>5. QED
  BY <1>2, <1>3, <1>4

LEMMA ListNext == SinksInv /\ [SocketNext]_socketVars => ListInv'
<1> SUFFICES ASSUME SinksInv, [SocketNext]_socketVars PROVE ListInv'
  OBVIOUS
<1>1. SinksMatchConnectors
  BY DEF SinksInv, ListInv
<1>2. ASSUME NEW c \in Connectors,
             \/ TakeBus(c) \/ BeginDeactivate(c) \/ FailToRemove(c) \/ DropBus(c)
             \/ SocketRelease(c) \/ SocketTake(c) \/ \E s \in Scopes : SocketSetScope(c, s)
      PROVE  ListInv'
  <2>1. /\ UNCHANGED socketSinks
        /\ \A d \in Connectors : Subscribed(d) /\ (d = c => ~FailToRemove(c))
                                 => Subscribed(d)' /\ socketScope'[d] = socketScope[d]
        /\ \A d \in Connectors : Subscribed(d)' /\ ~SocketExpired(d)' =>
               Subscribed(d) /\ ~SocketExpired(d) /\ socketScope'[d] = socketScope[d]
    BY <1>2, QuietSteps
  <2>2. ASSUME NEW s \in DOMAIN socketSinks, NEW d \in Connectors, Listed(s, d)
        PROVE  Subscribed(d)' /\ socketScope'[d] = s
    <3>1. Subscribed(d) /\ socketScope[d] = s
      BY <1>1, <2>2 DEF SinksMatchConnectors
    <3>2. d = c => ~FailToRemove(c)
      BY <2>2, <3>1 DEF FailToRemove
    <3>3. QED
      BY <2>1, <3>1, <3>2
  <2>3. QED
    BY <2>1, <2>2, QuietKeepsLists
<1>3. CASE UNCHANGED socketVars \/ BusStep
  <2>1. UNCHANGED <<socketSinks, socketScope, socketActive, socketCall, socketRef>>
    BY <1>3 DEF socketVars, BusStep, Dispatch, Visit, PassOver, LetGo
  <2>2. \A c \in Connectors :
           (Subscribed(c)' <=> Subscribed(c)) /\ (SocketExpired(c)' <=> SocketExpired(c))
    BY <2>1 DEF Subscribed, SocketExpired
  <2>3. \A s \in DOMAIN socketSinks, c \in Connectors :
           Listed(s, c) => Subscribed(c)' /\ socketScope'[c] = s
    BY <1>1, <2>1, <2>2 DEF SinksMatchConnectors
  <2>4. QED
    BY <2>1, <2>2, <2>3, QuietKeepsLists
<1>4. QED
  BY <1>2, <1>3, JoinKeepsLists, LeaveKeepsLists DEF SocketNext, SocketOwnerStep

LEMMA VisitNext == SinksInv /\ [SocketNext]_socketVars => VisitInv'
<1> SUFFICES ASSUME SinksInv, [SocketNext]_socketVars PROVE VisitInv'
  OBVIOUS
<1>1. SocketTypeOK /\ SinksMatchConnectors /\ VisitInv /\ LifeInv
  BY DEF SinksInv, ListInv
<1>2. CASE \E c \in Connectors : SocketOwnerStep(c) /\ ~undefined
  <2>1. PICK c \in Connectors : SocketOwnerStep(c) /\ ~undefined
    BY <1>2
  <2>2. UNCHANGED <<visits, visited, undefined>>
    BY <2>1 DEF SocketOwnerStep, TakeBus, SocketAddSink, BeginDeactivate, SocketRemoveSink,
                FailToRemove, DropBus, SocketRelease, SocketTake, SocketSetScope
  <2>3. ASSUME NEW d \in Connectors, visits[d] # <<>> \/ d \in visited PROVE Subscribed(d)'
    <3>1. Subscribed(d) /\ Dispatching
      BY <1>1, <2>3 DEF VisitInv, Dispatching
    <3>2. ~SocketAddSink(c) /\ ~SocketRemoveSink(c) /\ ~FailToRemove(c)
      BY <3>1 DEF SocketAddSink, SocketRemoveSink, FailToRemove
    <3>3. QED
      BY <2>1, <3>1, <3>2, QuietSteps DEF SocketOwnerStep
  <2>4. QED
    BY <2>1, <2>2, <2>3 DEF VisitInv, OnlyTheCarelessBreak
<1>3. CASE BusStep /\ ~undefined
  <2>1. UNCHANGED <<socketSinks, socketActive, socketCall, socketRef>>
    BY <1>3 DEF BusStep, Dispatch, Visit, PassOver, LetGo
  <2>2. \A d \in Connectors : Subscribed(d)' <=> Subscribed(d)
    BY <2>1 DEF Subscribed
  <2>3. CASE \E s \in Scopes : Dispatch(s)
    <3>1. PICK s \in Scopes : Dispatch(s)
      BY <2>3
    <3>2. UNCHANGED <<visited, undefined>>
      BY <3>1 DEF Dispatch
    <3>3. \A d \in Connectors : visits'[d] # <<>> => Listed(socketScope[d], d)
      BY <3>1, ToVisit
    <3>4. \A d \in Connectors : visits'[d] # <<>> => Subscribed(d)
      BY <1>1, <3>3 DEF SinksMatchConnectors, Listed
    <3>5. QED
      BY <1>1, <1>3, <2>2, <3>2, <3>4 DEF VisitInv, OnlyTheCarelessBreak
  <2>4. ASSUME NEW c \in Connectors, Visit(c) \/ PassOver(c) PROVE VisitInv'
    <3>1. /\ undefined' = undefined /\ visits[c] # <<>>
          /\ \A d \in Connectors : visits'[d] # <<>> => visits[d] # <<>>
          /\ visited' \subseteq visited \cup {c}
      BY <1>1, <2>4 DEF Visit, PassOver, SocketTypeOK
    <3>2. QED
      BY <1>1, <1>3, <2>2, <3>1 DEF VisitInv, OnlyTheCarelessBreak
  <2>5. ASSUME NEW c \in Connectors, LetGo(c) PROVE VisitInv'
    <3>1. visits' = visits /\ visited' = {} /\ undefined' = (socketRef[c] = "lent")
      BY <2>5 DEF LetGo
    <3>2. socketRef[c] = "lent" => c \in Careless
      BY <1>1 DEF LifeInv, Life
    <3>3. QED
      BY <1>1, <2>1, <2>2, <3>1, <3>2 DEF VisitInv, OnlyTheCarelessBreak
  <2>6. QED
    BY <1>3, <2>3, <2>4, <2>5 DEF BusStep
<1>4. CASE UNCHANGED socketVars
  BY <1>1, <1>4 DEF socketVars, VisitInv, OnlyTheCarelessBreak, Subscribed
<1>5. QED
  BY <1>2, <1>3, <1>4 DEF SocketNext

LEMMA SinksInvNext == SinksInv /\ [SocketNext]_socketVars => SinksInv'
BY SocketTypeNext, LifeNext, ListNext, VisitNext DEF SinksInv

LEMMA SocketInductive == SocketSpec => []SinksInv
BY SinksInvInit, SinksInvNext, PTL DEF SocketSpec

-----------------------------------------------------------------------------
(* Theorems *)

\* Type correctness of the dispatcher, the connectors and their inboxes
\* (ScopeDispatcher.h, ConnectorBase.cpp).
THEOREM SocketTypeCorrect == SocketSpec => []SocketTypeOK
BY SocketInductive, PTL DEF SinksInv

\* Whatever the order in which connectors come, go and are released, and
\* wherever that falls into a dispatch, lists hold who is subscribed, only active
\* connectors get events, the bus is destructed without sinks, and an owner that
\* deactivates meets no exception, as long as no dispatch has lost its place to a
\* connector that was dropped while active (BusImpl.cpp:138,
\* ScopeDispatcher.h:159).
THEOREM SinksStaySound == SocketSpec => []SinksAreSound
<1>1. ASSUME SinksInv PROVE HandlersAreActive
  BY <1>1 DEF SinksInv, VisitInv, HandlersAreActive, Subscribed
<1>2. ASSUME SinksInv, \A c \in Connectors : ~hasBus[c] PROVE DOMAIN socketSinks = {}
  <2>1. ASSUME NEW s \in DOMAIN socketSinks PROVE FALSE
    <3>1. PICK c \in Connectors : socketSinks[s][c] # 0
      BY <1>2, <2>1 DEF SinksInv, ListInv, NoneIsEmpty
    <3>2. Listed(s, c)
      BY <1>2, <2>1, <3>1, ListedIs DEF SinksInv
    <3>3. socketActive[c]
      BY <1>2, <2>1, <3>2 DEF SinksInv, ListInv, SinksMatchConnectors, Subscribed
    <3>4. QED
      BY <1>2, <3>3 DEF SinksInv, LifeInv, Life
  <2>2. QED
    BY <2>1
<1>3. ASSUME SinksInv PROVE OwnersAreSpared
  BY <1>3 DEF SinksInv, LifeInv, Life, OwnersAreSpared
<1>4. SinksInv => SinksAreSound
  BY <1>1, <1>2, <1>3 DEF SinksInv, ListInv, VisitInv, SinksAreEmpty, SinksAreSound
<1>5. QED
  BY <1>4, SocketInductive, PTL

\* Towards every connector whose owner deactivates it before dropping it, the
\* dispatcher of the socket transport implements EventRouting, whatever other
\* owners do and when (BusImpl.cpp:138).
THEOREM SocketImplements == SocketSpec => SocketRoutingSpec
<1> DEFINE subs == {c \in Careful : Subscribed(c)}
           scopes == [c \in Careful |-> socketScope[c]]
           boxes == [c \in Careful |-> socketInbox[c] \o visits[c]]
<1>0. Careful \subseteq Connectors
  BY DEF Careful
<1>1. SocketInit => SocketRouting!Init
  <2>1. <<>> \o <<>> = <<>>
    OBVIOUS
  <2>2. QED
    BY <1>0, <2>1 DEF SocketInit, SocketRouting!Init, Subscribed
<1>2. ASSUME SinksInv, [SocketNext]_socketVars
      PROVE  [SocketRouting!Next]_(SocketRouting!vars)
  <2>1. SocketTypeOK /\ LifeInv /\ SinksMatchConnectors
    BY <1>2 DEF SinksInv, ListInv
  <2>2. ASSUME NEW c \in Connectors, NEW s \in Scopes, SocketSetScope(c, s)
        PROVE  IF c \in Careful THEN SocketRouting!Rescope(c, s)
                                ELSE UNCHANGED SocketRouting!vars
    <3>1. c \notin subs /\ subs' = subs /\ UNCHANGED <<boxes, socketPublished>>
      BY <2>2 DEF SocketSetScope, Subscribed
    <3>2. scopes' = IF c \in Careful THEN [scopes EXCEPT ![c] = s] ELSE scopes
      BY <1>0, <2>1, <2>2 DEF SocketSetScope, SocketTypeOK
    <3>3. QED
      BY <3>1, <3>2 DEF SocketRouting!Rescope, SocketRouting!vars
  <2>3. ASSUME NEW c \in Connectors,
               \/ TakeBus(c) \/ BeginDeactivate(c) \/ DropBus(c) \/ SocketRelease(c)
               \/ FailToRemove(c) 
               \/ (SocketAddSink(c) \/ SocketRemoveSink(c)) /\ c \notin Careful
        PROVE  UNCHANGED SocketRouting!vars
    <3>1. /\ UNCHANGED <<scopes, boxes, socketPublished>>
          /\ \A d \in Connectors \ {c} :
                socketActive'[d] = socketActive[d] /\ socketCall'[d] = socketCall[d]
      BY <2>1, <2>3
         DEF TakeBus, BeginDeactivate, DropBus, FailToRemove, SocketAddSink, SocketRemoveSink,
             SocketRelease, SocketTypeOK
    <3>2. c \in Careful => (c \in subs' <=> c \in subs)
      <4>1. CASE TakeBus(c) \/ BeginDeactivate(c)
        BY <2>1, <4>1
           DEF TakeBus, BeginDeactivate, SocketIdle, Subscribed, SocketTypeOK
      <4>2. CASE DropBus(c)
        BY <2>1, <4>2 DEF DropBus, Subscribed, SocketTypeOK
      <4>3. CASE SocketRelease(c)
        BY <2>1, <4>3 DEF SocketRelease, SocketIdle, Subscribed, SocketTypeOK, Careful
      <4>4. CASE FailToRemove(c)
        <5>1. socketActive[c] /\ socketRef[c] \in {"held", "expired"} /\ Subscribed(c)
          BY <2>1, <4>4 DEF FailToRemove, LifeInv, Life, Subscribed
        <5>2. ~Listed(socketScope[c], c)
          BY <4>4 DEF FailToRemove, Listed
        <5>3. c \in Careless
          BY <2>1, <5>1, <5>2 DEF SinksMatchConnectors, SocketExpired, LifeInv, Life
        <5>4. QED
          BY <5>3 DEF Careful
      <4>5. QED
        BY <2>3, <4>1, <4>2, <4>3, <4>4
    <3>3. subs' = subs
      BY <1>0, <3>1, <3>2 DEF Subscribed
    <3>4. QED
      BY <3>1, <3>3 DEF SocketRouting!vars
  <2>4. ASSUME NEW c \in Careful, SocketAddSink(c) PROVE SocketRouting!Join(c)
    <3>1. Subscribed(c)'
      BY <1>0, <1>2, <2>4, JoinKeepsLists
    <3>2. /\ UNCHANGED <<socketScope, socketActive, socketInbox, socketPublished, visits>>
          /\ \A d \in Connectors \ {c} : socketCall'[d] = socketCall[d]
      BY <2>1, <2>4 DEF SocketAddSink, SocketTypeOK
    <3>3. subs' = subs \cup {c}
      BY <1>0, <3>1, <3>2 DEF Subscribed
    <3>4. QED
      BY <3>2, <3>3 DEF SocketRouting!Join
  <2>5. ASSUME NEW c \in Careful, SocketRemoveSink(c) PROVE SocketRouting!Leave(c)
    <3>1. /\ UNCHANGED <<socketScope, socketActive, socketInbox, socketPublished, visits>>
          /\ \A d \in Connectors \ {c} : socketCall'[d] = socketCall[d]
      BY <2>1, <2>5 DEF SocketRemoveSink, SocketTypeOK
    <3>2. ~Subscribed(c)'
      BY <1>0, <2>1, <2>5 DEF SocketRemoveSink, Subscribed, SocketTypeOK
    <3>3. subs' = subs \ {c}
      BY <1>0, <3>1, <3>2 DEF Subscribed
    <3>4. QED
      BY <3>1, <3>3 DEF SocketRouting!Leave
  <2>6. ASSUME NEW c \in Connectors, SocketTake(c)
        PROVE  IF c \in Careful THEN SocketRouting!Take(c) ELSE UNCHANGED SocketRouting!vars
    <3>1. /\ UNCHANGED <<socketScope, subs, socketPublished, visits>>
          /\ socketInbox[c] # <<>> /\ socketInbox' = [socketInbox EXCEPT ![c] = Tail(@)]
      BY <2>6 DEF SocketTake, Subscribed
    <3>2. socketInbox[c] \in Seq(SocketEvent) /\ visits[c] \in Seq(SocketEvent)
      BY <2>1 DEF SocketTypeOK
    <3>3. /\ socketInbox[c] \o visits[c] # <<>>
          /\ Tail(socketInbox[c] \o visits[c]) = Tail(socketInbox[c]) \o visits[c]
      BY <3>1, <3>2, TailOfConcat
    <3>4. boxes' = IF c \in Careful THEN [boxes EXCEPT ![c] = Tail(@)] ELSE boxes
      BY <1>0, <2>1, <3>1, <3>3 DEF SocketTypeOK
    <3>5. QED
      BY <3>1, <3>3, <3>4 DEF SocketRouting!Take, SocketRouting!vars
  <2>7. ASSUME NEW s \in Scopes, Dispatch(s) PROVE SocketRouting!Publish(s)
    <3>1. UNCHANGED <<socketScope, socketActive, socketCall, socketInbox>>
          /\ socketPublished' = socketPublished + 1
      BY <2>7 DEF Dispatch
    <3>2. subs' = subs
      BY <3>1 DEF Subscribed
    <3>3. \A t, u : SocketRouting!Covers(t, u) = Covers(t, u)
      BY DEF SocketRouting!Covers, Covers, SocketRouting!IsSuperScopeOf, IsSuperScopeOf
    <3>4. ASSUME NEW c \in Careful
          PROVE  boxes'[c] = IF c \in subs /\ Covers(scopes[c], s)
                             THEN Append(boxes[c], [id |-> socketPublished + 1, scope |-> s])
                             ELSE boxes[c]
      <4>1. socketInbox[c] \in Seq(SocketEvent)
        BY <1>0, <2>1 DEF SocketTypeOK
      <4>2. /\ visits[c] = <<>>
            /\ visits'[c] = IF Listed(socketScope[c], c) /\ Covers(socketScope[c], s)
                            THEN <<[id |-> socketPublished + 1, scope |-> s]>> ELSE <<>>
        BY <1>0, <1>2, <2>7, ToVisit
      <4>3. Listed(socketScope[c], c) <=> c \in subs
        <5>1. c \in subs => ~SocketExpired(c)
          BY <1>0, <2>1 DEF LifeInv, Life, Subscribed, SocketExpired, Careful
        <5>2. QED
          BY <1>0, <2>1, <5>1 DEF SinksMatchConnectors, Listed
      <4>4. /\ socketInbox[c] \o <<>> = socketInbox[c]
            /\ \A e : socketInbox[c] \o <<e>> = Append(socketInbox[c], e)
        BY <4>1
      <4>5. QED
        BY <3>1, <4>2, <4>3, <4>4
    <3>5. boxes' = [c \in Careful |->
                       IF c \in subs /\ Covers(scopes[c], s)
                       THEN Append(boxes[c], [id |-> socketPublished + 1, scope |-> s])
                       ELSE boxes[c]]
      BY <3>4
    <3>6. QED
      BY <3>1, <3>2, <3>3, <3>5 DEF SocketRouting!Publish
  <2>8. ASSUME NEW c \in Connectors, Visit(c) \/ PassOver(c) \/ LetGo(c)
        PROVE  UNCHANGED SocketRouting!vars
    <3>1. UNCHANGED <<scopes, subs, socketPublished>>
      BY <2>8 DEF Visit, PassOver, LetGo, Subscribed
    <3>2. ASSUME NEW d \in Careful PROVE socketInbox'[d] \o visits'[d] = socketInbox[d] \o visits[d]
      <4>1. socketInbox[d] \in Seq(SocketEvent) /\ visits[d] \in Seq(SocketEvent)
        BY <1>0, <2>1 DEF SocketTypeOK
      <4>2. CASE d = c /\ Visit(c)
        <5>1. /\ socketInbox'[d] = Append(socketInbox[d], Head(visits[d]))
              /\ visits'[d] = Tail(visits[d]) /\ visits[d] # <<>>
          BY <2>1, <4>2 DEF Visit, SocketTypeOK
        <5>2. QED
          BY <4>1, <5>1, HandOver
      <4>3. CASE d = c /\ PassOver(c)
        <5>1. Subscribed(c) /\ SocketExpired(c)
          BY <1>2, <4>3 DEF PassOver, SinksInv, VisitInv
        <5>2. QED
          BY <2>1, <4>3, <5>1 DEF LifeInv, Life, Subscribed, SocketExpired, Careful
      <4>4. CASE d # c \/ LetGo(c)
        BY <1>0, <2>1, <2>8, <4>4 DEF Visit, PassOver, LetGo, SocketTypeOK
      <4>5. QED
        BY <2>8, <4>2, <4>3, <4>4
    <3>3. boxes' = boxes
      BY <3>2
    <3>4. QED
      BY <3>1, <3>3 DEF SocketRouting!vars
  <2>9. CASE UNCHANGED socketVars
    BY <2>9 DEF socketVars, SocketRouting!vars, Subscribed
  <2>10. QED
    BY <1>2, <2>2, <2>3, <2>4, <2>5, <2>6, <2>7, <2>8, <2>9
       DEF SocketNext, SocketOwnerStep, BusStep, SocketRouting!Next
<1>3. QED
  BY <1>1, <1>2, SinksInvInit, SinksInvNext, PTL
     DEF SocketSpec, SocketRoutingSpec, SocketRouting!Spec
================================================================================
