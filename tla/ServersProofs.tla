----------------------------- MODULE ServersProofs -----------------------------
(***************************************************************************)
(* Proofs about the request-reply pattern: about the calls of a method     *)
(* (RemoteCall), for any number of callers, servers and transports, and    *)
(* about the methods of a server (ServerMethods), for any number of        *)
(* threads, names and events.                                              *)
(***************************************************************************)
EXTENDS RemoteCall, ServerMethods, TLAPS

-----------------------------------------------------------------------------
(* The calls of a method *)


\* The elements of a sequence
Elems(q) == {q[i] : i \in DOMAIN q}

LEMMA ElemsConcat ==
  ASSUME NEW S, NEW p \in Seq(S), NEW q \in Seq(S)
  PROVE  /\ p \o q \in Seq(S)
         /\ Elems(p \o q) = Elems(p) \cup Elems(q)
<1>1. p \o q \in Seq(S)
  OBVIOUS
<1>2. ASSUME NEW x \in Elems(p \o q) PROVE x \in Elems(p) \cup Elems(q)
  <2>1. PICK i \in DOMAIN (p \o q) : x = (p \o q)[i]
    BY DEF Elems
  <2>2. CASE i <= Len(p)
    BY <2>1, <2>2 DEF Elems
  <2>3. CASE i > Len(p)
    <3>1. i - Len(p) \in DOMAIN q /\ x = q[i - Len(p)]
      BY <2>1, <2>3
    <3> QED BY <3>1 DEF Elems
  <2> QED BY <2>1, <2>2, <2>3
<1>3. ASSUME NEW i \in DOMAIN p PROVE p[i] \in Elems(p \o q)
  <2>1. i \in DOMAIN (p \o q) /\ (p \o q)[i] = p[i]
    OBVIOUS
  <2> QED BY <2>1 DEF Elems
<1>4. ASSUME NEW i \in DOMAIN q PROVE q[i] \in Elems(p \o q)
  <2>1. i + Len(p) \in DOMAIN (p \o q) /\ (p \o q)[i + Len(p)] = q[i]
    OBVIOUS
  <2> QED BY <2>1 DEF Elems
<1>5. Elems(p) \cup Elems(q) \subseteq Elems(p \o q)
  BY <1>3, <1>4 DEF Elems
<1> QED BY <1>1, <1>2, <1>5

LEMMA ElemsTail ==
  ASSUME NEW S, NEW q \in Seq(S), q # <<>>
  PROVE  /\ Head(q) \in S /\ Tail(q) \in Seq(S)
         /\ Elems(q) = {Head(q)} \cup Elems(Tail(q))
<1>1. Head(q) \in S /\ Tail(q) \in Seq(S)
  OBVIOUS
<1>2. ASSUME NEW i \in DOMAIN q PROVE q[i] \in {Head(q)} \cup Elems(Tail(q))
  <2>1. CASE i = 1
    BY <2>1
  <2>2. CASE i # 1
    <3>1. i - 1 \in DOMAIN Tail(q) /\ Tail(q)[i - 1] = q[i]
      BY <2>2
    <3> QED BY <3>1 DEF Elems
  <2> QED BY <2>1, <2>2
<1>3. ASSUME NEW i \in DOMAIN Tail(q) PROVE Tail(q)[i] \in Elems(q)
  <2>1. i + 1 \in DOMAIN q /\ q[i + 1] = Tail(q)[i]
    OBVIOUS
  <2> QED BY <2>1 DEF Elems
<1>4. Head(q) \in Elems(q)
  <2>1. 1 \in DOMAIN q /\ Head(q) = q[1]
    OBVIOUS
  <2> QED BY <2>1 DEF Elems
<1> QED BY <1>1, <1>2, <1>3, <1>4 DEF Elems

LEMMA ElemsTimes ==
  ASSUME NEW S, NEW e \in S, NEW n \in Nat
  PROVE  /\ Times(n, e) \in Seq(S)
         /\ Elems(Times(n, e)) \subseteq {e}
         /\ n > 0 => Elems(Times(n, e)) = {e}
<1>1. Times(n, e) \in Seq(S)
  BY DEF Times
<1>2. DOMAIN Times(n, e) = 1..n /\ \A i \in 1..n : Times(n, e)[i] = e
  BY DEF Times
<1>3. ASSUME n > 0 PROVE 1 \in DOMAIN Times(n, e) /\ Times(n, e)[1] = e
  BY <1>2, <1>3
<1> QED BY <1>1, <1>2, <1>3 DEF Elems

LEMMA ElemsAppend ==
  ASSUME NEW S, NEW q \in Seq(S), NEW e \in S
  PROVE  /\ Append(q, e) \in Seq(S)
         /\ Len(Append(q, e)) = Len(q) + 1
         /\ Elems(Append(q, e)) = Elems(q) \cup {e}
<1>1. Append(q, e) = q \o <<e>> /\ <<e>> \in Seq(S)
  OBVIOUS
<1>2. Elems(<<e>>) = {e}
  BY DEF Elems
<1>3. Elems(q \o <<e>>) = Elems(q) \cup Elems(<<e>>) /\ q \o <<e>> \in Seq(S)
  BY <1>1, ElemsConcat
<1>4. Len(Append(q, e)) = Len(q) + 1
  OBVIOUS
<1> QED BY <1>1, <1>2, <1>3, <1>4

-----------------------------------------------------------------------------
(* Type correctness *)

\* The caller's and the servers' state always has its type: each handler
\* leaves maps and queues well formed.
THEOREM TypeCorrect == Spec => []TypeOK
<1>1. Init => TypeOK
  BY DEF Init, TypeOK, Reply
<1>2. TypeOK /\ [Next]_vars => TypeOK'
  <2> SUFFICES ASSUME TypeOK, [Next]_vars PROVE TypeOK'
    OBVIOUS
  <2> USE TransportsAssumption, ModesAssumption
  <2>1. ASSUME NEW c \in Calls, BeginCall(c) PROVE TypeOK'
    <3>1. ASSUME NEW s \in Servers PROVE requests[s] \o Copies(c) \in Seq(Calls)
      BY ElemsTimes, ElemsConcat DEF TypeOK, Copies
    <3> QED BY <2>1, <3>1 DEF TypeOK, BeginCall
  <2>2. ASSUME NEW c \in Calls, FailCall(c) PROVE TypeOK'
    <3>1. PICK n \in 0..(Transports - 1) :
             requests' = [s \in Servers |-> requests[s] \o Times(n, c)]
      BY <2>2 DEF FailCall
    <3>2. ASSUME NEW s \in Servers PROVE requests[s] \o Times(n, c) \in Seq(Calls)
      BY ElemsTimes, ElemsConcat DEF TypeOK
    <3> QED BY <2>2, <3>1, <3>2 DEF TypeOK, FailCall
  <2>3. ASSUME NEW c \in Calls, FinishCall(c) \/ GetResult(c) \/ Timeout(c) PROVE TypeOK'
    BY <2>3 DEF TypeOK, FinishCall, GetResult, Timeout
  <2>4. CASE HandleReply
    <3> DEFINE r == Head(replies)
    <3>1. r \in Reply /\ Tail(replies) \in Seq(Reply)
      BY <2>4, ElemsTail DEF TypeOK, HandleReply
    <3>2. future' \in [Calls -> Seq(Outcomes)]
      <4>1. CASE r.first \in inprogress
        <5>1. r.first \in Calls /\ r.outcome \in Outcomes
          BY <3>1, <4>1 DEF TypeOK, Reply
        <5>2. Append(future[r.first], r.outcome) \in Seq(Outcomes)
          BY <5>1, ElemsAppend DEF TypeOK
        <5>3. future' = [future EXCEPT ![r.first] = Append(future[r.first], r.outcome)]
          BY <2>4, <4>1 DEF HandleReply
        <5> QED BY <5>1, <5>2, <5>3 DEF TypeOK
      <4>2. CASE r.first \notin inprogress
        BY <2>4, <4>2 DEF HandleReply, TypeOK
      <4> QED BY <4>1, <4>2
    <3>3. inprogress' \subseteq Calls
      BY <2>4 DEF HandleReply, TypeOK
    <3> QED BY <2>4, <3>1, <3>2, <3>3 DEF TypeOK, HandleReply
  <2>5. ASSUME NEW s \in Servers, RejectRequest(s) \/ EscapeRequest(s) PROVE TypeOK'
    <3>1. requests[s] # <<>> /\ requests[s] \in Seq(Calls)
      BY <2>5 DEF RejectRequest, EscapeRequest, TypeOK
    <3>2. Head(requests[s]) \in Calls /\ Tail(requests[s]) \in Seq(Calls)
      BY <3>1, ElemsTail
    <3>3. requests' \in [Servers -> Seq(Calls)]
      BY <2>5, <3>2 DEF RejectRequest, EscapeRequest, TypeOK
    <3>4. CASE RejectRequest(s)
      BY <3>2, <3>3, <3>4 DEF RejectRequest, TypeOK
    <3>5. CASE EscapeRequest(s)
      BY <3>3, <3>5 DEF EscapeRequest, TypeOK
    <3> QED BY <2>5, <3>4, <3>5
  <2>6. ASSUME NEW s \in Servers, NEW o \in Outcomes, AnswerRequest(s, o) PROVE TypeOK'
    <3> DEFINE c == Head(requests[s])
    <3>1. requests[s] # <<>> /\ requests[s] \in Seq(Calls)
      BY <2>6 DEF AnswerRequest, TypeOK
    <3>2. c \in Calls /\ Tail(requests[s]) \in Seq(Calls)
      BY <3>1, ElemsTail
    <3>3. PICK first \in FirstCauses(c) :
             replies' = replies \o Copies([of |-> c, outcome |-> o, first |-> first])
      BY <2>6 DEF AnswerRequest, FirstCauses
    <3>4. [of |-> c, outcome |-> o, first |-> first] \in Reply
      BY <3>2, <3>3 DEF Reply, FirstCauses
    <3>5. replies' \in Seq(Reply)
      BY <3>3, <3>4, ElemsTimes, ElemsConcat DEF TypeOK, Copies
    <3>6. requests' \in [Servers -> Seq(Calls)]
      BY <2>6, <3>2 DEF AnswerRequest, TypeOK
    <3>7. produced' \in [Calls -> SUBSET Outcomes]
      BY <2>6, <3>2 DEF AnswerRequest, TypeOK
    <3> QED BY <2>6, <3>5, <3>6, <3>7 DEF AnswerRequest, TypeOK
  <2>7. CASE UNCHANGED vars
    BY <2>7 DEF TypeOK, vars
  <2> QED
    BY <2>1, <2>2, <2>3, <2>4, <2>5, <2>6, <2>7 DEF Next, CallerStep, ServerStep
<1> QED BY <1>1, <1>2, PTL DEF Spec

-----------------------------------------------------------------------------
(* The inductive invariant *)

\* The mutex is held by the call being published, and the map has exactly the
\* calls whose future is still to be set.
Registered ==
    /\ mutex = {c \in Calls : pc[c] = "publishing"}
    /\ inprogress = {c \in Calls : pc[c] \in {"waiting", "timeout"} /\ future[c] = <<>>}

\* What has not happened before a call is registered
Fresh ==
    \A c \in Calls :
        /\ pc[c] \in {"idle", "publishing", "failed"} => future[c] = <<>>
        /\ pc[c] = "idle" => produced[c] = {}
        /\ pc[c] = "done" => future[c] # <<>>

\* Servers have received only what was sent.
Sent == \A s \in Servers : \A c \in Elems(requests[s]) : pc[c] # "idle"

\* Replies and futures carry outcomes that were produced for the call, and a
\* future has at most one.
Truthful ==
    /\ \A r \in Elems(replies) : r.outcome \in produced[r.of] /\ r.first \in FirstCauses(r.of)
    /\ \A c \in Calls : Len(future[c]) <= 1 /\ Elems(future[c]) \subseteq produced[c]

\* NoReplyLost in terms of the set of queued replies
Answered ==
    \A c \in Calls :
        produced[c] # {} /\ pc[c] # "failed" /\ ~OwnCauses
            => future[c] # <<>> \/ \E r \in Elems(replies) : r.first = c

IInv == TypeOK /\ Registered /\ Fresh /\ Sent /\ Truthful /\ Answered

LEMMA InitInvariant == Init => IInv
<1> SUFFICES ASSUME Init PROVE IInv
  OBVIOUS
<1>1. TypeOK
  BY DEF Init, TypeOK, Reply
<1>2. \A S : Elems(<<>>) = {}
  BY DEF Elems
<1>3. Registered /\ Fresh
  BY DEF Init, Registered, Fresh
<1>4. Sent /\ Truthful /\ Answered
  BY <1>2 DEF Init, Sent, Truthful, Answered
<1> QED BY <1>1, <1>3, <1>4 DEF IInv

\* Sending a request, wholly or in part, disturbs only Sent.
LEMMA CallInvariant ==
  ASSUME IInv, TypeOK', NEW c \in Calls, BeginCall(c) \/ FailCall(c)
  PROVE  IInv'
<1> USE DEF IInv
<1>1. PICK n \in Nat : requests' = [s \in Servers |-> requests[s] \o Times(n, c)]
  <2>1. CASE BeginCall(c)
    BY <2>1, TransportsAssumption DEF BeginCall, Copies
  <2>2. CASE FailCall(c)
    <3>1. PICK n \in 0..(Transports - 1) :
             requests' = [s \in Servers |-> requests[s] \o Times(n, c)]
      BY <2>2 DEF FailCall
    <3>2. n \in Nat
      BY <3>1, TransportsAssumption
    <3> QED BY <3>1, <3>2
  <2> QED BY <2>1, <2>2
<1>2. pc[c] = "idle" /\ mutex = {} /\ UNCHANGED <<inprogress, future, replies, produced>>
  BY DEF BeginCall, FailCall
<1>3. \/ mutex' = {c} /\ pc' = [pc EXCEPT ![c] = "publishing"]
      \/ mutex' = mutex /\ pc' = [pc EXCEPT ![c] = "failed"]
  BY DEF BeginCall, FailCall
<1>4. pc \in [Calls -> {"idle", "publishing", "failed", "waiting", "done", "timeout"}]
  BY DEF TypeOK
<1>5. Registered' /\ Fresh'
  BY <1>2, <1>3, <1>4 DEF Registered, Fresh
<1>6. Sent'
  <2>1. ASSUME NEW s \in Servers PROVE Elems(requests'[s]) \subseteq Elems(requests[s]) \cup {c}
    <3>1. Elems(requests[s] \o Times(n, c)) = Elems(requests[s]) \cup Elems(Times(n, c))
      BY ElemsTimes, ElemsConcat DEF TypeOK
    <3>2. Elems(Times(n, c)) \subseteq {c}
      BY ElemsTimes
    <3> QED BY <1>1, <3>1, <3>2
  <2>2. \A d \in Calls : pc[d] # "idle" \/ d = c => pc'[d] # "idle"
    BY <1>3, <1>4
  <2>3. \A s \in Servers : Elems(requests'[s]) \subseteq Calls
    BY DEF TypeOK, Elems
  <2> QED BY <2>1, <2>2, <2>3 DEF Sent
<1>7. Truthful'
  BY <1>2 DEF Truthful
<1>8. Answered'
  BY <1>2, <1>3, <1>4 DEF Answered, Fresh
<1> QED BY <1>5, <1>6, <1>7, <1>8

LEMMA ResultInvariant ==
  ASSUME IInv, TypeOK', NEW c \in Calls, FinishCall(c) \/ GetResult(c) \/ Timeout(c)
  PROVE  IInv'
<1> USE DEF IInv
<1>1. UNCHANGED <<future, requests, replies, produced>>
  BY DEF FinishCall, GetResult, Timeout
<1>2. pc \in [Calls -> {"idle", "publishing", "failed", "waiting", "done", "timeout"}]
  BY DEF TypeOK
<1>3. /\ pc[c] \in {"publishing", "waiting"}
      /\ \E x \in {"waiting", "done", "timeout"} : pc' = [pc EXCEPT ![c] = x]
  BY DEF FinishCall, GetResult, Timeout
<1>4. Registered' /\ Fresh'
  BY <1>1, <1>2 DEF Registered, Fresh, FinishCall, GetResult, Timeout
<1>5. Sent' /\ Truthful' /\ Answered'
  <2>1. \A d \in Calls : /\ pc[d] # "idle" => pc'[d] # "idle"
                         /\ pc'[d] # "failed" => pc[d] # "failed"
    BY <1>2, <1>3
  <2>2. \A s \in Servers : Elems(requests[s]) \subseteq Calls
    BY DEF TypeOK, Elems
  <2> QED BY <1>1, <2>1, <2>2 DEF Sent, Truthful, Answered
<1> QED BY <1>4, <1>5

\* The first reply for an entry completes the future and erases the entry;
\* every other reply only leaves the queue.
LEMMA ReplyInvariant ==
  ASSUME IInv, TypeOK', HandleReply
  PROVE  IInv'
<1> USE DEF IInv
<1> DEFINE r == Head(replies)
           c == r.first
<1>1. /\ r \in Reply /\ replies' \in Seq(Reply)
      /\ Elems(replies) = {r} \cup Elems(replies')
  BY ElemsTail DEF HandleReply, TypeOK
<1>2. r.outcome \in produced[r.of] /\ c \in FirstCauses(r.of)
  BY <1>1 DEF Truthful
<1>3. UNCHANGED <<pc, mutex, requests, produced>> /\ mutex = {}
  BY DEF HandleReply
<1>4. inprogress' = inprogress \ {c}
  BY DEF HandleReply
<1>5. CASE c \in inprogress
  <2>1. c \in Calls /\ c = r.of /\ pc[c] \in {"waiting", "timeout"} /\ future[c] = <<>>
    BY <1>1, <1>2, <1>5, ForeignAssumption DEF Registered, FirstCauses, Reply
  <2>2. r.outcome \in Outcomes
    BY <1>1 DEF Reply
  <2>3. future' = [future EXCEPT ![c] = Append(future[c], r.outcome)]
    BY <1>5 DEF HandleReply
  <2>4. future \in [Calls -> Seq(Outcomes)] /\ DOMAIN future = Calls
    BY DEF TypeOK
  <2>5. future'[c] = Append(<<>>, r.outcome) /\ \A d \in Calls \ {c} : future'[d] = future[d]
    BY <2>1, <2>3, <2>4
  <2>6. Len(future'[c]) = 1 /\ future'[c] # <<>> /\ Elems(future'[c]) = {r.outcome}
    <3>1. future'[c] = <<r.outcome>>
      BY <2>5
    <3> QED BY <3>1 DEF Elems
  <2>7. Registered'
    BY <1>3, <1>4, <2>1, <2>5, <2>6 DEF Registered
  <2>8. Fresh'
    BY <1>3, <2>1, <2>5, <2>6 DEF Fresh
  <2>9. Truthful'
    <3>1. ASSUME NEW d \in Calls
          PROVE  Len(future'[d]) <= 1 /\ Elems(future'[d]) \subseteq produced[d]
      <4>1. CASE d = c
        <5>1. {r.outcome} \subseteq produced[c]
          BY <1>2, <2>1
        <5>2. Len(future'[c]) <= 1 /\ Elems(future'[c]) \subseteq produced[c]
          BY <2>6, <5>1
        <5> QED BY <4>1, <5>2
      <4>2. CASE d # c
        BY <2>5, <4>2 DEF Truthful
      <4> QED BY <4>1, <4>2
    <3>2. \A x \in Elems(replies') : x.outcome \in produced[x.of] /\ x.first \in FirstCauses(x.of)
      BY <1>1 DEF Truthful
    <3> QED BY <1>3, <3>1, <3>2 DEF Truthful, FirstCauses
  <2>10. Answered'
    BY <1>1, <1>3, <2>5, <2>6 DEF Answered
  <2> QED BY <1>3, <2>7, <2>8, <2>9, <2>10 DEF Sent
<1>6. CASE c \notin inprogress
  <2>1. UNCHANGED <<inprogress, future>>
    BY <1>4, <1>6 DEF HandleReply
  <2>2. Registered' /\ Fresh' /\ Sent' /\ Truthful'
    BY <1>1, <1>3, <2>1 DEF Registered, Fresh, Sent, Truthful
  <2>3. Answered'
    <3>1. ASSUME c \in Calls, produced[c] # {}, pc[c] # "failed" PROVE future[c] # <<>>
      <4>1. pc[c] \notin {"idle", "publishing"}
        BY <1>3, <3>1 DEF Fresh, Registered
      <4>2. pc[c] \in {"waiting", "timeout", "done"}
        BY <3>1, <4>1 DEF TypeOK
      <4> QED BY <1>6, <3>1, <4>2 DEF Registered, Fresh
    <3> QED BY <1>1, <1>3, <2>1, <3>1 DEF Answered
  <2> QED BY <2>2, <2>3
<1> QED BY <1>5, <1>6

LEMMA DropInvariant ==
  ASSUME IInv, TypeOK', NEW s \in Servers, RejectRequest(s) \/ EscapeRequest(s)
  PROVE  IInv'
<1> USE DEF IInv
<1>1. UNCHANGED <<pc, mutex, inprogress, future, replies, produced>>
  BY DEF RejectRequest, EscapeRequest
<1>2. requests[s] # <<>> /\ requests' = [requests EXCEPT ![s] = Tail(requests[s])]
  BY DEF RejectRequest, EscapeRequest
<1>3. \A t \in Servers : Elems(requests'[t]) \subseteq Elems(requests[t])
  <2>1. Elems(Tail(requests[s])) \subseteq Elems(requests[s])
    BY <1>2, ElemsTail DEF TypeOK
  <2> QED BY <1>2, <2>1 DEF TypeOK
<1> QED BY <1>1, <1>3 DEF Registered, Fresh, Sent, Truthful, Answered

\* An outcome is produced and its reply queued in one step.
LEMMA AnswerInvariant ==
  ASSUME IInv, TypeOK', NEW s \in Servers, NEW o \in Outcomes, AnswerRequest(s, o)
  PROVE  IInv'
<1> USE DEF IInv
<1> DEFINE c == Head(requests[s])
<1>1. requests[s] # <<>> /\ requests' = [requests EXCEPT ![s] = Tail(requests[s])]
  BY DEF AnswerRequest
<1>2. c \in Calls /\ c \in Elems(requests[s]) /\ Elems(Tail(requests[s])) \subseteq Elems(requests[s])
  BY <1>1, ElemsTail DEF TypeOK
<1>3. pc[c] # "idle"
  BY <1>2 DEF Sent
<1>4. UNCHANGED <<pc, mutex, inprogress, future>>
  BY DEF AnswerRequest
<1>5. produced' = [produced EXCEPT ![c] = produced[c] \cup {o}]
  BY DEF AnswerRequest
<1>6. PICK first \in FirstCauses(c) :
         replies' = replies \o Copies([of |-> c, outcome |-> o, first |-> first])
  BY DEF AnswerRequest, FirstCauses
<1> DEFINE a == [of |-> c, outcome |-> o, first |-> first]
<1>7. Elems(replies') = Elems(replies) \cup {a}
  <2>1. a \in Reply
    BY <1>2, <1>6 DEF Reply, FirstCauses
  <2>2. Copies(a) \in Seq(Reply) /\ Elems(Copies(a)) = {a}
    <3>1. Transports \in Nat /\ Transports > 0
      BY TransportsAssumption
    <3>2. Times(Transports, a) \in Seq(Reply) /\ Elems(Times(Transports, a)) = {a}
      BY <2>1, <3>1, ElemsTimes
    <3> QED BY <3>2 DEF Copies
  <2> QED BY <1>6, <2>2, ElemsConcat DEF TypeOK
<1>8. /\ \A d \in Calls : produced[d] \subseteq produced'[d]
      /\ \A d \in Calls \ {c} : produced'[d] = produced[d]
      /\ o \in produced'[c]
  BY <1>2, <1>5 DEF TypeOK
<1>9. Registered' /\ Fresh'
  BY <1>3, <1>4, <1>8 DEF Registered, Fresh
<1>10. Sent'
  <2>1. \A t \in Servers : Elems(requests'[t]) \subseteq Elems(requests[t])
    BY <1>1, <1>2 DEF TypeOK
  <2> QED BY <1>4, <2>1 DEF Sent
<1>11. Truthful'
  <2>1. \A r \in Elems(replies) : r.of \in Calls
    <3>1. Elems(replies) \subseteq Reply
      BY DEF TypeOK, Elems
    <3> QED BY <3>1 DEF Reply
  <2>2. \A r \in Elems(replies) : r.outcome \in produced'[r.of] /\ r.first \in FirstCauses(r.of)
    BY <1>8, <2>1 DEF Truthful
  <2>3. a.outcome \in produced'[a.of] /\ a.first \in FirstCauses(a.of)
    BY <1>6, <1>8
  <2>4. \A d \in Calls : Len(future'[d]) <= 1 /\ Elems(future'[d]) \subseteq produced'[d]
    BY <1>4, <1>8 DEF Truthful
  <2> QED BY <1>7, <2>2, <2>3, <2>4 DEF Truthful, FirstCauses
<1>12. Answered'
  <2>1. ~OwnCauses => a.first = c
    BY <1>6 DEF FirstCauses
  <2> QED BY <1>4, <1>7, <1>8, <2>1 DEF Answered
<1> QED BY <1>9, <1>10, <1>11, <1>12

LEMMA StepInvariant == IInv /\ TypeOK' /\ [Next]_vars => IInv'
<1> SUFFICES ASSUME IInv, TypeOK', [Next]_vars PROVE IInv'
  OBVIOUS
<1>1. ASSUME NEW c \in Calls, CallerStep(c) PROVE IInv'
  BY <1>1, CallInvariant, ResultInvariant DEF CallerStep
<1>2. CASE HandleReply
  BY <1>2, ReplyInvariant
<1>3. ASSUME NEW s \in Servers, ServerStep(s) PROVE IInv'
  BY <1>3, DropInvariant, AnswerInvariant DEF ServerStep
<1>4. CASE UNCHANGED vars
  BY <1>4 DEF vars, IInv, TypeOK, Registered, Fresh, Sent, Truthful, Answered
<1> QED BY <1>1, <1>2, <1>3, <1>4 DEF Next

LEMMA Invariant == Spec => []IInv
<1>1. TypeOK /\ IInv => IInv
  OBVIOUS
<1> QED BY InitInvariant, StepInvariant, TypeCorrect, PTL DEF Spec

-----------------------------------------------------------------------------
(* The properties *)

\* No reply that a server produced is lost on its way to the future, however
\* quickly it comes.
THEOREM RepliesArrive == Spec => []NoReplyLost
<1>1. IInv => NoReplyLost
  BY DEF IInv, Answered, NoReplyLost, Elems
<1> QED BY <1>1, Invariant, PTL

\* No future is completed twice, for any number of servers and transports.
THEOREM CompletesOnce == Spec => []CompletedOnce
<1>1. IInv => CompletedOnce
  BY DEF IInv, Truthful, CompletedOnce
<1> QED BY <1>1, Invariant, PTL

\* The map of pending calls has no entry of an answered or a failed call.
THEOREM EntriesArePending == Spec => []EntryMeansUnanswered
<1>1. IInv => EntryMeansUnanswered
  BY DEF IInv, Registered, EntryMeansUnanswered
<1> QED BY <1>1, Invariant, PTL

\* A call is settled once, and then it is out of the map (RemoteServer.cpp:116).
THEOREM CallsSettle == Spec => []SettledOnce
<1> QED BY CompletesOnce, EntriesArePending, PTL DEF SettledOnce

-----------------------------------------------------------------------------
(* RemoteCall implements RpcContract *)

\* Every step of callers and servers is a step of the contract or hidden by it:
\* a future is completed only once and only with an outcome of its own call.
THEOREM Implements == Spec => RpcSpec
<1> DEFINE Called == {c \in Calls : pc[c] # "idle"}
           Futures == [c \in Calls |-> {future[c][i] : i \in DOMAIN future[c]}]
<1>1. Init => Rpc!Init
  BY DEF Init, Rpc!Init
<1>2. IInv /\ TypeOK' /\ [Next]_vars => [Rpc!Next]_(Rpc!vars)
  <2> SUFFICES ASSUME IInv, TypeOK', [Next]_vars PROVE [Rpc!Next]_(Rpc!vars)
    OBVIOUS
  <2>0. TypeOK
    BY DEF IInv
  <2>1. ASSUME NEW c \in Calls, BeginCall(c) \/ FailCall(c) PROVE Rpc!Call(c)
    <3>1. pc[c] = "idle" /\ UNCHANGED <<produced, future>>
      BY <2>1 DEF BeginCall, FailCall
    <3>2. \E x \in {"publishing", "failed"} : pc' = [pc EXCEPT ![c] = x]
      BY <2>1 DEF BeginCall, FailCall
    <3>3. c \notin Called /\ Called' = Called \cup {c}
      BY <2>0, <3>1, <3>2 DEF TypeOK
    <3> QED BY <3>1, <3>3 DEF Rpc!Call
  <2>2. ASSUME NEW c \in Calls, FinishCall(c) \/ GetResult(c) \/ Timeout(c)
        PROVE  UNCHANGED Rpc!vars
    <3>1. pc[c] # "idle" /\ UNCHANGED <<produced, future>>
      BY <2>2 DEF FinishCall, GetResult, Timeout
    <3>2. \E x \in {"waiting", "done", "timeout"} : pc' = [pc EXCEPT ![c] = x]
      BY <2>2 DEF FinishCall, GetResult, Timeout
    <3>3. Called' = Called
      BY <2>0, <3>1, <3>2 DEF TypeOK
    <3> QED BY <3>1, <3>3 DEF Rpc!vars
  <2>3. CASE HandleReply
    <3> DEFINE r == Head(replies)
               c == r.first
    <3>1. r \in Reply /\ r \in Elems(replies)
      BY <2>0, <2>3, ElemsTail DEF HandleReply, TypeOK
    <3>2. r.outcome \in produced[r.of] /\ c \in FirstCauses(r.of) /\ r.outcome \in Outcomes
      BY <3>1 DEF IInv, Truthful, Reply
    <3>3. UNCHANGED <<pc, produced>>
      BY <2>3 DEF HandleReply
    <3>4. CASE c \in inprogress
      <4>1. c \in Calls /\ c = r.of /\ future[c] = <<>>
        BY <3>1, <3>2, <3>4, ForeignAssumption DEF IInv, Registered, FirstCauses, Reply
      <4>2. future' = [future EXCEPT ![c] = Append(future[c], r.outcome)]
        BY <2>3, <3>4 DEF HandleReply
      <4>3. future'[c] = <<r.outcome>> /\ \A d \in Calls \ {c} : future'[d] = future[d]
        BY <2>0, <4>1, <4>2 DEF TypeOK
      <4>4. {future'[c][i] : i \in DOMAIN future'[c]} = {r.outcome}
        BY <4>3
      <4>5. Futures[c] = {}
        BY <4>1
      <4>6. Futures' = [Futures EXCEPT ![c] = {r.outcome}]
        <5> DEFINE After == [Futures EXCEPT ![c] = {r.outcome}]
        <5>1. \A d \in Calls \ {c} : Futures'[d] = After[d]
          BY <4>3
        <5>2. Futures'[c] = After[c]
          BY <4>1, <4>4
        <5> QED BY <5>1, <5>2
      <4>7. Rpc!Complete(c, r.outcome)
        BY <3>2, <3>3, <4>1, <4>5, <4>6 DEF Rpc!Complete
      <4>8. c \in Calls /\ r.outcome \in Outcomes
        BY <3>2, <4>1
      <4>9. Rpc!Next
        BY <4>7, <4>8 DEF Rpc!Next, Rpc!Complete
      <4> QED BY <4>9
    <3>5. CASE c \notin inprogress
      <4>1. UNCHANGED future
        BY <2>3, <3>5 DEF HandleReply
      <4> QED BY <3>3, <4>1 DEF Rpc!vars
    <3> QED BY <3>4, <3>5
  <2>4. ASSUME NEW s \in Servers, RejectRequest(s) \/ EscapeRequest(s)
        PROVE  UNCHANGED Rpc!vars
    BY <2>4 DEF RejectRequest, EscapeRequest, Rpc!vars
  <2>5. ASSUME NEW s \in Servers, NEW o \in Outcomes, AnswerRequest(s, o)
        PROVE  Rpc!Produce(Head(requests[s]), o) /\ Head(requests[s]) \in Calls
    <3> DEFINE c == Head(requests[s])
    <3>1. c \in Calls /\ c \in Elems(requests[s])
      BY <2>0, <2>5, ElemsTail DEF AnswerRequest, TypeOK
    <3>2. pc[c] # "idle"
      BY <3>1 DEF IInv, Sent
    <3>3. UNCHANGED <<pc, future>> /\ produced' = [produced EXCEPT ![c] = @ \cup {o}]
      BY <2>5 DEF AnswerRequest
    <3> QED BY <3>1, <3>2, <3>3 DEF Rpc!Produce
  <2>6. CASE UNCHANGED vars
    BY <2>6 DEF vars, Rpc!vars
  <2> QED
    BY <2>1, <2>2, <2>3, <2>4, <2>5, <2>6 DEF Next, CallerStep, ServerStep, Rpc!Next
<1> QED BY <1>1, <1>2, Invariant, TypeCorrect, PTL DEF Spec, RpcSpec, Rpc!Spec

-----------------------------------------------------------------------------
(* The methods of a server *)

\* Positions of a thread that makes a method, or is about to
Building == {"making", "filtering", "attaching", "entering"}
Working == Building \cup {"looking"}

\* One thread at a time looks into the map, and enters what was not in it.
OneBuilds == \A s, t \in Threads : at[s] \in Working /\ at[t] \in Working => s = t
BuilderLocks == \A t \in Threads : at[t] \in Working /\ class = "remote" => methodsMutex = t
OwnerIsAlone == class = "local" => \A s, t \in Busy : s = t
BuildsWhatIsMissing == \A t \in Threads : at[t] \in Building => methods[name[t]] = Nobody
CallsWhatIsThere == \A t \in Threads : at[t] \in {"calling", "waiting"} => methods[name[t]] # Nobody
AliveWhileBusy == Busy # {} => server = "alive"
BuilderInv ==
    /\ OneBuilds /\ BuilderLocks /\ OwnerIsAlone
    /\ BuildsWhatIsMissing /\ CallsWhatIsThere /\ AliveWhileBusy

\* The listener of a method gets its parts in order and has all of them while
\* the method is in the map of a server that is alive.
Complete(t) == listener[t].up /\ listener[t].filter /\ listener[t].handler
PartsInOrder ==
    \A t \in Threads :
        /\ at[t] \in {"filtering", "attaching", "entering"} => listener[t].up
        /\ at[t] \in {"attaching", "entering"} => listener[t].filter
        /\ at[t] = "entering" => listener[t].handler
FilterFirst ==
    \A t \in Threads : listener[t].handler \/ queue[t] # <<>> => listener[t].filter
KnownListen ==
    \A n \in Names :
        methods[n] # Nobody => /\ name[methods[n]] = n
                               /\ server = "alive" => Complete(methods[n])
ListenerInv == PartsInOrder /\ FilterFirst /\ KnownListen

\* Who has a listener, an informer or an event is in the map or being made.
Held(t) == methods[name[t]] = t \/ at[t] \in Building
HeldInv ==
    /\ \A t \in Threads : listener[t].up \/ informer[t] \/ worker[t] # "none" => Held(t)
    /\ server = "gone" => \A n \in Names : methods[n] = Nobody

MethodsInv ==
    /\ MethodsTypeOK /\ BuilderInv /\ ListenerInv /\ HeldInv
    /\ OnlyWanted /\ RepliesAreHeard

Listeners == [up : BOOLEAN, filter : BOOLEAN, handler : BOOLEAN]

LEMMA MethodsTypeInit == MethodsInit => MethodsTypeOK
<1> SUFFICES ASSUME MethodsInit PROVE MethodsTypeOK
  OBVIOUS
<1>1. NoListener \in Listeners /\ <<>> \in Seq(Kind) /\ 0 \in 0..MaxEvents
  BY MaxAssumption DEF NoListener, Listeners
<1>2. /\ listener \in [Threads -> Listeners] /\ queue \in [Threads -> Seq(Kind)]
      /\ at \in [Threads -> {"idle"}] /\ methods \in [Names -> {Nobody}]
      /\ informer \in [Threads -> BOOLEAN] /\ worker \in [Threads -> {"none"}]
  BY <1>1 DEF MethodsInit
<1>3. QED
  BY <1>1, <1>2 DEF MethodsInit, MethodsTypeOK, Listeners

\* A listener gets one part after the other.
LEMMA Equipped ==
    ASSUME MethodsTypeOK, NEW t \in Threads, MakeListener(t) \/ AddFilter(t) \/ AddHandler(t)
    PROVE  /\ listener' \in [Threads -> Listeners]
           /\ \A s \in Threads \ {t} : listener'[s] = listener[s]
           /\ MakeListener(t) => listener'[t] = [listener[t] EXCEPT !.up = TRUE]
           /\ AddFilter(t) => listener'[t] = [listener[t] EXCEPT !.filter = TRUE]
           /\ AddHandler(t) => listener'[t] = [listener[t] EXCEPT !.handler = TRUE]
<1>1. listener \in [Threads -> Listeners] /\ listener[t] \in Listeners
  BY DEF MethodsTypeOK, Listeners
<1>2. /\ [listener[t] EXCEPT !.up = TRUE] \in Listeners
      /\ [listener[t] EXCEPT !.filter = TRUE] \in Listeners
      /\ [listener[t] EXCEPT !.handler = TRUE] \in Listeners
  BY <1>1 DEF Listeners
<1>3. CASE MakeListener(t)
  <2>1. listener' = [listener EXCEPT ![t] = [listener[t] EXCEPT !.up = TRUE]] /\ at[t] = "making"
    BY <1>3 DEF MakeListener
  <2>2. QED
    BY <1>1, <1>2, <2>1 DEF AddFilter, AddHandler
<1>4. CASE AddFilter(t)
  <2>1. listener' = [listener EXCEPT ![t] = [listener[t] EXCEPT !.filter = TRUE]] /\ at[t] = "filtering"
    BY <1>4 DEF AddFilter
  <2>2. QED
    BY <1>1, <1>2, <2>1 DEF MakeListener, AddHandler
<1>5. CASE AddHandler(t)
  <2>1. listener' = [listener EXCEPT ![t] = [listener[t] EXCEPT !.handler = TRUE]] /\ at[t] = "attaching"
    BY <1>5 DEF AddHandler
  <2>2. QED
    BY <1>1, <1>2, <2>1 DEF MakeListener, AddFilter
<1>6. QED
  BY <1>3, <1>4, <1>5

LEMMA HeardIs ==
    ASSUME MethodsTypeOK, NEW n, NEW kind \in Kind
    PROVE  /\ Heard(n, kind) \in [Threads -> Seq(Kind)]
           /\ \A t \in Threads : Heard(n, kind)[t] # queue[t] => listener[t].handler
<1>1. \A t \in Threads : queue[t] \in Seq(Kind) /\ Append(queue[t], kind) \in Seq(Kind)
  BY DEF MethodsTypeOK
<1>2. QED
  BY <1>1 DEF Heard

Positions == {"idle", "looking", "making", "filtering", "attaching",
              "entering", "calling", "waiting", "done", "refused"}

LEMMA GotoIsTyped ==
    ASSUME MethodsTypeOK, NEW t \in Threads, NEW step \in Positions, Goto(t, step)
    PROVE  /\ at' \in [Threads -> Positions] /\ at'[t] = step
           /\ \A s \in Threads \ {t} : at'[s] = at[s]
BY DEF Goto, MethodsTypeOK, Positions

LEMMA MethodsTypeNext == MethodsInv /\ [MethodsNext]_methodsAndServerVars => MethodsTypeOK'
<1> SUFFICES ASSUME MethodsInv, [MethodsNext]_methodsAndServerVars PROVE MethodsTypeOK'
  OBVIOUS
<1>1. MethodsTypeOK /\ "request" \in Kind /\ "reply" \in Kind
  BY DEF MethodsInv, Kind
<1>2. ASSUME NEW t \in Threads, Begin(t) \/ LookNew(t) \/ LookKnown(t) \/ Return(t) PROVE MethodsTypeOK'
  <2>1. PICK step \in Positions : Goto(t, step)
    BY <1>2 DEF Begin, LookNew, LookKnown, Return, Positions
  <2>2. at' \in [Threads -> Positions]
    BY <1>1, <2>1, GotoIsTyped
  <2>3. /\ methodsMutex' \in {methodsMutex, t, Nobody}
        /\ UNCHANGED <<class, name, methods, server, listener, informer, queue, worker,
                       handled, unheard, arrivals>>
    BY <1>2 DEF Begin, LookNew, LookKnown, Return, serverVars, methodVars, history
  <2>4. QED
    BY <1>1, <2>2, <2>3 DEF MethodsTypeOK, Positions
<1>3. ASSUME NEW t \in Threads, MakeListener(t) \/ AddFilter(t) \/ AddHandler(t) PROVE MethodsTypeOK'
  <2>1. PICK step \in Positions : Goto(t, step)
    BY <1>3 DEF MakeListener, AddFilter, AddHandler, Positions
  <2>2. at' \in [Threads -> Positions]
    BY <1>1, <2>1, GotoIsTyped
  <2>3. listener' \in [Threads -> [up : BOOLEAN, filter : BOOLEAN, handler : BOOLEAN]]
    BY <1>1, <1>3, Equipped DEF Listeners
  <2>4. UNCHANGED <<class, name, methodsMutex, methods, server, informer, queue, worker,
                    handled, unheard, arrivals>>
    BY <1>3 DEF MakeListener, AddFilter, AddHandler, serverVars, history
  <2>5. QED
    BY <1>1, <2>2, <2>3, <2>4 DEF MethodsTypeOK, Positions
<1>4. ASSUME NEW t \in Threads, Enter(t) PROVE MethodsTypeOK'
  <2>1. PICK step \in Positions : Goto(t, step)
    BY <1>4 DEF Enter, Positions
  <2>2. at' \in [Threads -> Positions]
    BY <1>1, <2>1, GotoIsTyped
  <2>3. QED
    BY <1>1, <1>4, <2>2 DEF Enter, MethodsTypeOK, Positions, methodVars, history
<1>5. ASSUME NEW t \in Threads, Call(t) PROVE MethodsTypeOK'
  <2>1. Goto(t, "waiting") /\ "waiting" \in Positions
    BY <1>5 DEF Call, Positions
  <2>2. at' \in [Threads -> Positions]
    BY <1>1, <2>1, GotoIsTyped
  <2>3. queue' \in [Threads -> Seq(Kind)] /\ informer' \in [Threads -> BOOLEAN]
    BY <1>1, <1>5, HeardIs DEF Call, MethodsTypeOK
  <2>4. QED
    BY <1>1, <1>5, <2>2, <2>3 DEF Call, MethodsTypeOK, Positions, serverVars, history
<1>6. ASSUME NEW n \in Names, NEW kind \in Kind, Arrive(n, kind) PROVE MethodsTypeOK'
  <2>1. queue' \in [Threads -> Seq(Kind)]
    BY <1>1, <1>6, HeardIs DEF Arrive
  <2>2. arrivals' \in 0..MaxEvents /\ unheard' \in BOOLEAN
    BY <1>1, <1>6, MaxAssumption DEF Arrive, MethodsTypeOK
  <2>3. QED
    BY <1>1, <1>6, <2>1, <2>2 DEF Arrive, MethodsTypeOK, serverVars
<1>7. ASSUME NEW t \in Threads, Take(t) PROVE MethodsTypeOK'
  <2>1. queue[t] \in Seq(Kind) /\ queue[t] # <<>>
    BY <1>1, <1>7 DEF Take, MethodsTypeOK
  <2>2. Head(queue[t]) \in Kind /\ Tail(queue[t]) \in Seq(Kind)
    BY <2>1
  <2>3. /\ queue' \in [Threads -> Seq(Kind)] /\ handled' \subseteq Kind
        /\ worker' \in [Threads -> Kind \cup {"none"}]
    BY <1>1, <1>7, <2>2 DEF Take, MethodsTypeOK
  <2>4. QED
    BY <1>1, <1>7, <2>3 DEF Take, MethodsTypeOK, serverVars
<1>8. ASSUME NEW t \in Threads, Handled(t) PROVE MethodsTypeOK'
  <2>1. queue' \in [Threads -> Seq(Kind)]
    BY <1>1, <1>8, HeardIs DEF Handled, MethodsTypeOK
  <2>2. informer' \in [Threads -> BOOLEAN] /\ worker' \in [Threads -> Kind \cup {"none"}]
    BY <1>1, <1>8 DEF Handled, MethodsTypeOK
  <2>3. QED
    BY <1>1, <1>8, <2>1, <2>2 DEF Handled, MethodsTypeOK, serverVars, history
<1>9. CASE Destroy \/ Destroyed
  BY <1>1, <1>9 DEF Destroy, Destroyed, MethodsTypeOK, methodVars, history
<1>10. ASSUME NEW n \in Names, StopListener(n) PROVE MethodsTypeOK'
  <2>1. <<>> \in Seq(Kind)
    OBVIOUS
  <2>2. /\ listener' \in [Threads -> [up : BOOLEAN, filter : BOOLEAN, handler : BOOLEAN]]
        /\ queue' \in [Threads -> Seq(Kind)]
    BY <1>1, <1>10, <2>1 DEF StopListener, MethodsTypeOK, NoListener
  <2>3. QED
    BY <1>1, <1>10, <2>2 DEF StopListener, MethodsTypeOK, serverVars, history
<1>11. ASSUME NEW n \in Names, DropInformer(n) PROVE MethodsTypeOK'
  BY <1>1, <1>11 DEF DropInformer, MethodsTypeOK, history
<1>12. CASE UNCHANGED methodsAndServerVars
  BY <1>1, <1>12 DEF methodsAndServerVars, MethodsTypeOK
<1>13. QED
  BY <1>2, <1>3, <1>4, <1>5, <1>6, <1>7, <1>8, <1>9, <1>10, <1>11, <1>12
     DEF MethodsNext, ThreadStep, WorkerStep, EndStep

LEMMA MethodsInvInit == MethodsInit => MethodsInv
<1> SUFFICES ASSUME MethodsInit PROVE MethodsInv
  OBVIOUS
<1>1. MethodsTypeOK
  BY MethodsTypeInit
<1>2. Busy = {} /\ \A t \in Threads : at[t] = "idle"
  BY DEF MethodsInit, Busy
<1>3. BuilderInv
  BY <1>2 DEF BuilderInv, OneBuilds, BuilderLocks, OwnerIsAlone, BuildsWhatIsMissing,
              CallsWhatIsThere, AliveWhileBusy, Working, Building
<1>4. /\ \A t \in Threads : /\ ~listener[t].up /\ ~listener[t].handler /\ ~informer[t]
                            /\ queue[t] = <<>> /\ worker[t] = "none"
      /\ \A n \in Names : methods[n] = Nobody
  BY DEF MethodsInit, NoListener
<1>5. ListenerInv /\ HeldInv
  BY <1>2, <1>4 DEF ListenerInv, PartsInOrder, FilterFirst, KnownListen, HeldInv
<1>6. OnlyWanted /\ RepliesAreHeard
  BY DEF MethodsInit, OnlyWanted, RepliesAreHeard
<1>7. QED
  BY <1>1, <1>3, <1>5, <1>6 DEF MethodsInv

\* What the invariant says of a thread at work
LEMMA AtWork ==
    ASSUME MethodsInv, NEW t \in Threads
    PROVE  /\ t \in Busy <=> at[t] \notin {"idle", "done", "refused"}
           /\ t \in Busy => server = "alive"
           /\ at[t] \in {"calling", "waiting"} =>
                 /\ methods[name[t]] \in Threads
                 /\ name[methods[name[t]]] = name[t]
                 /\ methods[name[methods[name[t]]]] = methods[name[t]]
                 /\ Complete(methods[name[t]])
<1>1. MethodsTypeOK /\ CallsWhatIsThere /\ AliveWhileBusy /\ KnownListen
  BY DEF MethodsInv, BuilderInv, ListenerInv
<1>2. t \in Busy <=> at[t] \notin {"idle", "done", "refused"}
  BY DEF Busy
<1>3. t \in Busy => server = "alive"
  BY <1>1 DEF AliveWhileBusy
<1>4. name[t] \in Names /\ methods[name[t]] \in Threads \cup {Nobody}
  BY <1>1 DEF MethodsTypeOK
<1>5. ASSUME at[t] \in {"calling", "waiting"}
      PROVE  methods[name[t]] # Nobody /\ server = "alive"
  BY <1>1, <1>2, <1>3, <1>5 DEF CallsWhatIsThere
<1>6. QED
  BY <1>1, <1>2, <1>3, <1>4, <1>5 DEF KnownListen

\* While the server ends nobody uses it.
LEMMA EndingIsQuiet ==
    ASSUME MethodsInv, server # "alive"
    PROVE  /\ Busy = {}
           /\ \A t \in Threads : at[t] \in {"idle", "done", "refused"}
BY DEF MethodsInv, BuilderInv, AliveWhileBusy, Busy

LEMMA BusyIs ==
    ASSUME MethodsTypeOK, NEW t \in Threads, NEW step \in Positions, Goto(t, step)
    PROVE  Busy' = IF step \in {"idle", "done", "refused"} THEN Busy \ {t} ELSE Busy \cup {t}
<1>1. at'[t] = step /\ \A s \in Threads \ {t} : at'[s] = at[s]
  BY GotoIsTyped
<1>2. QED
  BY <1>1 DEF Busy

LEMMA BuilderNext == MethodsInv /\ [MethodsNext]_methodsAndServerVars => BuilderInv'
<1> SUFFICES ASSUME MethodsInv, [MethodsNext]_methodsAndServerVars PROVE BuilderInv'
  OBVIOUS
<1> USE DEF BuilderInv
<1>1. MethodsTypeOK /\ BuilderInv
  BY DEF MethodsInv
<1>2. class \in {"local", "remote"} /\ Nobody \notin Threads
  BY <1>1, ClassesAssumption, NobodyAssumption DEF MethodsTypeOK
<1>3. ASSUME NEW t \in Threads, Begin(t) PROVE BuilderInv'
  <2>1. /\ at[t] = "idle" /\ server = "alive" /\ Goto(t, "looking") /\ "looking" \in Positions
        /\ UNCHANGED <<class, name, methods, server>>
    BY <1>3 DEF Begin, Positions
  <2>2. /\ at'[t] = "looking" /\ \A s \in Threads \ {t} : at'[s] = at[s]
        /\ Busy' = Busy \cup {t}
    BY <1>1, <2>1, GotoIsTyped, BusyIs
  <2>3. IF class = "local" THEN Busy = {} ELSE methodsMutex = Nobody /\ methodsMutex' = t
    BY <1>3 DEF Begin
  <2>4. \A s \in Threads : at[s] \notin Working
    BY <1>1, <1>2, <2>3 DEF BuilderLocks, Busy, Working, Building
  <2>5. OneBuilds' /\ BuilderLocks'
    BY <2>1, <2>2, <2>3, <2>4 DEF OneBuilds, BuilderLocks
  <2>6. OwnerIsAlone' /\ AliveWhileBusy'
    BY <2>1, <2>2, <2>3 DEF OwnerIsAlone, AliveWhileBusy
  <2>7. BuildsWhatIsMissing' /\ CallsWhatIsThere'
    BY <1>1, <2>1, <2>2 DEF BuildsWhatIsMissing, CallsWhatIsThere, Building
  <2>8. QED
    BY <2>5, <2>6, <2>7
<1>4. ASSUME NEW t \in Threads, LookNew(t) \/ MakeListener(t) \/ AddFilter(t) \/ AddHandler(t)
      PROVE  BuilderInv'
  <2>1. PICK step \in Building : Goto(t, step)
    BY <1>4 DEF LookNew, MakeListener, AddFilter, AddHandler, Building
  <2>2. /\ at[t] \in Working /\ methods[name[t]] = Nobody
        /\ UNCHANGED serverVars
    BY <1>1, <1>4 DEF LookNew, MakeListener, AddFilter, AddHandler, Building, Working,
                      BuildsWhatIsMissing
  <2>3. step \in Positions /\ step \in Working /\ step \notin {"calling", "waiting", "idle", "done", "refused"}
    BY <2>1 DEF Building, Positions, Working
  <2>4. at'[t] = step /\ \A s \in Threads \ {t} : at'[s] = at[s]
    BY <1>1, <2>1, <2>3, GotoIsTyped
  <2>5. Busy' = Busy
    BY <1>1, <2>1, <2>2, <2>3, BusyIs DEF Busy, Working, Building
  <2>6. OneBuilds' /\ BuilderLocks'
    BY <1>1, <2>2, <2>3, <2>4 DEF OneBuilds, BuilderLocks, serverVars
  <2>7. OwnerIsAlone' /\ AliveWhileBusy'
    BY <1>1, <2>2, <2>5 DEF OwnerIsAlone, AliveWhileBusy, serverVars
  <2>8. BuildsWhatIsMissing' /\ CallsWhatIsThere'
    BY <1>1, <2>2, <2>3, <2>4 DEF BuildsWhatIsMissing, CallsWhatIsThere, serverVars
  <2>9. QED
    BY <2>6, <2>7, <2>8
<1>5. ASSUME NEW t \in Threads, LookKnown(t) \/ Enter(t) PROVE BuilderInv'
  <2>1. PICK step \in {"refused", "done", "calling"} : Goto(t, step)
    BY <1>5 DEF LookKnown, Enter
  <2>2. step \in Positions /\ step \notin Working
    BY <2>1 DEF Positions, Working, Building
  <2>3. /\ at[t] \in Working /\ methods'[name[t]] # Nobody
        /\ methodsMutex' = IF methodsMutex = t THEN Nobody ELSE methodsMutex
        /\ UNCHANGED <<class, name, server>>
        /\ \A n \in Names \ {name[t]} : methods'[n] = methods[n]
    BY <1>1, <1>2, <1>5 DEF LookKnown, Enter, Working, Building, MethodsTypeOK
  <2>4. at'[t] = step /\ \A s \in Threads \ {t} : at'[s] = at[s]
    BY <1>1, <2>1, <2>2, GotoIsTyped
  <2>5. Busy' \subseteq Busy
    BY <1>1, <2>1, <2>2, <2>3, BusyIs DEF Busy, Working, Building
  <2>6. \A s \in Threads : at'[s] \notin Working
    BY <1>1, <2>2, <2>3, <2>4 DEF OneBuilds
  <2>7. OneBuilds' /\ BuilderLocks' /\ BuildsWhatIsMissing'
    BY <2>6 DEF OneBuilds, BuilderLocks, BuildsWhatIsMissing, Working
  <2>8. OwnerIsAlone' /\ AliveWhileBusy'
    BY <1>1, <2>3, <2>5 DEF OwnerIsAlone, AliveWhileBusy
  <2>9. \A s \in Threads : name[s] \in Names
    BY <1>1 DEF MethodsTypeOK
  <2>10. CallsWhatIsThere'
    BY <1>1, <2>3, <2>4, <2>9 DEF CallsWhatIsThere
  <2>11. QED
    BY <2>7, <2>8, <2>10
<1>6. ASSUME NEW t \in Threads, Call(t) \/ Return(t) PROVE BuilderInv'
  <2>1. PICK step \in {"waiting", "done"} : Goto(t, step)
    BY <1>6 DEF Call, Return
  <2>2. step \in Positions /\ step \notin Working /\ step \notin Building
    BY <2>1 DEF Positions, Working, Building
  <2>3. at[t] \in {"calling", "waiting"} /\ UNCHANGED serverVars
    BY <1>6 DEF Call, Return
  <2>4. at'[t] = step /\ \A s \in Threads \ {t} : at'[s] = at[s]
    BY <1>1, <2>1, <2>2, GotoIsTyped
  <2>5. Busy' \subseteq Busy
    BY <1>1, <2>1, <2>2, <2>3, BusyIs DEF Busy
  <2>6. OneBuilds' /\ BuilderLocks'
    BY <1>1, <2>2, <2>3, <2>4 DEF OneBuilds, BuilderLocks, serverVars
  <2>7. OwnerIsAlone' /\ AliveWhileBusy'
    BY <1>1, <2>3, <2>5 DEF OwnerIsAlone, AliveWhileBusy, serverVars
  <2>8. BuildsWhatIsMissing' /\ CallsWhatIsThere'
    BY <1>1, <2>2, <2>3, <2>4 DEF BuildsWhatIsMissing, CallsWhatIsThere, serverVars
  <2>9. QED
    BY <2>6, <2>7, <2>8
<1>7. CASE UNCHANGED <<serverVars, at>>
  <2>1. Busy' = Busy
    BY <1>7 DEF Busy
  <2>2. OneBuilds' /\ BuilderLocks' /\ BuildsWhatIsMissing' /\ CallsWhatIsThere'
    BY <1>1, <1>7 DEF OneBuilds, BuilderLocks, BuildsWhatIsMissing, CallsWhatIsThere, serverVars
  <2>3. OwnerIsAlone' /\ AliveWhileBusy'
    BY <1>1, <1>7, <2>1 DEF OwnerIsAlone, AliveWhileBusy, serverVars
  <2>4. QED
    BY <2>2, <2>3
<1>8. CASE Busy = {} /\ UNCHANGED at
  <2>1. Busy' = {} /\ \A t \in Threads : at'[t] \in {"idle", "done", "refused"}
    BY <1>8 DEF Busy
  <2>2. QED
    BY <2>1 DEF OneBuilds, BuilderLocks, BuildsWhatIsMissing, CallsWhatIsThere,
                OwnerIsAlone, AliveWhileBusy, Working, Building
<1>9. ASSUME NEW n \in Names, StopListener(n) \/ DropInformer(n) PROVE BuilderInv'
  <2>1. server # "alive" /\ UNCHANGED at
    BY <1>9 DEF StopListener, DropInformer
  <2>2. QED
    BY <1>8, <2>1, EndingIsQuiet
<1>10. CASE Destroy \/ Destroyed
  <2>1. UNCHANGED at /\ (Busy = {} \/ server # "alive")
    BY <1>10 DEF Destroy, Destroyed
  <2>2. QED
    BY <1>8, <2>1, EndingIsQuiet
<1>11. ASSUME NEW t \in Threads, Take(t) \/ Handled(t) PROVE BuilderInv'
  BY <1>7, <1>11 DEF Take, Handled
<1>12. ASSUME NEW n \in Names, NEW kind \in Kind, Arrive(n, kind) PROVE BuilderInv'
  BY <1>7, <1>12 DEF Arrive
<1>13. CASE UNCHANGED methodsAndServerVars
  BY <1>7, <1>13 DEF methodsAndServerVars, serverVars
<1>14. QED
  BY <1>3, <1>4, <1>5, <1>6, <1>9, <1>10, <1>11, <1>12, <1>13
     DEF MethodsNext, ThreadStep, WorkerStep, EndStep

\* Whose queue is written by Heard has a handler, hence a filter.
LEMMA HeardIsFiltered ==
    ASSUME MethodsTypeOK, FilterFirst, NEW n, NEW kind \in Kind, NEW t \in Threads,
           Heard(n, kind)[t] # <<>>
    PROVE  listener[t].filter
BY HeardIs DEF FilterFirst

LEMMA ListenerNext == MethodsInv /\ [MethodsNext]_methodsAndServerVars => ListenerInv'
<1> SUFFICES ASSUME MethodsInv, [MethodsNext]_methodsAndServerVars PROVE ListenerInv'
  OBVIOUS
<1> USE DEF ListenerInv
<1>1. MethodsTypeOK /\ ListenerInv /\ BuilderInv
  BY DEF MethodsInv
<1>2. /\ Nobody \notin Threads
      /\ \A n \in Names : methods[n] # Nobody => methods[n] \in Threads
      /\ \A s \in Threads : name[s] \in Names /\ at[s] \in Positions
  BY <1>1, NobodyAssumption DEF MethodsTypeOK, Positions
<1>3. ASSUME NEW t \in Threads, NEW step \in Positions \ {"filtering", "attaching", "entering"},
             Goto(t, step), UNCHANGED listener
      PROVE  PartsInOrder'
  <2>1. at'[t] = step /\ \A s \in Threads \ {t} : at'[s] = at[s]
    BY <1>1, <1>3, GotoIsTyped
  <2>2. QED
    BY <1>1, <1>3, <2>1 DEF PartsInOrder
<1>4. ASSUME NEW t \in Threads,
             Begin(t) \/ LookNew(t) \/ LookKnown(t) \/ Return(t)
      PROVE  ListenerInv'
  <2>1. PICK step \in Positions \ {"filtering", "attaching", "entering"} : Goto(t, step)
    BY <1>4 DEF Begin, LookNew, LookKnown, Return, Positions
  <2>2. UNCHANGED <<name, methods, server, listener, queue>>
    BY <1>4 DEF Begin, LookNew, LookKnown, Return, serverVars, methodVars
  <2>3. PartsInOrder'
    BY <1>3, <2>1, <2>2
  <2>4. FilterFirst' /\ KnownListen'
    BY <1>1, <2>2 DEF FilterFirst, KnownListen, Complete
  <2>5. QED
    BY <2>3, <2>4
<1>5. ASSUME NEW t \in Threads, MakeListener(t) \/ AddFilter(t) \/ AddHandler(t)
      PROVE  ListenerInv'
  <2>1. PICK step \in {"filtering", "attaching", "entering"} : Goto(t, step)
    BY <1>5 DEF MakeListener, AddFilter, AddHandler
  <2>2. at'[t] = step /\ \A s \in Threads \ {t} : at'[s] = at[s]
    BY <1>1, <2>1, GotoIsTyped DEF Positions
  <2>3. /\ \A s \in Threads \ {t} : listener'[s] = listener[s]
        /\ MakeListener(t) => listener'[t] = [listener[t] EXCEPT !.up = TRUE]
        /\ AddFilter(t) => listener'[t] = [listener[t] EXCEPT !.filter = TRUE]
        /\ AddHandler(t) => listener'[t] = [listener[t] EXCEPT !.handler = TRUE]
    BY <1>1, <1>5, Equipped
  <2>4. listener[t] \in Listeners
    BY <1>1 DEF MethodsTypeOK, Listeners
  <2>5. /\ MakeListener(t) => at'[t] = "filtering" /\ listener'[t].up
        /\ AddFilter(t) => at'[t] = "attaching" /\ listener'[t].up /\ listener'[t].filter
        /\ AddHandler(t) => at'[t] = "entering" /\ Complete(t)'
    <3>1. ASSUME MakeListener(t) PROVE at'[t] = "filtering" /\ listener'[t].up
      BY <1>1, <2>3, <2>4, <3>1 DEF MakeListener, Goto, Listeners, MethodsTypeOK
    <3>2. ASSUME AddFilter(t)
          PROVE  at'[t] = "attaching" /\ listener'[t].up /\ listener'[t].filter
      <4>1. at[t] = "filtering" /\ at'[t] = "attaching"
        BY <1>1, <3>2 DEF AddFilter, Goto, MethodsTypeOK
      <4>2. QED
        BY <1>1, <2>3, <2>4, <3>2, <4>1 DEF Listeners, PartsInOrder
    <3>3. ASSUME AddHandler(t) PROVE at'[t] = "entering" /\ Complete(t)'
      <4>1. at[t] = "attaching" /\ at'[t] = "entering"
        BY <1>1, <3>3 DEF AddHandler, Goto, MethodsTypeOK
      <4>2. QED
        BY <1>1, <2>3, <2>4, <3>3, <4>1 DEF Listeners, PartsInOrder, Complete
    <3>4. QED
      BY <3>1, <3>2, <3>3
  <2>6. PartsInOrder'
    BY <1>1, <1>5, <2>2, <2>3, <2>5 DEF PartsInOrder, Complete
  <2>7. UNCHANGED serverVars /\ queue' = queue
    BY <1>5 DEF MakeListener, AddFilter, AddHandler
  <2>8. listener'[t].handler \/ queue'[t] # <<>> => listener'[t].filter
    BY <1>1, <1>5, <2>3, <2>4, <2>5, <2>7 DEF FilterFirst, Complete, Listeners
  <2>9. FilterFirst'
    BY <1>1, <2>3, <2>7, <2>8 DEF FilterFirst
  <2>10. /\ listener[t].up => listener'[t].up
         /\ listener[t].filter => listener'[t].filter
         /\ listener[t].handler => listener'[t].handler
    BY <1>5, <2>3, <2>4 DEF Listeners
  <2>11. \A s \in Threads : Complete(s) => Complete(s)'
    BY <2>3, <2>10 DEF Complete
  <2>12. KnownListen'
    BY <1>1, <1>2, <2>7, <2>11 DEF KnownListen, serverVars
  <2>13. QED
    BY <2>6, <2>9, <2>12
<1>6. ASSUME NEW t \in Threads, Enter(t) PROVE ListenerInv'
  <2>1. PICK step \in Positions \ {"filtering", "attaching", "entering"} : Goto(t, step)
    BY <1>6 DEF Enter, Positions
  <2>2. UNCHANGED <<name, server, listener, queue>> /\ at[t] = "entering"
    BY <1>6 DEF Enter, methodVars
  <2>3. PartsInOrder' /\ FilterFirst'
    BY <1>1, <1>3, <2>1, <2>2 DEF FilterFirst
  <2>4. /\ methods'[name[t]] = t
        /\ \A n \in Names \ {name[t]} : methods'[n] = methods[n]
    BY <1>1, <1>2, <1>6 DEF Enter, MethodsTypeOK
  <2>5. Complete(t)
    BY <1>1, <2>2 DEF Complete, PartsInOrder
  <2>6. KnownListen'
    BY <1>1, <2>2, <2>4, <2>5 DEF KnownListen, Complete
  <2>7. QED
    BY <2>3, <2>6
<1>7. ASSUME NEW t \in Threads, Call(t) PROVE ListenerInv'
  <2>1. Goto(t, "waiting") /\ UNCHANGED <<name, methods, server, listener>>
    BY <1>7 DEF Call, serverVars
  <2>2. PartsInOrder'
    BY <1>3, <2>1 DEF Positions
  <2>3. queue' = Heard(name[t], "request") /\ "request" \in Kind
    BY <1>7 DEF Call, Kind
  <2>4. FilterFirst'
    BY <1>1, <2>1, <2>3, HeardIsFiltered DEF FilterFirst
  <2>5. KnownListen'
    BY <1>1, <2>1 DEF KnownListen, Complete
  <2>6. QED
    BY <2>2, <2>4, <2>5
<1>8. ASSUME UNCHANGED <<name, at, methods, listener>>, server' = "alive" => server = "alive",
             \A t \in Threads : queue'[t] # <<>> => listener[t].filter
      PROVE  ListenerInv'
  <2>1. PartsInOrder' /\ FilterFirst'
    BY <1>1, <1>8 DEF PartsInOrder, FilterFirst
  <2>2. KnownListen'
    BY <1>1, <1>8 DEF KnownListen, Complete
  <2>3. QED
    BY <2>1, <2>2
<1>9. ASSUME NEW n \in Names, NEW kind \in Kind, Arrive(n, kind) PROVE ListenerInv'
  <2>1. queue' = Heard(n, kind)
    BY <1>9 DEF Arrive
  <2>2. \A t \in Threads : queue'[t] # <<>> => listener[t].filter
    BY <1>1, <2>1, HeardIsFiltered
  <2>3. QED
    BY <1>8, <1>9, <2>2 DEF Arrive, serverVars
<1>10. ASSUME NEW t \in Threads, Take(t) PROVE ListenerInv'
  <2>1. \A s \in Threads : queue'[s] # <<>> => queue[s] # <<>>
    BY <1>1, <1>10 DEF Take, MethodsTypeOK
  <2>2. \A s \in Threads : queue'[s] # <<>> => listener[s].filter
    BY <1>1, <2>1 DEF FilterFirst
  <2>3. QED
    BY <1>8, <1>10, <2>2 DEF Take, serverVars
<1>11. ASSUME NEW t \in Threads, Handled(t) PROVE ListenerInv'
  <2>1. queue' = Heard(name[t], "reply") \/ queue' = queue
    BY <1>11 DEF Handled
  <2>2. \A s \in Threads : queue'[s] # <<>> => listener[s].filter
    BY <1>1, <2>1, HeardIsFiltered DEF FilterFirst, Kind
  <2>3. QED
    BY <1>8, <1>11, <2>2 DEF Handled, serverVars
<1>12. CASE Destroy \/ Destroyed \/ UNCHANGED methodsAndServerVars
  <2>1. /\ UNCHANGED <<name, at, methods, listener, queue>>
        /\ server' = "alive" => server = "alive"
    BY <1>12 DEF Destroy, Destroyed, methodsAndServerVars, methodVars
  <2>2. QED
    BY <1>1, <1>8, <2>1 DEF FilterFirst
<1>13. ASSUME NEW n \in Names, StopListener(n) PROVE ListenerInv'
  <2> DEFINE u == methods[n]
  <2>1. /\ u \in Threads /\ server = "ending" /\ server' = server
        /\ UNCHANGED <<name, at, methods>>
    BY <1>2, <1>13 DEF StopListener, serverVars
  <2>2. /\ listener'[u] = NoListener /\ queue'[u] = <<>>
        /\ \A s \in Threads \ {u} : listener'[s] = listener[s] /\ queue'[s] = queue[s]
    BY <1>1, <1>13, <2>1 DEF StopListener, MethodsTypeOK
  <2>3. \A s \in Threads : at'[s] \in {"idle", "done", "refused"}
    BY <2>1, EndingIsQuiet
  <2>4. PartsInOrder'
    BY <2>3 DEF PartsInOrder
  <2>5. FilterFirst'
    BY <1>1, <2>2 DEF FilterFirst, NoListener
  <2>6. KnownListen'
    BY <1>1, <2>1 DEF KnownListen
  <2>7. QED
    BY <2>4, <2>5, <2>6
<1>14. ASSUME NEW n \in Names, DropInformer(n) PROVE ListenerInv'
  <2>1. /\ server = "ending" /\ server' = server
        /\ UNCHANGED <<name, at, listener, queue>>
        /\ \A m \in Names : methods'[m] # Nobody => methods'[m] = methods[m]
    BY <1>1, <1>14 DEF DropInformer, MethodsTypeOK
  <2>2. PartsInOrder' /\ FilterFirst'
    BY <1>1, <2>1 DEF PartsInOrder, FilterFirst
  <2>3. KnownListen'
    BY <1>1, <2>1 DEF KnownListen
  <2>4. QED
    BY <2>2, <2>3
<1>15. QED
  BY <1>4, <1>5, <1>6, <1>7, <1>9, <1>10, <1>11, <1>12, <1>13, <1>14
     DEF MethodsNext, ThreadStep, WorkerStep, EndStep

LEMMA HeldNext == MethodsInv /\ [MethodsNext]_methodsAndServerVars => HeldInv'
<1> SUFFICES ASSUME MethodsInv, [MethodsNext]_methodsAndServerVars PROVE HeldInv'
  OBVIOUS
<1> DEFINE Owns(t) == listener[t].up \/ informer[t] \/ worker[t] # "none"
           Empty == server = "gone" => \A n \in Names : methods[n] = Nobody
<1>1. MethodsTypeOK /\ BuilderInv /\ ListenerInv
  BY DEF MethodsInv
<1>2. Empty /\ \A t \in Threads : Owns(t) => Held(t)
  BY DEF MethodsInv, HeldInv
<1>3. SUFFICES Empty' /\ \A t \in Threads : Owns(t)' => Held(t)'
  BY DEF HeldInv
<1>4. /\ Nobody \notin Threads
      /\ \A n \in Names : methods[n] # Nobody => methods[n] \in Threads
      /\ \A s \in Threads : name[s] \in Names
  BY <1>1, NobodyAssumption DEF MethodsTypeOK
<1> HIDE DEF Owns, Empty
<1>5. ASSUME UNCHANGED <<name, methods, server>>,
             \A t \in Threads : Held(t) => Held(t)',
             \A t \in Threads : Owns(t)' => Owns(t) \/ Held(t)
      PROVE  Empty' /\ \A t \in Threads : Owns(t)' => Held(t)'
  BY <1>2, <1>5 DEF Empty
<1>6. ASSUME NEW t \in Threads, NEW step \in Positions, Goto(t, step),
             at[t] \in Building => step \in Building, UNCHANGED <<name, methods>>
      PROVE  \A s \in Threads : Held(s) => Held(s)'
  <2>1. at'[t] = step /\ \A s \in Threads \ {t} : at'[s] = at[s]
    BY <1>1, <1>6, GotoIsTyped
  <2>2. QED
    BY <1>6, <2>1 DEF Held
<1>7. ASSUME NEW t \in Threads,
             Begin(t) \/ LookNew(t) \/ LookKnown(t) \/ Return(t)
      PROVE  Empty' /\ \A s \in Threads : Owns(s)' => Held(s)'
  <2>1. PICK step \in Positions : Goto(t, step)
    BY <1>7 DEF Begin, LookNew, LookKnown, Return, Positions
  <2>2. UNCHANGED <<name, methods, server, listener, informer, worker>> /\ at[t] \notin Building
    BY <1>7 DEF Begin, LookNew, LookKnown, Return, serverVars, methodVars, Building
  <2>3. \A s \in Threads : Held(s) => Held(s)'
    BY <1>6, <2>1, <2>2
  <2>4. QED
    BY <1>5, <2>2, <2>3 DEF Owns
<1>8. ASSUME NEW t \in Threads, MakeListener(t) \/ AddFilter(t) \/ AddHandler(t)
      PROVE  Empty' /\ \A s \in Threads : Owns(s)' => Held(s)'
  <2>1. PICK step \in Building : Goto(t, step)
    BY <1>8 DEF MakeListener, AddFilter, AddHandler, Building
  <2>2. UNCHANGED <<name, methods, server, informer, worker>> /\ at[t] \in Building
    BY <1>8 DEF MakeListener, AddFilter, AddHandler, serverVars, Building
  <2>3. \A s \in Threads : Held(s) => Held(s)'
    BY <1>6, <2>1, <2>2 DEF Building, Positions
  <2>4. \A s \in Threads \ {t} : listener'[s] = listener[s]
    BY <1>1, <1>8, Equipped
  <2>5. Held(t)
    BY <2>2 DEF Held
  <2>6. QED
    BY <1>5, <2>2, <2>3, <2>4, <2>5 DEF Owns
<1>9. ASSUME NEW t \in Threads, Enter(t)
      PROVE  Empty' /\ \A s \in Threads : Owns(s)' => Held(s)'
  <2>1. PICK step \in Positions : Goto(t, step)
    BY <1>9 DEF Enter, Positions
  <2>2. /\ UNCHANGED <<name, server, listener, informer, worker>> /\ at[t] = "entering"
        /\ methods'[name[t]] = t
        /\ \A n \in Names \ {name[t]} : methods'[n] = methods[n]
    BY <1>1, <1>4, <1>9 DEF Enter, methodVars, MethodsTypeOK
  <2>3. \A s \in Threads \ {t} : at'[s] = at[s]
    BY <1>1, <2>1, GotoIsTyped
  <2>4. methods[name[t]] = Nobody
    BY <1>1, <2>2 DEF BuilderInv, BuildsWhatIsMissing, Building
  <2>5. \A s \in Threads : Held(s) => Held(s)'
    BY <1>4, <2>2, <2>3, <2>4 DEF Held
  <2>6. server = "alive"
    BY <2>2, AtWork
  <2>7. QED
    BY <1>2, <2>2, <2>5, <2>6 DEF Owns, Empty
<1>10. ASSUME NEW t \in Threads, Call(t)
       PROVE  Empty' /\ \A s \in Threads : Owns(s)' => Held(s)'
  <2> DEFINE u == methods[name[t]]
  <2>1. Goto(t, "waiting") /\ at[t] = "calling" /\ UNCHANGED <<name, methods, server, listener, worker>>
    BY <1>10 DEF Call, serverVars
  <2>2. \A s \in Threads : Held(s) => Held(s)'
    BY <1>6, <2>1 DEF Positions, Building
  <2>3. u \in Threads /\ Held(u)
    BY <2>1, AtWork DEF Held
  <2>4. \A s \in Threads \ {u} : informer'[s] = informer[s]
    BY <1>1, <1>10 DEF Call, MethodsTypeOK
  <2>5. QED
    BY <1>5, <2>1, <2>2, <2>3, <2>4 DEF Owns
<1>11. ASSUME UNCHANGED <<name, at, methods>> PROVE \A t \in Threads : Held(t) => Held(t)'
  BY <1>11 DEF Held
<1>12. ASSUME NEW n \in Names, NEW kind \in Kind, Arrive(n, kind)
       PROVE  Empty' /\ \A s \in Threads : Owns(s)' => Held(s)'
  BY <1>5, <1>11, <1>12 DEF Arrive, serverVars, Owns
<1>13. ASSUME NEW t \in Threads, Take(t) \/ Handled(t)
       PROVE  Empty' /\ \A s \in Threads : Owns(s)' => Held(s)'
  <2>1. UNCHANGED <<name, at, methods, server, listener>>
    BY <1>13 DEF Take, Handled, serverVars
  <2>2. Owns(t) /\ \A s \in Threads \ {t} : worker'[s] = worker[s] /\ informer'[s] = informer[s]
    BY <1>1, <1>13 DEF Take, Handled, MethodsTypeOK, Owns
  <2>3. \A s \in Threads : Owns(s)' => Owns(s)
    BY <2>1, <2>2 DEF Owns
  <2>4. QED
    BY <1>5, <1>11, <2>1, <2>3
<1>14. CASE Destroy \/ Destroyed \/ UNCHANGED methodsAndServerVars
  <2>1. UNCHANGED <<name, at, methods, listener, informer, worker>>
    BY <1>14 DEF Destroy, Destroyed, methodsAndServerVars, methodVars
  <2>2. Empty'
    BY <1>2, <1>14, <2>1 DEF Empty, Destroy, Destroyed, methodsAndServerVars
  <2>3. QED
    BY <1>2, <1>11, <2>1, <2>2 DEF Owns
<1>15. ASSUME NEW n \in Names, StopListener(n)
       PROVE  Empty' /\ \A s \in Threads : Owns(s)' => Held(s)'
  <2>1. UNCHANGED <<name, at, methods, server, informer, worker>>
    BY <1>15 DEF StopListener, serverVars
  <2>2. \A s \in Threads : listener'[s].up => listener[s].up
    BY <1>1, <1>15 DEF StopListener, MethodsTypeOK, NoListener
  <2>3. QED
    BY <1>5, <1>11, <2>1, <2>2 DEF Owns
<1>16. ASSUME NEW n \in Names, DropInformer(n)
       PROVE  Empty' /\ \A s \in Threads : Owns(s)' => Held(s)'
  <2> PICK u \in Threads : u = methods[n]
    BY <1>4, <1>16 DEF DropInformer
  <2>1. /\ UNCHANGED <<name, at, server, listener, worker>>
        /\ ~listener[u].up /\ worker[u] = "none" /\ server = "ending"
    BY <1>4, <1>16 DEF DropInformer
  <2>2. /\ ~informer'[u] /\ \A s \in Threads \ {u} : informer'[s] = informer[s]
        /\ \A m \in Names \ {n} : methods'[m] = methods[m]
    BY <1>1, <1>16, <2>1 DEF DropInformer, MethodsTypeOK
  <2>3. ~Owns(u)' /\ \A s \in Threads \ {u} : Owns(s)' => Owns(s)
    BY <2>1, <2>2 DEF Owns
  <2>4. \A s \in Threads \ {u} : Held(s) => Held(s)'
    BY <1>4, <2>1, <2>2 DEF Held
  <2>5. Empty'
    BY <2>1 DEF Empty
  <2>6. QED
    BY <1>2, <2>3, <2>4, <2>5
<1>17. QED
  BY <1>7, <1>8, <1>9, <1>10, <1>12, <1>13, <1>14, <1>15, <1>16
     DEF MethodsNext, ThreadStep, WorkerStep, EndStep

LEMMA WantedNext == MethodsInv /\ [MethodsNext]_methodsAndServerVars => OnlyWanted'
<1> SUFFICES ASSUME MethodsInv, [MethodsNext]_methodsAndServerVars PROVE OnlyWanted'
  OBVIOUS
<1>1. MethodsTypeOK /\ FilterFirst /\ OnlyWanted
  BY DEF MethodsInv, ListenerInv
<1>2. class' = class
  BY DEF MethodsNext, ThreadStep, WorkerStep, EndStep, Begin, LookNew, LookKnown, MakeListener,
         AddFilter, AddHandler, Enter, Call, Return, Arrive, Take, Handled, Destroy, StopListener,
         DropInformer, Destroyed, serverVars, methodsAndServerVars
<1>3. ASSUME NEW t \in Threads, Take(t) PROVE OnlyWanted'
  <2>1. listener[t].filter
    BY <1>1, <1>3 DEF Take, FilterFirst
  <2>2. handled' = handled \/ (handled' = handled \cup {Head(queue[t])} /\ Head(queue[t]) = Wanted)
    BY <1>3, <2>1 DEF Take
  <2>3. QED
    BY <1>1, <1>2, <2>2 DEF OnlyWanted, Wanted
<1>4. CASE handled' = handled
  BY <1>1, <1>2, <1>4 DEF OnlyWanted, Wanted
<1>5. handled' = handled \/ \E t \in Threads : Take(t)
  BY DEF MethodsNext, ThreadStep, WorkerStep, EndStep, Begin, LookNew, LookKnown, MakeListener,
         AddFilter, AddHandler, Enter, Call, Return, Arrive, Handled, Destroy, StopListener,
         DropInformer, Destroyed, history, methodsAndServerVars
<1>6. QED
  BY <1>3, <1>4, <1>5

LEMMA HeardNext == MethodsInv /\ [MethodsNext]_methodsAndServerVars => RepliesAreHeard'
<1> SUFFICES ASSUME MethodsInv, [MethodsNext]_methodsAndServerVars PROVE RepliesAreHeard'
  OBVIOUS
<1>1. RepliesAreHeard
  BY DEF MethodsInv
<1>2. ASSUME NEW n \in Names, NEW kind \in Kind, Arrive(n, kind), kind = "reply"
      PROVE  \E t \in Threads : name[t] = n /\ listener[t].up /\ listener[t].handler
  <2>1. PICK t \in Threads : at[t] = "waiting" /\ name[t] = n
    BY <1>2 DEF Arrive
  <2>2. /\ methods[n] \in Threads /\ name[methods[n]] = n
        /\ Complete(methods[n])
    BY <2>1, AtWork
  <2>3. QED
    BY <2>2 DEF Complete
<1>3. ASSUME NEW n \in Names, NEW kind \in Kind, Arrive(n, kind) PROVE RepliesAreHeard'
  BY <1>1, <1>2, <1>3 DEF Arrive, RepliesAreHeard
<1>4. unheard' = unheard \/ \E n \in Names, kind \in Kind : Arrive(n, kind)
  BY DEF MethodsNext, ThreadStep, WorkerStep, EndStep, Begin, LookNew, LookKnown, MakeListener,
         AddFilter, AddHandler, Enter, Call, Return, Take, Handled, Destroy, StopListener,
         DropInformer, Destroyed, history, methodsAndServerVars
<1>5. QED
  BY <1>1, <1>3, <1>4 DEF RepliesAreHeard

LEMMA MethodsInductive == MethodsSpec => []MethodsInv
<1>1. MethodsInv /\ [MethodsNext]_methodsAndServerVars => MethodsInv'
  BY MethodsTypeNext, BuilderNext, ListenerNext, HeldNext, WantedNext, HeardNext DEF MethodsInv
<1>2. QED
  BY <1>1, MethodsInvInit, PTL DEF MethodsSpec

\* Type correctness of methods, listeners and queues (LocalServer.cpp:157,
\* RemoteServer.cpp:156).
THEOREM MethodsTypeCorrect == MethodsSpec => []MethodsTypeOK
BY MethodsInductive, PTL DEF MethodsInv

\* Whoever listens is in the map or being made, one thread at a time makes a
\* method, and only one that is not in the map: a name has one listener.
LEMMA HeldIsOne == MethodsInv => OnePerName
<1> SUFFICES ASSUME MethodsInv, NEW s \in Threads, NEW t \in Threads,
                    name[s] = name[t], listener[s].up, listener[t].up
             PROVE  s = t
  BY DEF OnePerName
<1>1. Held(s) /\ Held(t) /\ BuilderInv /\ Nobody \notin Threads
  BY NobodyAssumption DEF MethodsInv, HeldInv
<1>2. CASE at[s] \in Building /\ at[t] \in Building
  BY <1>1, <1>2 DEF BuilderInv, OneBuilds, Working
<1>3. CASE at[s] \in Building /\ at[t] \notin Building
  BY <1>1, <1>3 DEF BuilderInv, BuildsWhatIsMissing, Held
<1>4. CASE at[s] \notin Building /\ at[t] \in Building
  BY <1>1, <1>4 DEF BuilderInv, BuildsWhatIsMissing, Held
<1>5. CASE at[s] \notin Building /\ at[t] \notin Building
  BY <1>1, <1>5 DEF Held
<1>6. QED
  BY <1>2, <1>3, <1>4, <1>5

\* A method handles what it is there for, is there once, and hears the replies to
\* what it asks (LocalServer.cpp:157, RemoteServer.cpp:156), for any number of
\* threads, names and events.
THEOREM MethodsAreSound == MethodsSpec => []MethodsSound
<1>1. MethodsInv => MethodsSound
  BY HeldIsOne DEF MethodsInv, MethodsSound
<1>2. QED
  BY <1>1, MethodsInductive, PTL

\* When the destructor of a server has returned, its methods neither listen nor
\* handle nor own an informer (Server.cpp:50).
THEOREM MethodsAreGone == MethodsSpec => []GoneForGood
<1>1. ASSUME MethodsInv, server = "gone", NEW t \in Threads
      PROVE  ~listener[t].up /\ ~informer[t] /\ worker[t] = "none"
  <2>1. at[t] \in {"idle", "done", "refused"}
    BY <1>1, EndingIsQuiet
  <2>2. methods[name[t]] = Nobody
    BY <1>1 DEF MethodsInv, HeldInv, MethodsTypeOK
  <2>3. ~Held(t)
    BY <2>1, <2>2, NobodyAssumption DEF Held, Building
  <2>4. QED
    BY <1>1, <2>3 DEF MethodsInv, HeldInv
<1>2. MethodsInv => GoneForGood
  BY <1>1 DEF GoneForGood
<1>3. QED
  BY <1>2, MethodsInductive, PTL
=============================================================================
