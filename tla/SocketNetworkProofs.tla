-------------------------- MODULE SocketNetworkProofs --------------------------
(***************************************************************************)
(* Proofs about SocketNetwork, for any clients and numbers of events, with *)
(* and without crashes.                                                    *)
(***************************************************************************)
EXTENDS SocketNetwork, Integers, TLAPS

-----------------------------------------------------------------------------
(* Events and ends *)

E(o, n) == [from |-> o, n |-> n]

LEMMA EventIs ==
    /\ \A e \in Event : /\ e = E(e.from, e.n) /\ e.from \in Processes
                        /\ e.n \in Nat /\ e.n >= 1 /\ e.n <= MaxSent[e.from]
    /\ \A p \in Processes, n \in Nat : n >= 1 /\ n <= MaxSent[p] => E(p, n) \in Event
    /\ \A p, q, n, m : E(p, n) = E(q, m) => p = q /\ n = m
    /\ \A p, n : E(p, n).from = p /\ E(p, n).n = n
    /\ Eof \notin Event /\ Reset \notin Event
<1>1. \A e \in Event : \E p \in Processes : e \in [from : {p}, n : 1..MaxSent[p]]
  BY DEF Event
<1>2. \A p \in Processes : MaxSent[p] \in Nat
  BY MaxSentAssumption
<1>3. ASSUME NEW e \in Event
      PROVE  /\ e = E(e.from, e.n) /\ e.from \in Processes
             /\ e.n \in Nat /\ e.n >= 1 /\ e.n <= MaxSent[e.from]
  <2>1. PICK p \in Processes : e \in [from : {p}, n : 1..MaxSent[p]]
    BY <1>1
  <2>2. e = E(e.from, e.n) /\ e.from = p /\ e.n \in 1..MaxSent[p]
    BY <2>1 DEF E
  <2>3. QED
    BY <1>2, <2>2
<1>4. ASSUME NEW p \in Processes, NEW n \in Nat, n >= 1, n <= MaxSent[p] PROVE E(p, n) \in Event
  <2>1. E(p, n) \in [from : {p}, n : 1..MaxSent[p]]
    BY <1>2, <1>4 DEF E
  <2>2. QED
    BY <2>1 DEF Event
<1>5. Eof.n = 0 /\ Reset.n = 0
  BY DEF Eof, Reset
<1>6. Eof \notin Event /\ Reset \notin Event
  BY <1>3, <1>5
<1>7. /\ \A p, n : E(p, n).from = p /\ E(p, n).n = n
      /\ \A p, q, n, m : E(p, n) = E(q, m) => p = q /\ n = m
  BY DEF E
<1>8. QED
  BY <1>3, <1>4, <1>6, <1>7

LEMMA EndsAre ==
    /\ \A c \in Clients : /\ ClientEnd(c) \in Ends /\ ServerEnd(c) \in Ends
                          /\ Peer(ClientEnd(c)) = ServerEnd(c)
                          /\ Peer(ServerEnd(c)) = ClientEnd(c)
                          /\ ServerEnd(c)[1] = c /\ ServerEnd(c)[2] = "server"
    /\ \A c, d : /\ ClientEnd(c) # ServerEnd(d)
                 /\ ClientEnd(c) = ClientEnd(d) => c = d
                 /\ ServerEnd(c) = ServerEnd(d) => c = d
    /\ \A e \in Ends : \E c \in Clients : e = ClientEnd(c) \/ e = ServerEnd(c)
    /\ \A e \in Ends : Peer(e) \in Ends /\ Peer(e) # e /\ Peer(Peer(e)) = e
BY DEF Ends, ClientEnd, ServerEnd, Peer

LEMMA ProcessOfIs ==
    /\ \A c \in Clients : ProcessOf(ClientEnd(c)) = c /\ ProcessOf(ServerEnd(c)) = Hub
    /\ \A e \in Ends : /\ ProcessOf(e) \in Processes /\ e \in EndsOf(ProcessOf(e))
                       /\ \A c \in Clients : ProcessOf(e) = c => e = ClientEnd(c)
<1>1. \A c \in Clients : ProcessOf(ClientEnd(c)) = c /\ ProcessOf(ServerEnd(c)) = Hub
  BY DEF ProcessOf, ClientEnd, ServerEnd
<1>2. \A e \in Ends : \E c \in Clients : e = ClientEnd(c) \/ e = ServerEnd(c)
  BY EndsAre
<1>3. Hub \notin Clients
  BY ClientsAssumption
<1>4. QED
  BY <1>1, <1>2, <1>3 DEF Processes, EndsOf

LEMMA HubIsNoClient == Hub \notin Clients /\ Hub \in Processes /\ Clients \subseteq Processes
BY ClientsAssumption DEF Processes

LEMMA EndsOfAre ==
    /\ EndsOf(Hub) = {ServerEnd(c) : c \in Clients}
    /\ \A c \in Clients : EndsOf(c) = {ClientEnd(c)}
BY HubIsNoClient DEF EndsOf

What == Event \cup {Eof, Reset}

-----------------------------------------------------------------------------
(* What sending and closing do to the wires *)

\* w2 is w, cut somewhere, and what comes after the events ends them.
Shortened(w2, w) ==
    \A i \in DOMAIN w2 : w2[i] \in Event => \A k \in 1..i : k \in DOMAIN w /\ w2[k] = w[k]

LEMMA ShortenedBy ==
    ASSUME NEW w \in Seq(What)
    PROVE  /\ Shortened(w, w) /\ Shortened(<<>>, w) /\ Shortened(<<Reset>>, w)
           /\ Shortened(Append(w, Eof), w)
           /\ \A n \in 0..Len(w) : /\ Shortened(SubSeq(w, 1, n) \o <<Reset>>, w)
                                   /\ SubSeq(w, 1, n) \o <<Reset>> \in Seq(What)
<1>1. Shortened(w, w) /\ Shortened(<<>>, w)
  BY DEF Shortened
<1>2. Shortened(<<Reset>>, w)
  BY EventIs DEF Shortened
<1>3. Shortened(Append(w, Eof), w)
  <2>1. /\ DOMAIN Append(w, Eof) = 1..(Len(w) + 1) /\ DOMAIN w = 1..Len(w)
        /\ Append(w, Eof)[Len(w) + 1] = Eof
        /\ \A i \in 1..Len(w) : Append(w, Eof)[i] = w[i]
    OBVIOUS
  <2>2. QED
    BY <2>1, EventIs DEF Shortened
<1>4. ASSUME NEW n \in 0..Len(w)
      PROVE  /\ Shortened(SubSeq(w, 1, n) \o <<Reset>>, w)
             /\ SubSeq(w, 1, n) \o <<Reset>> \in Seq(What)
  <2> DEFINE s == SubSeq(w, 1, n)
  <2>1. s \in Seq(What) /\ Len(s) = n /\ \A i \in 1..n : s[i] = w[i]
    OBVIOUS
  <2>2. <<Reset>> \in Seq(What) /\ Len(<<Reset>>) = 1 /\ <<Reset>>[1] = Reset
    BY DEF What
  <2> HIDE DEF s
  <2>3. /\ s \o <<Reset>> \in Seq(What) /\ DOMAIN (s \o <<Reset>>) = 1..(n + 1)
        /\ (s \o <<Reset>>)[n + 1] = Reset
        /\ \A i \in 1..n : (s \o <<Reset>>)[i] = w[i]
    BY <2>1, <2>2
  <2>4. DOMAIN w = 1..Len(w) /\ n \in Nat /\ n <= Len(w)
    OBVIOUS
  <2>5. Shortened(s \o <<Reset>>, w)
    BY <2>3, <2>4, EventIs DEF Shortened
  <2>6. QED
    BY <2>3, <2>5 DEF s
<1>5. QED
  BY <1>1, <1>2, <1>3, <1>4

-----------------------------------------------------------------------------
(* The connections *)

Both(c) == ClientEnd(c) \in open /\ ServerEnd(c) \in open

\* The connection of a client that has not joined, that the hub has yet to add,
\* or that has left
ConnOf(c) ==
    /\ bus[c] = "new" =>
          /\ sent[c] = 0 /\ pending[c] = {}
          /\ ClientEnd(c) \notin open \cup stopping /\ ServerEnd(c) \notin open \cup stopping
    /\ c \in accepted => bus[c] # "new" /\ ServerEnd(c) \in open \ (listed \cup stopping)
    /\ ClientEnd(c) \in listed => bus[c] = "up"
    /\ Both(c) /\ bus[c] = "up" => ClientEnd(c) \in listed
    /\ pending[c] # {} => bus[c] = "up"

\* An end that is shutting down stays in its list only where its process is
\* stuck, which needs a publisher and keeps the hub's io thread from forwarding.
StuckInv ==
    /\ \A e \in listed : e \in stopping => ProcessOf(e) \in stuck
    /\ \A p \in stuck : pending[p] # {}
    /\ Hub \in stuck => forward = {}

ConnInv ==
    /\ listed \subseteq open
    /\ StuckInv
    /\ \A e \in Ends : e \notin open => wire[e] = <<>>
    /\ \A c \in Clients : ConnOf(c)

\* Writing on a connection whose ends are both there appends to the wire.
LEMMA WrittenIs ==
    ASSUME TypeOK, ConnInv, NEW event \in Event, NEW T \in SUBSET Ends, NEW cut \in SUBSET Broken(T)
    PROVE  /\ Written(event, T, cut) \in [Ends -> Seq(What)]
           /\ \A e \in Ends :
                 IF e \in open /\ Peer(e) \in Writing(T)
                 THEN Written(event, T, cut)[e] = Append(wire[e], event)
                 ELSE \/ Written(event, T, cut)[e] = wire[e]
                      \/ /\ Written(event, T, cut)[e] = <<Reset>>
                         /\ e \in open /\ Peer(e) \notin open
<1> DEFINE written == Written(event, T, cut)
<1>1. written = [e \in Ends |->
         IF e \in cut THEN <<Reset>>
         ELSE IF e \in open /\ Peer(e) \in Writing(T) THEN Append(wire[e], event)
         ELSE wire[e]]
  BY DEF Written
<1>2. Writing(T) \subseteq open
  BY DEF Writing, ConnInv
<1>3. \A e \in cut : e \in open /\ Peer(e) \notin open /\ Peer(e) \notin Writing(T)
  BY <1>2 DEF Broken
<1>4. \A e \in Ends : wire[e] \in Seq(What) /\ Append(wire[e], event) \in Seq(What)
  BY DEF TypeOK, What
<1>5. <<Reset>> \in Seq(What)
  BY DEF What
<1> HIDE DEF written
<1>6. \A e \in Ends :
         IF e \in open /\ Peer(e) \in Writing(T)
         THEN written[e] = Append(wire[e], event)
         ELSE \/ written[e] = wire[e]
              \/ written[e] = <<Reset>> /\ e \in open /\ Peer(e) \notin open
  BY <1>1, <1>3
<1>7. written \in [Ends -> Seq(What)]
  BY <1>1, <1>4, <1>5
<1>8. QED
  BY <1>6, <1>7 DEF written

LEMMA SendEffect ==
    ASSUME TypeOK, ConnInv, NEW event \in Event, NEW T \in SUBSET Ends, Send(event, T)
    PROVE  /\ listed' \subseteq listed
           /\ \A e \in listed : e \notin listed' => Peer(e) \notin open
           /\ wire' \in [Ends -> Seq(What)]
           /\ \A e \in Ends :
                 IF e \in open /\ Peer(e) \in Writing(T)
                 THEN wire'[e] = Append(wire[e], event)
                 ELSE \/ wire'[e] = wire[e]
                      \/ wire'[e] = <<Reset>> /\ e \in open /\ Peer(e) \notin open
<1>1. PICK failing \in SUBSET Broken(T), cut \in SUBSET Broken(T) :
         listed' = listed \ failing /\ wire' = Written(event, T, cut)
  BY DEF Send
<1>2. listed' \subseteq listed /\ \A e \in listed : e \notin listed' => Peer(e) \notin open
  BY <1>1 DEF Broken
<1>3. /\ Written(event, T, cut) \in [Ends -> Seq(What)]
      /\ \A e \in Ends :
            IF e \in open /\ Peer(e) \in Writing(T)
            THEN Written(event, T, cut)[e] = Append(wire[e], event)
            ELSE \/ Written(event, T, cut)[e] = wire[e]
                 \/ /\ Written(event, T, cut)[e] = <<Reset>>
                    /\ e \in open /\ Peer(e) \notin open
  BY WrittenIs
<1>4. wire' = Written(event, T, cut)
  BY <1>1
<1>5. QED
  BY <1>2, <1>3, <1>4

\* What a process that gets stuck has sent
LEMMA StuckEffect ==
    ASSUME TypeOK, ConnInv, NEW e \in Ends, GetStuck(e)
    PROVE  \E event \in pending[ProcessOf(e)], T \in SUBSET (EndsOf(ProcessOf(e)) \ {e}) :
              /\ event \in Event /\ T \in SUBSET Ends
              /\ wire' \in [Ends -> Seq(What)]
              /\ wire'[Peer(e)] \in {wire[Peer(e)], Append(wire[Peer(e)], Eof)}
              /\ Peer(e) \notin open => wire'[Peer(e)] = wire[Peer(e)]
              /\ \A d \in Ends \ {Peer(e)} :
                    IF d \in open /\ Peer(d) \in Writing(T)
                    THEN wire'[d] = Append(wire[d], event)
                    ELSE \/ wire'[d] = wire[d]
                         \/ wire'[d] = <<Reset>> /\ d \in open /\ Peer(d) \notin open
<1> DEFINE p == ProcessOf(e)
<1>1. e \in open /\ p \in Processes /\ Peer(e) \in Ends /\ Peer(Peer(e)) = e
  BY ProcessOfIs, EndsAre DEF GetStuck, Reads
<1>2. pending[p] \subseteq Event /\ EndsOf(p) \subseteq Ends
  BY <1>1, EndsAre, EndsOfAre DEF TypeOK, Processes
<1>3. PICK event \in Event, T \in SUBSET Ends :
         /\ event \in pending[p] /\ T \in SUBSET (EndsOf(p) \ {e})
         /\ \E cut \in SUBSET Broken(T) :
                wire' = [Written(event, T, cut) EXCEPT ![Peer(e)] =
                            IF Peer(e) \in open THEN Append(@, Eof) ELSE @]
  <2>1. PICK event \in pending[p], T \in SUBSET (EndsOf(p) \ {e}) :
           \E cut \in SUBSET Broken(T) :
               wire' = [Written(event, T, cut) EXCEPT ![Peer(e)] =
                           IF Peer(e) \in open THEN Append(@, Eof) ELSE @]
    BY DEF GetStuck
  <2>2. event \in Event /\ T \in SUBSET Ends
    BY <1>2
  <2>3. QED
    BY <2>1, <2>2
<1>4. PICK cut \in SUBSET Broken(T) :
         wire' = [Written(event, T, cut) EXCEPT ![Peer(e)] =
                     IF Peer(e) \in open THEN Append(@, Eof) ELSE @]
  BY <1>3
<1>5. /\ Written(event, T, cut) \in [Ends -> Seq(What)]
      /\ \A d \in Ends :
            IF d \in open /\ Peer(d) \in Writing(T)
            THEN Written(event, T, cut)[d] = Append(wire[d], event)
            ELSE \/ Written(event, T, cut)[d] = wire[d]
                 \/ /\ Written(event, T, cut)[d] = <<Reset>>
                    /\ d \in open /\ Peer(d) \notin open
  BY WrittenIs
<1> DEFINE written == Written(event, T, cut)
           peers == IF Peer(e) \in open THEN Append(written[Peer(e)], Eof) ELSE written[Peer(e)]
<1>6. written[Peer(e)] = wire[Peer(e)] /\ written[Peer(e)] \in Seq(What)
  <2>1. e \notin Writing(T)
    BY <1>3 DEF Writing
  <2>2. QED
    BY <1>1, <1>5, <2>1
<1>7. wire' = [written EXCEPT ![Peer(e)] = peers]
  BY <1>4
<1> HIDE DEF written, p
<1>8. peers \in Seq(What) /\ peers \in {wire[Peer(e)], Append(wire[Peer(e)], Eof)}
  BY <1>6 DEF What
<1>9. Peer(e) \notin open => peers = wire[Peer(e)]
  BY <1>6
<1> HIDE DEF peers
<1>10. /\ wire' \in [Ends -> Seq(What)]
       /\ wire'[Peer(e)] = peers
       /\ \A d \in Ends \ {Peer(e)} : wire'[d] = written[d]
  BY <1>1, <1>5, <1>7, <1>8 DEF written
<1>11. \A d \in Ends \ {Peer(e)} :
          IF d \in open /\ Peer(d) \in Writing(T)
          THEN wire'[d] = Append(wire[d], event)
          ELSE \/ wire'[d] = wire[d]
               \/ wire'[d] = <<Reset>> /\ d \in open /\ Peer(d) \notin open
  BY <1>5, <1>10 DEF written
<1>12. event \in pending[ProcessOf(e)] /\ T \in SUBSET (EndsOf(ProcessOf(e)) \ {e})
  BY <1>3 DEF p
<1>13. QED
  BY <1>8, <1>9, <1>10, <1>11, <1>12

\* Closing an end shortens both wires.
LEMMA CloseEffect ==
    ASSUME TypeOK, NEW e \in Ends, NEW unread, Close(e, unread)
    PROVE  /\ listed' = listed \ {e} /\ open' = open \ {e}
           /\ wire' \in [Ends -> Seq(What)]
           /\ wire'[e] = <<>>
           /\ Shortened(wire'[Peer(e)], wire[Peer(e)])
           /\ Peer(e) \notin open => wire'[Peer(e)] = wire[Peer(e)]
           /\ \A d \in Ends \ {e, Peer(e)} : wire'[d] = wire[d]
<1>1. Peer(e) \in Ends /\ Peer(e) # e
  BY EndsAre
<1>2. wire \in [Ends -> Seq(What)] /\ wire[Peer(e)] \in Seq(What)
  BY <1>1 DEF TypeOK, What
<1>3. PICK rest \in AfterClose(e, unread) :
         wire' = [wire EXCEPT ![e] = <<>>,
                              ![Peer(e)] = IF Peer(e) \in open THEN rest ELSE @]
  BY DEF Close
<1>4. rest \in Seq(What) /\ Shortened(rest, wire[Peer(e)])
  <2>1. CASE \E i \in DOMAIN unread : unread[i] # Eof
    <3>1. PICK n \in 0..Len(wire[Peer(e)]) : rest = SubSeq(wire[Peer(e)], 1, n) \o <<Reset>>
      BY <1>3, <2>1 DEF AfterClose
    <3>2. QED
      BY <1>2, <3>1, ShortenedBy
  <2>2. CASE ~\E i \in DOMAIN unread : unread[i] # Eof
    <3>1. rest = wire[Peer(e)] \/ rest = Append(wire[Peer(e)], Eof)
      BY <1>3, <2>2 DEF AfterClose
    <3>2. Append(wire[Peer(e)], Eof) \in Seq(What)
      BY <1>2 DEF What
    <3>3. QED
      BY <1>2, <3>1, <3>2, ShortenedBy
  <2>3. QED
    BY <2>1, <2>2
<1>5. <<>> \in Seq(What)
  OBVIOUS
<1>6. wire' \in [Ends -> Seq(What)]
  BY <1>1, <1>2, <1>3, <1>4, <1>5
<1>7. wire'[e] = <<>> /\ wire'[Peer(e)] = (IF Peer(e) \in open THEN rest ELSE wire[Peer(e)])
  BY <1>1, <1>2, <1>3
<1>8. Shortened(wire'[Peer(e)], wire[Peer(e)])
  BY <1>2, <1>4, <1>7, ShortenedBy
<1>9. \A d \in Ends \ {e, Peer(e)} : wire'[d] = wire[d]
  BY <1>2, <1>3
<1>10. QED
  BY <1>6, <1>7, <1>8, <1>9 DEF Close

-----------------------------------------------------------------------------
(* Type correctness *)

LEMMA TypeInit == Init => TypeOK
BY HubIsNoClient DEF Init, TypeOK

LEMMA SendsAreTyped ==
    ASSUME TypeOK, ConnInv
    PROVE  /\ \A p \in Processes : EndsOf(p) \in SUBSET Ends
           /\ \A p \in Processes : \A event \in pending[p] : event \in Event
           /\ \A f \in forward : f[1] \in Event /\ f[2] \in Clients
BY EndsAre, EndsOfAre, HubIsNoClient DEF TypeOK, Processes

LEMMA TailIsTyped ==
    ASSUME TypeOK, NEW e \in Ends, wire[e] # <<>>
    PROVE  Tail(wire[e]) \in Seq(What) /\ Head(wire[e]) \in What
BY DEF TypeOK, What

LEMMA TypeNext == TypeOK /\ ConnInv /\ [Next]_vars => TypeOK'
<1> SUFFICES ASSUME TypeOK, ConnInv, [Next]_vars PROVE TypeOK'
  OBVIOUS
<1> USE EndsAre, HubIsNoClient DEF What
<1>1. ASSUME NEW c \in Clients, Join(c) \/ Register(c) PROVE TypeOK'
  <2>1. /\ accepted' \subseteq {c} /\ listed' \subseteq listed \cup {ClientEnd(c), ServerEnd(c)}
        /\ open' \subseteq open \cup {ClientEnd(c), ServerEnd(c)}
        /\ UNCHANGED <<stopping, wire, pending, forward, stuck, sent, inbox>>
    BY <1>1 DEF Join, Register
  <2>2. bus' = bus \/ bus' = [bus EXCEPT ![c] = "up"]
    BY <1>1 DEF Join, Register
  <2>3. bus' \in [Clients -> {"new", "up", "down"}]
    <3>1. bus \in [Clients -> {"new", "up", "down"}]
      BY DEF TypeOK
    <3>2. QED
      BY <2>2, <3>1
  <2>4. listed' \subseteq Ends /\ open' \subseteq Ends /\ accepted' \subseteq Clients
    <3>1. {ClientEnd(c), ServerEnd(c)} \subseteq Ends /\ {c} \subseteq Clients
      OBVIOUS
    <3>2. listed \subseteq Ends /\ open \subseteq Ends
      BY DEF TypeOK
    <3> HIDE EndsAre, HubIsNoClient
    <3>3. QED
      BY <2>1, <3>1, <3>2
  <2>5. QED
    BY <2>1, <2>3, <2>4 DEF TypeOK
<1>2. ASSUME NEW p \in Processes, PublishToSinks(p) PROVE TypeOK'
  <2>1. sent[p] \in Nat /\ sent[p] < MaxSent[p] /\ sent' = [sent EXCEPT ![p] = sent[p] + 1]
    BY <1>2 DEF PublishToSinks, TypeOK
  <2>2. [from |-> p, n |-> sent[p] + 1] \in Event
    BY <2>1, EventIs, MaxSentAssumption DEF E
  <2>3. Append(inbox[p], [from |-> p, n |-> sent[p] + 1]) \in Seq(Event)
    BY <2>2 DEF TypeOK
  <2>4. inbox' \in [Processes -> Seq(Event)]
    BY <1>2, <2>3 DEF PublishToSinks, TypeOK
  <2>5. pending' \in [Processes -> SUBSET Event]
    BY <1>2, <2>2 DEF PublishToSinks, TypeOK
  <2>6. QED
    BY <1>2, <2>1, <2>4, <2>5 DEF PublishToSinks, TypeOK
<1>3. ASSUME NEW p \in Processes, PublishToConnections(p) PROVE TypeOK'
  <2>1. listed' \subseteq listed /\ wire' \in [Ends -> Seq(What)]
    BY <1>3, SendsAreTyped, SendEffect DEF PublishToConnections
  <2>2. QED
    BY <1>3, <2>1 DEF PublishToConnections, TypeOK
<1>4. CASE HubForwards
  <2>1. PICK f \in forward : Send(f[1], EndsOf(Hub) \ {ServerEnd(f[2])})
    BY <1>4 DEF HubForwards
  <2>2. f[1] \in Event /\ EndsOf(Hub) \ {ServerEnd(f[2])} \in SUBSET Ends
    BY SendsAreTyped
  <2>3. listed' \subseteq listed /\ wire' \in [Ends -> Seq(What)]
    BY <2>1, <2>2, SendEffect
  <2>4. QED
    BY <1>4, <2>3 DEF HubForwards, TypeOK
<1>5. ASSUME NEW c \in Clients, NEW event \in Event, ClientReceives(c, event) PROVE TypeOK'
  <2>1. wire' \in [Ends -> Seq(What)]
    BY <1>5, TailIsTyped DEF ClientReceives, Reads, TypeOK
  <2>2. Append(inbox[c], event) \in Seq(Event)
    BY DEF TypeOK
  <2>3. inbox' \in [Processes -> Seq(Event)]
    BY <1>5, <2>2 DEF ClientReceives, TypeOK
  <2>4. QED
    BY <1>5, <2>1, <2>3 DEF ClientReceives, TypeOK
<1>6. ASSUME NEW c \in Clients, NEW event \in Event, HubReceives(c, event) PROVE TypeOK'
  <2>1. wire' \in [Ends -> Seq(What)]
    BY <1>6, TailIsTyped DEF HubReceives, Reads, TypeOK
  <2>2. Append(inbox[Hub], event) \in Seq(Event)
    BY DEF TypeOK
  <2>3. inbox' \in [Processes -> Seq(Event)]
    BY <1>6, <2>2 DEF HubReceives, TypeOK
  <2>4. QED
    BY <1>6, <2>1, <2>3 DEF HubReceives, TypeOK
<1>7. ASSUME NEW c \in Clients, NEW event, ClientFindsNoBus(c, event) PROVE TypeOK'
  BY <1>7, CloseEffect DEF ClientFindsNoBus, TypeOK
<1>8. ASSUME NEW e \in Ends, ReadEof(e) \/ ReadReset(e) PROVE TypeOK'
  <2>1. \E unread : Close(e, unread)
    BY <1>8 DEF ReadEof, ReadReset
  <2>2. /\ listed' = listed \ {e} /\ open' = open \ {e}
        /\ wire' \in [Ends -> Seq(What)]
    BY <2>1, CloseEffect
  <2>3. /\ stopping' \subseteq stopping \cup {e}
        /\ UNCHANGED <<bus, accepted, pending, forward, stuck, sent, inbox>>
    BY <1>8 DEF ReadEof, ReadReset
  <2>4. QED
    BY <2>2, <2>3 DEF TypeOK
<1>9. ASSUME NEW c \in Clients, BusDestructed(c) PROVE TypeOK'
  <2>1. Append(wire[ServerEnd(c)], Eof) \in Seq(What)
    BY DEF TypeOK
  <2>2. wire' \in [Ends -> Seq(What)]
    BY <1>9, <2>1 DEF BusDestructed, TypeOK
  <2>3. /\ bus' = [bus EXCEPT ![c] = "down"] /\ listed' \subseteq listed
        /\ stopping' \subseteq stopping \cup {ClientEnd(c)}
        /\ UNCHANGED <<accepted, open, pending, forward, stuck, sent, inbox>>
    BY <1>9 DEF BusDestructed
  <2>4. QED
    BY <2>2, <2>3 DEF TypeOK
<1>10. ASSUME NEW c \in Clients, Crash(c) PROVE TypeOK'
  <2>1. /\ listed' \subseteq listed /\ open' \subseteq open
        /\ wire' \in [Ends -> Seq(What)]
    <3>1. CASE ClientEnd(c) \in open
      <4>1. Close(ClientEnd(c), wire[ClientEnd(c)])
        BY <1>10, <3>1 DEF Crash
      <4>2. QED
        BY <4>1, CloseEffect
    <3>2. CASE ClientEnd(c) \notin open
      BY <1>10, <3>2 DEF Crash, TypeOK
    <3>3. QED
      BY <3>1, <3>2
  <2>2. QED
    BY <1>10, <2>1 DEF Crash, TypeOK
<1>11. ASSUME NEW e \in Ends, GetStuck(e) PROVE TypeOK'
  <2>1. wire' \in [Ends -> Seq(What)]
    BY <1>11, StuckEffect
  <2>2. stopping' = stopping \cup {e} /\ stuck' = stuck \cup {ProcessOf(e)}
    BY <1>11 DEF GetStuck
  <2>3. stuck' \subseteq Processes
    BY <2>2, ProcessOfIs DEF TypeOK
  <2>4. QED
    BY <1>11, <2>1, <2>2, <2>3 DEF GetStuck, TypeOK
<1>12. CASE UNCHANGED vars
  BY <1>12 DEF vars, TypeOK
<1>13. QED
  BY <1>1, <1>2, <1>3, <1>4, <1>5, <1>6, <1>7, <1>8, <1>9, <1>10, <1>11, <1>12
     DEF Next, ClientReads, HubReads, ReadEnd

-----------------------------------------------------------------------------
(* Connections come and go *)

LEMMA SendKeepsConns ==
    ASSUME TypeOK, ConnInv, NEW event \in Event, NEW T \in SUBSET Ends, Send(event, T),
           UNCHANGED <<bus, accepted, open, stopping, stuck, sent>>, forward' \subseteq forward,
           \A c \in Clients : pending'[c] \in {pending[c], {}},
           \A p \in stuck : pending'[p] = pending[p]
    PROVE  ConnInv'
<1>1. /\ listed' \subseteq listed
      /\ \A e \in listed : e \notin listed' => Peer(e) \notin open
  BY SendEffect
<1>2. \A e \in Ends : e \notin open => wire'[e] = wire[e]
  BY SendEffect
<1>3. ASSUME NEW c \in Clients PROVE ConnOf(c)'
  <2>1. Both(c) => (ClientEnd(c) \in listed <=> ClientEnd(c) \in listed')
    BY <1>1, EndsAre DEF Both
  <2>2. ConnOf(c)
    BY DEF ConnInv
  <2>3. QED
    BY <1>1, <2>1, <2>2 DEF ConnOf, Both
<1>4. StuckInv'
  BY <1>1 DEF ConnInv, StuckInv
<1>5. QED
  BY <1>1, <1>2, <1>3, <1>4 DEF ConnInv

LEMMA CloseKeepsConns ==
    ASSUME TypeOK, ConnInv, NEW e \in Ends, NEW unread, Close(e, unread),
           e[1] \in accepted => e[2] # "server",
           stopping' \subseteq stopping \cup {e}, UNCHANGED <<accepted, forward, sent>>,
           NEW b \in Clients, e \in {ClientEnd(b), ServerEnd(b)}, bus[b] # "new",
           \A c \in Clients : \/ bus'[c] = bus[c] /\ pending'[c] = pending[c]
                              \/ e = ClientEnd(c) /\ bus'[c] = "down" /\ pending'[c] = {},
           stuck' = stuck \/ (e = ClientEnd(b) /\ stuck' = stuck \ {b}),
           \A p \in stuck' : pending'[p] = pending[p]
    PROVE  ConnInv'
<1>1. /\ listed' = listed \ {e} /\ open' = open \ {e}
      /\ wire'[e] = <<>>
      /\ Peer(e) \notin open => wire'[Peer(e)] = wire[Peer(e)]
      /\ \A d \in Ends \ {e, Peer(e)} : wire'[d] = wire[d]
  BY CloseEffect
<1>2. listed' \subseteq open' /\ StuckInv'
  <2>1. \A d \in listed' : d \in listed /\ d # e /\ d \in Ends
    BY <1>1 DEF TypeOK
  <2>2. \A d \in listed' : d \in stopping' => ProcessOf(d) \in stuck'
    BY <2>1, ProcessOfIs DEF ConnInv, StuckInv
  <2>3. stuck' \subseteq stuck
    OBVIOUS
  <2>4. QED
    BY <1>1, <2>2, <2>3 DEF ConnInv, StuckInv
<1>3. \A d \in Ends : d \notin open' => wire'[d] = <<>>
  BY <1>1 DEF ConnInv
<1>4. ASSUME NEW c \in Clients PROVE ConnOf(c)'
  <2>1. ConnOf(c)
    BY DEF ConnInv
  <2>2. c # b => e # ClientEnd(c) /\ e # ServerEnd(c)
    BY EndsAre
  <2>3. c \in accepted => e # ServerEnd(c)
    BY EndsAre
  <2>4. bus'[c] = "new" => bus[c] = "new" /\ c # b
    OBVIOUS
  <2>5. CASE bus'[c] = bus[c] /\ pending'[c] = pending[c]
    BY <1>1, <2>1, <2>2, <2>3, <2>4, <2>5, EndsAre DEF ConnOf, Both
  <2>6. CASE e = ClientEnd(c) /\ bus'[c] = "down" /\ pending'[c] = {}
    BY <1>1, <2>1, <2>2, <2>3, <2>6, EndsAre DEF ConnOf, Both
  <2>7. QED
    BY <2>5, <2>6
<1>5. QED
  BY <1>2, <1>3, <1>4 DEF ConnInv

LEMMA ConnNext == TypeOK /\ ConnInv /\ [Next]_vars => ConnInv'
<1> SUFFICES ASSUME TypeOK, ConnInv, [Next]_vars PROVE ConnInv'
  OBVIOUS
<1>1. ASSUME NEW c \in Clients, Join(c) PROVE ConnInv'
  <2>1. ConnOf(c) /\ bus[c] = "new" /\ bus'[c] = "up"
    BY <1>1 DEF Join, ConnInv, TypeOK
  <2>2. listed' \subseteq open' /\ StuckInv'
    <3>1. ClientEnd(c) \notin stopping
      BY <2>1 DEF ConnOf
    <3>2. QED
      BY <1>1, <3>1 DEF Join, ConnInv, StuckInv
  <2>3. ConnOf(c)'
    BY <1>1, <2>1, <2>2, EndsAre DEF Join, ConnOf, Both, ConnInv
  <2>4. ASSUME NEW d \in Clients \ {c} PROVE ConnOf(d)'
    <3>1. ConnOf(d) /\ bus'[d] = bus[d] /\ d \notin accepted'
      BY <1>1 DEF Join, ConnInv, TypeOK
    <3>2. /\ ClientEnd(d) \in listed' <=> ClientEnd(d) \in listed
          /\ ClientEnd(d) \in open' <=> ClientEnd(d) \in open
          /\ ServerEnd(d) \in open' <=> ServerEnd(d) \in open
      BY <1>1, EndsAre DEF Join
    <3>3. QED
      BY <1>1, <3>1, <3>2 DEF Join, ConnOf, Both
  <2>5. \A e \in Ends : e \notin open' => wire'[e] = <<>>
    BY <1>1 DEF Join, ConnInv
  <2>6. QED
    BY <2>2, <2>3, <2>4, <2>5 DEF ConnInv
<1>2. ASSUME NEW c \in Clients, Register(c) PROVE ConnInv'
  <2>1. StuckInv'
    <3>1. ServerEnd(c) \notin stopping
      BY <1>2 DEF Register, ConnInv, ConnOf
    <3>2. QED
      BY <1>2, <3>1 DEF Register, ConnInv, StuckInv
  <2>2. QED
    BY <1>2, <2>1, EndsAre DEF Register, ConnInv, ConnOf, Both
<1>3. ASSUME NEW p \in Processes, PublishToSinks(p) PROVE ConnInv'
  <2>1. UNCHANGED <<bus, accepted, listed, open, stopping, wire, forward, stuck>>
    BY <1>3 DEF PublishToSinks
  <2>2. \A c \in Clients : c # p => sent'[c] = sent[c] /\ pending'[c] = pending[c]
    BY <1>3, HubIsNoClient DEF PublishToSinks, TypeOK
  <2>3. p \in Clients => bus[p] = "up"
    BY <1>3, HubIsNoClient DEF PublishToSinks, Up
  <2>4. StuckInv'
    <3>1. \A q \in stuck : pending'[q] = pending[q]
      BY <1>3 DEF PublishToSinks, ConnInv, StuckInv, TypeOK
    <3>2. QED
      BY <2>1, <3>1 DEF ConnInv, StuckInv
  <2>5. QED
    BY <2>1, <2>2, <2>3, <2>4 DEF ConnInv, ConnOf, Both
<1>4. ASSUME NEW p \in Processes, PublishToConnections(p) PROVE ConnInv'
  <2>1. PICK event \in pending[p] : Send(event, EndsOf(p))
    BY <1>4 DEF PublishToConnections
  <2>2. event \in Event /\ EndsOf(p) \in SUBSET Ends
    BY SendsAreTyped
  <2>3. /\ UNCHANGED <<bus, accepted, open, stopping, forward, stuck, sent>>
        /\ \A c \in Clients : pending'[c] \in {pending[c], {}}
        /\ \A q \in stuck : pending'[q] = pending[q]
    BY <1>4, HubIsNoClient DEF PublishToConnections, TypeOK
  <2>4. QED
    BY <2>1, <2>2, <2>3, SendKeepsConns
<1>5. CASE HubForwards
  <2>1. PICK f \in forward : Send(f[1], EndsOf(Hub) \ {ServerEnd(f[2])})
    BY <1>5 DEF HubForwards
  <2>2. f[1] \in Event /\ EndsOf(Hub) \ {ServerEnd(f[2])} \in SUBSET Ends
    BY SendsAreTyped, HubIsNoClient
  <2>3. UNCHANGED <<bus, accepted, open, stopping, pending, stuck, sent>> /\ forward' = {}
    BY <1>5 DEF HubForwards
  <2>4. QED
    BY <2>1, <2>2, <2>3, SendKeepsConns
<1>6. ASSUME NEW c \in Clients, NEW event \in Event, ClientReceives(c, event) \/ HubReceives(c, event)
      PROVE  ConnInv'
  <2>1. UNCHANGED <<bus, accepted, listed, open, stopping, pending, stuck, sent>>
    BY <1>6 DEF ClientReceives, HubReceives
  <2>2. \A e \in Ends : e \notin open => wire'[e] = wire[e]
    BY <1>6, EndsAre DEF ClientReceives, HubReceives, Reads, TypeOK
  <2>3. StuckInv'
    <3>1. Hub \in stuck => forward' = forward
      BY <1>6, ProcessOfIs DEF ClientReceives, HubReceives, Reads
    <3>2. QED
      BY <2>1, <3>1 DEF ConnInv, StuckInv
  <2>4. QED
    BY <2>1, <2>2, <2>3 DEF ConnInv, ConnOf, Both
<1>7. ASSUME NEW c \in Clients, NEW event, ClientFindsNoBus(c, event) PROVE ConnInv'
  <2>1. Close(ClientEnd(c), Tail(wire[ClientEnd(c)])) /\ bus[c] # "new"
    BY <1>7 DEF ClientFindsNoBus
  <2>2. UNCHANGED <<bus, accepted, stopping, pending, forward, stuck, sent>>
    BY <1>7 DEF ClientFindsNoBus
  <2>3. ClientEnd(c) \in Ends /\ ClientEnd(c)[2] # "server"
    BY EndsAre DEF ClientEnd
  <2>4. QED
    BY <2>1, <2>2, <2>3, CloseKeepsConns
<1>8. ASSUME NEW c \in Clients, NEW e \in {ClientEnd(c), ServerEnd(c)}, ReadEof(e) \/ ReadReset(e)
      PROVE  ConnInv'
  <2>1. /\ \E unread : Close(e, unread)
        /\ e \in open /\ (e[1] \in accepted => e[2] # "server")
    <3>1. e[2] = "server" => ProcessOf(e) = Hub
      BY DEF ProcessOf
    <3>2. QED
      BY <1>8, <3>1 DEF ReadEof, ReadReset, Reads
  <2>2. /\ stopping' \subseteq stopping \cup {e}
        /\ UNCHANGED <<bus, accepted, pending, forward, stuck, sent>>
    BY <1>8 DEF ReadEof, ReadReset
  <2>3. e \in Ends /\ bus[c] # "new"
    BY <2>1, EndsAre DEF ConnInv, ConnOf
  <2>4. QED
    BY <2>1, <2>2, <2>3, CloseKeepsConns
<1>9. ASSUME NEW c \in Clients, BusDestructed(c) PROVE ConnInv'
  <2>1. /\ bus[c] = "up" /\ pending[c] = {} /\ bus' = [bus EXCEPT ![c] = "down"]
        /\ stopping' = stopping \cup ({ClientEnd(c)} \cap listed)
        /\ listed' = listed \ {ClientEnd(c)}
        /\ UNCHANGED <<accepted, open, pending, forward, stuck, sent>>
    BY <1>9 DEF BusDestructed
  <2>2. \A e \in Ends : e \notin open => wire'[e] = wire[e]
    BY <1>9, EndsAre DEF BusDestructed, TypeOK
  <2>3. ASSUME NEW d \in Clients PROVE ConnOf(d)'
    <3>1. ConnOf(d)
      BY DEF ConnInv
    <3>2. CASE d = c
      BY <2>1, <3>1, <3>2, EndsAre DEF ConnOf, Both, TypeOK
    <3>3. CASE d # c
      BY <2>1, <3>1, <3>3, EndsAre DEF ConnOf, Both, TypeOK
    <3>4. QED
      BY <3>2, <3>3
  <2>4. listed' \subseteq open' /\ StuckInv'
    BY <2>1 DEF ConnInv, StuckInv
  <2>5. QED
    BY <2>1, <2>2, <2>3, <2>4 DEF ConnInv
<1>10. ASSUME NEW c \in Clients, Crash(c) PROVE ConnInv'
  <2>1. /\ bus[c] = "up" /\ bus' = [bus EXCEPT ![c] = "down"]
        /\ pending' = [pending EXCEPT ![c] = {}] /\ stuck' = stuck \ {c}
        /\ \A p \in stuck' : pending'[p] = pending[p]
        /\ UNCHANGED <<accepted, stopping, forward, sent>>
    BY <1>10 DEF Crash, TypeOK
  <2>2. CASE ClientEnd(c) \in open
    <3>1. Close(ClientEnd(c), wire[ClientEnd(c)])
      BY <1>10, <2>2 DEF Crash
    <3>2. ClientEnd(c) \in Ends /\ ClientEnd(c)[2] # "server"
      BY EndsAre DEF ClientEnd
    <3>3. \A d \in Clients : \/ bus'[d] = bus[d] /\ pending'[d] = pending[d]
                             \/ d = c /\ bus'[d] = "down" /\ pending'[d] = {}
      BY <2>1, HubIsNoClient DEF TypeOK
    <3>4. QED
      BY <2>1, <3>1, <3>2, <3>3, CloseKeepsConns
  <2>3. CASE ClientEnd(c) \notin open
    <3>1. UNCHANGED <<listed, open, wire>>
      BY <1>10, <2>3 DEF Crash
    <3>2. StuckInv'
      <4>1. \A d \in listed : d \in Ends /\ d # ClientEnd(c)
        BY <2>3 DEF ConnInv, TypeOK
      <4>2. \A d \in listed : ProcessOf(d) # c
        BY <4>1, ProcessOfIs
      <4>3. QED
        BY <2>1, <3>1, <4>2 DEF ConnInv, StuckInv
    <3>3. ASSUME NEW d \in Clients PROVE ConnOf(d)'
      <4>1. ConnOf(d) /\ (d = c \/ (bus'[d] = bus[d] /\ pending'[d] = pending[d]))
        BY <2>1, HubIsNoClient DEF ConnInv, TypeOK
      <4>2. bus'[c] = "down" /\ pending'[c] = {} /\ ClientEnd(c) \notin listed
        BY <2>1, <2>3, HubIsNoClient DEF ConnInv, TypeOK
      <4>3. QED
        BY <2>1, <3>1, <4>1, <4>2 DEF ConnOf, Both
    <3>4. QED
      BY <2>1, <3>1, <3>2, <3>3 DEF ConnInv
  <2>4. QED
    BY <2>2, <2>3
<1>11. ASSUME NEW e \in Ends, GetStuck(e) PROVE ConnInv'
  <2>1. /\ e \in open /\ e \in listed /\ pending[ProcessOf(e)] # {}
        /\ ProcessOf(e) = Hub => forward = {}
        /\ stopping' = stopping \cup {e} /\ stuck' = stuck \cup {ProcessOf(e)}
        /\ UNCHANGED <<bus, accepted, listed, open, pending, forward, sent, inbox>>
    BY <1>11 DEF GetStuck, Reads
  <2>2. \A d \in Ends : d \notin open => wire'[d] = wire[d]
    BY <1>11, StuckEffect
  <2>3. StuckInv'
    BY <2>1 DEF ConnInv, StuckInv
  <2>4. ASSUME NEW c \in Clients PROVE ConnOf(c)'
    <3>1. ConnOf(c)
      BY DEF ConnInv
    <3>2. QED
      BY <2>1, <3>1 DEF ConnOf, Both
  <2>5. QED
    BY <2>1, <2>2, <2>3, <2>4 DEF ConnInv
<1>12. CASE UNCHANGED vars
  BY <1>12 DEF vars, ConnInv, StuckInv, ConnOf, Both
<1>13. QED
  BY <1>1, <1>2, <1>3, <1>4, <1>5, <1>6, <1>7, <1>8, <1>9, <1>10, <1>11, <1>12, EndsAre
     DEF Next, ClientReads, HubReads, ReadEnd

-----------------------------------------------------------------------------
(* What has been published, seen and forwarded *)

\* Only the latest event waits to be sent or forwarded.
PendInv ==
    /\ \A p \in Processes : pending[p] \subseteq {E(p, sent[p])}
    /\ \A f, g \in forward : f = g /\ f[1].from = f[2]

\* A process has seen what it has published itself.
SelfInv == \A p \in Processes, n \in Nat : Has(p, E(p, n)) <=> n \in 1..sent[p]

HubInv ==
    \A i, k \in DOMAIN inbox[Hub] :
        i < k /\ inbox[Hub][i].from = inbox[Hub][k].from => inbox[Hub][i].n < inbox[Hub][k].n

\* The number of events a client has given to its connections
Done(c) == IF pending[c] = {} THEN sent[c] ELSE sent[c] - 1

\* The hub has seen the first h events of c, the following are on the wire, and
\* all of them while both ends are open.
UpOf(c, h) ==
    LET w == wire[ServerEnd(c)]
    IN  /\ \A n \in Nat : Has(Hub, E(c, n)) <=> n \in 1..h
        /\ h <= sent[c]
        /\ \A i \in DOMAIN w : w[i] \in Event => w[i] = E(c, h + i) /\ h + i <= Done(c)
        /\ \A f \in forward : f[2] = c => f[1] = E(c, h)
        /\ Both(c) => /\ h <= Done(c) /\ Done(c) - h <= Len(w)
                      /\ \A i \in 1..(Done(c) - h) : w[i] = E(c, h + i)
                      /\ ClientEnd(c) \in listed \ stopping => Len(w) = Done(c) - h

UpInv == \A c \in Clients : \E h \in Nat : UpOf(c, h)

\* The hub has sent e to its clients.
Told(e) == Has(Hub, e) /\ e \notin pending[Hub] /\ \A f \in forward : f[1] # e

\* The hub has sent e to its clients, or to some and got stuck.
Telling(e) ==
    Has(Hub, e) /\ (e \notin pending[Hub] \/ Hub \in stuck) /\ \A f \in forward : f[1] # e

\* e has reached c or will, as long as the connection lasts.
At(c, e) == Has(c, e) \/ OnWire(ClientEnd(c), e)

\* e reaches c before what is at position i of its wire.
Before(c, i, e) == Has(c, e) \/ \E k \in 1..(i - 1) : wire[ClientEnd(c)][k] = e

\* Of the same publisher, e's predecessor comes before it, or nothing does, and
\* only older events do.
Follows(c, i, e) ==
    /\ \A d \in Event : d.from = e.from /\ Before(c, i, d) => d.n < e.n
    /\ \/ \E d \in Event : d.from = e.from /\ d.n = e.n - 1 /\ Before(c, i, d)
       \/ \A d \in Event : d.from = e.from => ~Before(c, i, d)

OrderOf(c) ==
    \A i \in DOMAIN wire[ClientEnd(c)], e \in Event :
        wire[ClientEnd(c)][i] = e => e.from # c /\ Follows(c, i, e)

ToldOf(c) == \A e \in Event : e.from # c /\ At(c, e) => Telling(e)

GapFreeOf(c) ==
    ServerEnd(c) \in listed \ stopping /\ ClientEnd(c) \in open =>
        \A e, f \in Event :
            e.from # c /\ f.from = e.from /\ e.n < f.n /\ At(c, e) /\ Told(f) => At(c, f)

\* Nothing is sent to a client before the hub has added its connection.
New(c) == bus[c] = "new" \/ c \in accepted
FreshOf(c) == New(c) => \A e \in Event : e.from # c => ~At(c, e)

DownOf(c) == OrderOf(c) /\ ToldOf(c) /\ GapFreeOf(c) /\ FreshOf(c)
DownInv == \A c \in Clients : DownOf(c)

FlowInv == PendInv /\ SelfInv /\ HubInv /\ UpInv /\ DownInv
NetInv == TypeOK /\ ConnInv /\ FlowInv

-----------------------------------------------------------------------------
(* How the inboxes grow *)

LEMMA HasAppended ==
    ASSUME TypeOK, NEW p \in Processes, NEW e \in Event,
           inbox' = [inbox EXCEPT ![p] = Append(inbox[p], e)]
    PROVE  /\ \A x : Has(p, x)' <=> Has(p, x) \/ x = e
           /\ \A q \in Processes \ {p} : \A x : Has(q, x)' <=> Has(q, x)
<1>1. inbox[p] \in Seq(Event) /\ inbox'[p] = Append(inbox[p], e)
  BY DEF TypeOK
<1>2. /\ DOMAIN inbox[p] = 1..Len(inbox[p]) /\ Len(inbox[p]) \in Nat
      /\ DOMAIN inbox'[p] = 1..(Len(inbox[p]) + 1)
      /\ \A i \in 1..Len(inbox[p]) : inbox'[p][i] = inbox[p][i]
      /\ inbox'[p][Len(inbox[p]) + 1] = e
  BY <1>1
<1>3. \A x : Has(p, x)' <=> Has(p, x) \/ x = e
  BY <1>2 DEF Has
<1>4. \A q \in Processes \ {p} : inbox'[q] = inbox[q]
  BY DEF TypeOK
<1>5. QED
  BY <1>3, <1>4 DEF Has

LEMMA HubOrderGrows ==
    ASSUME TypeOK, HubInv, NEW event \in Event,
           inbox' = [inbox EXCEPT ![Hub] = Append(inbox[Hub], event)],
           \A d \in Event : d.from = event.from /\ Has(Hub, d) => d.n < event.n
    PROVE  HubInv'
<1>1. /\ inbox[Hub] \in Seq(Event) /\ inbox'[Hub] = Append(inbox[Hub], event)
      /\ DOMAIN inbox[Hub] = 1..Len(inbox[Hub]) /\ Len(inbox[Hub]) \in Nat
  BY HubIsNoClient DEF TypeOK
<1>2. /\ DOMAIN inbox'[Hub] = 1..(Len(inbox[Hub]) + 1)
      /\ inbox'[Hub][Len(inbox[Hub]) + 1] = event
      /\ \A i \in 1..Len(inbox[Hub]) : inbox'[Hub][i] = inbox[Hub][i]
  BY <1>1
<1>3. ASSUME NEW i \in 1..Len(inbox[Hub]), inbox[Hub][i].from = event.from
      PROVE  inbox[Hub][i].n < event.n
  <2>1. inbox[Hub][i] \in Event /\ Has(Hub, inbox[Hub][i])
    BY <1>1 DEF Has
  <2>2. QED
    BY <1>3, <2>1
<1>4. \A i, k \in 1..Len(inbox[Hub]) :
         i < k /\ inbox[Hub][i].from = inbox[Hub][k].from => inbox[Hub][i].n < inbox[Hub][k].n
  BY <1>1 DEF HubInv
<1>5. QED
  BY <1>1, <1>2, <1>3, <1>4 DEF HubInv

LEMMA HasEvent == TypeOK => \A p \in Processes : \A x : Has(p, x) => x \in Event
BY DEF TypeOK, Has

-----------------------------------------------------------------------------
(* From a client to the hub *)

\* w2 begins with all of w.
Begins(w2, w) == \A i \in DOMAIN w : i \in DOMAIN w2 /\ w2[i] = w[i]

LEMMA UpStays ==
    ASSUME TypeOK, TypeOK', NEW c \in Clients, NEW h \in Nat, UpOf(c, h),
           \A n \in Nat : Has(Hub, E(c, n))' <=> Has(Hub, E(c, n)),
           sent[c] <= sent'[c], Done(c) <= Done(c)',
           \A f \in forward' : f[2] = c => f \in forward,
           Shortened(wire'[ServerEnd(c)], wire[ServerEnd(c)]),
           Both(c)' => /\ Both(c) /\ Done(c)' = Done(c)
                       /\ Begins(wire'[ServerEnd(c)], wire[ServerEnd(c)])
                       /\ ClientEnd(c) \in listed' \ stopping' =>
                             /\ ClientEnd(c) \in listed \ stopping
                             /\ wire'[ServerEnd(c)] = wire[ServerEnd(c)]
    PROVE  UpOf(c, h)'
<1> DEFINE w == wire[ServerEnd(c)]
           v == wire'[ServerEnd(c)]
<1>1. /\ DOMAIN w = 1..Len(w) /\ Len(w) \in Nat /\ DOMAIN v = 1..Len(v) /\ Len(v) \in Nat
      /\ sent[c] \in Nat /\ sent'[c] \in Nat
  BY EndsAre, HubIsNoClient DEF TypeOK
<1>2. Done(c) \in Int /\ Done(c)' \in Int
  BY <1>1 DEF Done
<1>3. ASSUME NEW i \in DOMAIN v, v[i] \in Event PROVE v[i] = E(c, h + i) /\ h + i <= Done(c)'
  <2>1. i \in DOMAIN w /\ v[i] = w[i]
    BY <1>1, <1>3 DEF Shortened
  <2>2. w[i] = E(c, h + i) /\ h + i <= Done(c)
    BY <1>3, <2>1 DEF UpOf
  <2>3. QED
    BY <1>1, <1>2, <2>1, <2>2
<1>4. ASSUME Both(c)'
      PROVE  /\ h <= Done(c)' /\ Done(c)' - h <= Len(v)
             /\ \A i \in 1..(Done(c)' - h) : v[i] = E(c, h + i)
             /\ ClientEnd(c) \in listed' \ stopping' => Len(v) = Done(c)' - h
  <2>1. /\ h <= Done(c) /\ Done(c) - h <= Len(w)
        /\ \A i \in 1..(Done(c) - h) : w[i] = E(c, h + i)
        /\ ClientEnd(c) \in listed \ stopping => Len(w) = Done(c) - h
    BY <1>4 DEF UpOf
  <2>2. Len(w) <= Len(v) /\ \A i \in 1..Len(w) : v[i] = w[i]
    BY <1>1, <1>4 DEF Begins
  <2> HIDE DEF w, v
  <2>3. \A i \in 1..(Done(c) - h) : i \in 1..Len(w)
    BY <1>1, <1>2, <2>1
  <2>4. QED
    BY <1>1, <1>2, <1>4, <2>1, <2>2, <2>3 DEF w, v
<1>5. /\ \A n \in Nat : Has(Hub, E(c, n))' <=> n \in 1..h
      /\ h <= sent'[c]
      /\ \A f \in forward' : f[2] = c => f[1] = E(c, h)
  BY <1>1 DEF UpOf
<1>6. QED
  BY <1>3, <1>4, <1>5 DEF UpOf

\* A client gives its event to its connection.
LEMMA UpSends ==
    ASSUME TypeOK, TypeOK', ConnInv, PendInv, NEW c \in Clients, NEW h \in Nat, UpOf(c, h),
           PublishToConnections(c)
    PROVE  UpOf(c, h)'
<1> DEFINE w == wire[ServerEnd(c)]
           v == wire'[ServerEnd(c)]
<1>1. PICK event \in pending[c] : Send(event, EndsOf(c))
  BY DEF PublishToConnections
<1>2. event \in Event /\ event = E(c, sent[c]) /\ EndsOf(c) = {ClientEnd(c)}
  BY SendsAreTyped, HubIsNoClient, EndsOfAre DEF PendInv
<1>3. /\ UNCHANGED <<bus, accepted, open, stopping, forward, stuck, sent, inbox>>
      /\ pending'[c] = {} /\ Done(c)' = sent[c] /\ Done(c) = sent[c] - 1
  BY <1>1, HubIsNoClient DEF PublishToConnections, TypeOK, Done
<1>4. /\ ClientEnd(c) \in Ends /\ ServerEnd(c) \in Ends
      /\ Peer(ServerEnd(c)) = ClientEnd(c) /\ EndsOf(c) \in SUBSET Ends
  BY <1>2, EndsAre
<1>5. /\ listed' \subseteq listed
      /\ IF ServerEnd(c) \in open /\ ClientEnd(c) \in Writing(EndsOf(c))
         THEN v = Append(w, event)
         ELSE v = w \/ v = <<Reset>>
  BY <1>1, <1>2, <1>4, SendEffect
<1>6. /\ DOMAIN w = 1..Len(w) /\ Len(w) \in Nat /\ w \in Seq(What)
      /\ sent[c] \in Nat
  BY <1>4, HubIsNoClient DEF TypeOK, What
<1>7. \A n \in Nat : Has(Hub, E(c, n))' <=> Has(Hub, E(c, n))
  BY <1>3 DEF Has
<1>8. CASE ~Both(c)
  <2>1. ~(ServerEnd(c) \in open /\ ClientEnd(c) \in Writing(EndsOf(c))) /\ ~Both(c)'
    BY <1>3, <1>8 DEF Both, ConnInv, Writing
  <2>2. Shortened(v, w)
    BY <1>5, <1>6, <2>1, ShortenedBy
  <2>3. sent[c] <= sent'[c] /\ Done(c) <= Done(c)'
    BY <1>3, <1>6
  <2>4. QED
    BY <1>3, <1>7, <2>1, <2>2, <2>3, UpStays
<1>9. CASE Both(c)
  <2>1. ClientEnd(c) \in listed \ stopping
    <3>1. ClientEnd(c) \in listed
      BY <1>1, <1>9 DEF ConnInv, ConnOf
    <3>2. c \notin stuck
      BY DEF PublishToConnections
    <3>3. QED
      BY <3>1, <3>2, ProcessOfIs DEF ConnInv, StuckInv
  <2>2. v = Append(w, event)
    BY <1>2, <1>5, <1>9, <2>1 DEF Both, Writing
  <2>3. /\ DOMAIN v = 1..(Len(w) + 1) /\ Len(v) = Len(w) + 1 /\ v[Len(w) + 1] = event
        /\ \A i \in 1..Len(w) : v[i] = w[i]
    BY <1>2, <1>6, <2>2 DEF What
  <2>4. /\ h <= Done(c) /\ \A i \in 1..(Done(c) - h) : w[i] = E(c, h + i)
        /\ Len(w) = Done(c) - h
    BY <1>9, <2>1 DEF UpOf
  <2> HIDE DEF w, v
  <2>5. ASSUME NEW i \in 1..(Len(w) + 1) PROVE v[i] = E(c, h + i) /\ h + i <= sent[c]
    <3>1. i \in Nat /\ h + (Len(w) + 1) = sent[c]
      BY <1>3, <1>6, <2>4
    <3>2. CASE i = Len(w) + 1
      BY <1>2, <1>6, <2>3, <3>1, <3>2
    <3>3. CASE i # Len(w) + 1
      <4>1. i \in 1..Len(w) /\ i \in 1..(Done(c) - h) /\ h + i <= sent[c]
        BY <1>6, <2>4, <3>1, <3>3
      <4>2. QED
        BY <2>3, <2>4, <4>1
    <3>4. QED
      BY <3>2, <3>3
  <2>6. UpOf(c, h)'
    <3>1. /\ \A n \in Nat : Has(Hub, E(c, n))' <=> n \in 1..h
          /\ \A f \in forward' : f[2] = c => f[1] = E(c, h)
          /\ h <= sent'[c]
      BY <1>3, <1>7 DEF UpOf
    <3>2. h <= Done(c)' /\ Done(c)' - h = Len(v)
      BY <1>3, <1>6, <2>3, <2>4
    <3>3. QED
      BY <1>3, <2>3, <2>5, <3>1, <3>2 DEF UpOf, w, v
  <2>7. QED
    BY <2>6
<1>10. QED
  BY <1>8, <1>9

\* The hub receives the next one.
LEMMA NextUp ==
    ASSUME TypeOK, ConnInv, NEW c \in Clients, NEW event \in Event, HubReceives(c, event),
           NEW h \in Nat, UpOf(c, h)
    PROVE  event = E(c, h + 1) /\ h + 1 <= Done(c) /\ h + 1 <= sent[c] /\ ~Has(Hub, event)
<1> DEFINE w == wire[ServerEnd(c)]
<1>1. w # <<>> /\ Head(w) = event /\ w \in Seq(What)
  BY EndsAre DEF HubReceives, Reads, TypeOK, What
<1>2. 1 \in DOMAIN w /\ w[1] = event
  BY <1>1
<1>3. event = E(c, h + 1) /\ h + 1 <= Done(c)
  BY <1>2 DEF UpOf
<1>4. sent[c] \in Nat /\ h + 1 <= sent[c]
  BY <1>3, HubIsNoClient DEF TypeOK, Done
<1>5. h + 1 \notin 1..h /\ h + 1 \in Nat
  OBVIOUS
<1>6. QED
  BY <1>3, <1>4, <1>5 DEF UpOf

LEMMA UpReceives ==
    ASSUME TypeOK, TypeOK', ConnInv, PendInv, NEW c \in Clients, NEW event \in Event,
           HubReceives(c, event), NEW h \in Nat, UpOf(c, h)
    PROVE  UpOf(c, h + 1)'
<1> DEFINE w == wire[ServerEnd(c)]
           v == wire'[ServerEnd(c)]
<1>1. w # <<>> /\ w \in Seq(What) /\ v = Tail(w)
  BY EndsAre DEF HubReceives, Reads, TypeOK, What
<1>2. /\ Len(w) \in Nat /\ Len(w) >= 1 /\ Len(v) = Len(w) - 1 /\ DOMAIN v = 1..Len(v)
      /\ DOMAIN w = 1..Len(w) /\ \A i \in 1..(Len(w) - 1) : v[i] = w[i + 1]
      /\ Head(w) = w[1]
  BY <1>1
<1>3. event = E(c, h + 1) /\ h + 1 <= Done(c) /\ h + 1 <= sent[c] /\ w[1] = event
  BY <1>2, NextUp DEF HubReceives, Reads
<1>4. /\ UNCHANGED <<bus, accepted, listed, open, stopping, pending, stuck, sent>>
      /\ forward' = {<<event, c>>}
      /\ inbox' = [inbox EXCEPT ![Hub] = Append(inbox[Hub], event)]
  BY DEF HubReceives
<1>5. \A x : Has(Hub, x)' <=> Has(Hub, x) \/ x = event
  BY <1>4, HasAppended, HubIsNoClient
<1>6. sent[c] \in Nat /\ sent'[c] = sent[c] /\ Done(c)' = Done(c) /\ Done(c) \in Int
        /\ Both(c)' = Both(c)
  BY <1>4, HubIsNoClient DEF TypeOK, Done, Both
<1>7. \A n \in Nat : Has(Hub, E(c, n))' <=> n \in 1..(h + 1)
  <2>1. ASSUME NEW n \in Nat PROVE Has(Hub, E(c, n))' <=> n \in 1..(h + 1)
    <3>1. E(c, n) = event <=> n = h + 1
      BY <1>3, EventIs
    <3>2. Has(Hub, E(c, n)) <=> n \in 1..h
      BY DEF UpOf
    <3>3. QED
      BY <1>5, <3>1, <3>2
  <2>2. QED
    BY <2>1
<1>8. ASSUME NEW i \in DOMAIN v, v[i] \in Event
      PROVE  v[i] = E(c, h + 1 + i) /\ h + 1 + i <= Done(c)
  <2>1. i \in Nat /\ i + 1 \in DOMAIN w /\ v[i] = w[i + 1]
    BY <1>2, <1>8
  <2>2. v[i] = E(c, h + (i + 1)) /\ h + (i + 1) <= Done(c)
    BY <1>8, <2>1 DEF UpOf
  <2>3. h + (i + 1) = h + 1 + i
    BY <2>1
  <2>4. QED
    BY <2>2, <2>3
<1>9. ASSUME Both(c)
      PROVE  /\ h + 1 <= Done(c) /\ Done(c) - (h + 1) <= Len(v)
             /\ \A i \in 1..(Done(c) - (h + 1)) : v[i] = E(c, h + 1 + i)
             /\ ClientEnd(c) \in listed \ stopping => Len(v) = Done(c) - (h + 1)
  <2>1. /\ h <= Done(c) /\ Done(c) - h <= Len(w)
        /\ \A i \in 1..(Done(c) - h) : w[i] = E(c, h + i)
        /\ ClientEnd(c) \in listed \ stopping => Len(w) = Done(c) - h
    BY <1>9 DEF UpOf
  <2> HIDE DEF w, v
  <2>2. Done(c) \in Int /\ h + 1 <= Done(c)
    BY <1>3, <1>6 DEF Done
  <2>3. ASSUME NEW i \in 1..(Done(c) - (h + 1)) PROVE v[i] = E(c, h + 1 + i)
    <3>1. /\ i \in Nat /\ i + 1 \in 1..(Done(c) - h) /\ i \in 1..(Len(w) - 1)
          /\ h + (i + 1) = h + 1 + i
      BY <1>2, <2>1, <2>2
    <3>2. v[i] = w[i + 1] /\ w[i + 1] = E(c, h + (i + 1))
      BY <1>2, <2>1, <3>1
    <3>3. QED
      BY <3>1, <3>2
  <2>4. QED
    BY <1>2, <2>1, <2>2, <2>3
<1>10. \A f \in forward' : f[2] = c => f[1] = E(c, h + 1)
  BY <1>3, <1>4
<1> HIDE DEF w, v
<1>11. Both(c)' => /\ h + 1 <= Done(c)' /\ Done(c)' - (h + 1) <= Len(v)
                   /\ \A i \in 1..(Done(c)' - (h + 1)) : v[i] = E(c, h + 1 + i)
                   /\ ClientEnd(c) \in listed' \ stopping' => Len(v) = Done(c)' - (h + 1)
  BY <1>4, <1>6, <1>9
<1>12. QED
  BY <1>3, <1>6, <1>7, <1>8, <1>10, <1>11 DEF UpOf, w, v

-----------------------------------------------------------------------------
(* From the hub to a client *)

\* A client that is sent nothing, whose wire at most loses its end, is told no
\* less than before.
LEMMA DownStays ==
    ASSUME TypeOK, TypeOK', NEW c \in Clients, DownOf(c),
           \A e \in Event : e.from # c => (Has(c, e)' <=> Has(c, e)),
           Shortened(wire'[ClientEnd(c)], wire[ClientEnd(c)]),
           \A e \in Event : Telling(e) => Telling(e)',
           New(c)' => New(c),
           ServerEnd(c) \in listed' \ stopping' /\ ClientEnd(c) \in open' =>
               /\ wire'[ClientEnd(c)] = wire[ClientEnd(c)]
               /\ \A e \in Event : e.from # c /\ Told(e)' => Told(e)
               /\ (ServerEnd(c) \in listed \ stopping /\ ClientEnd(c) \in open) \/ New(c)
    PROVE  DownOf(c)'
<1> DEFINE w == wire[ClientEnd(c)]
           v == wire'[ClientEnd(c)]
<1>1. /\ DOMAIN w = 1..Len(w) /\ DOMAIN v = 1..Len(v) /\ Len(w) \in Nat /\ Len(v) \in Nat
  BY EndsAre DEF TypeOK
<1>2. ASSUME NEW i \in DOMAIN v, v[i] \in Event PROVE i \in DOMAIN w /\ \A k \in 1..i : v[k] = w[k]
  BY <1>1, <1>2 DEF Shortened
<1>3. \A e \in Event : e.from # c /\ At(c, e)' => At(c, e)
  <2>1. \A e \in Event : OnWire(ClientEnd(c), e)' => OnWire(ClientEnd(c), e)
    BY <1>1, <1>2 DEF OnWire
  <2>2. QED
    BY <2>1 DEF At
<1>4. OrderOf(c)'
  <2>1. ASSUME NEW i \in DOMAIN v, NEW e \in Event, v[i] = e PROVE e.from # c /\ Follows(c, i, e)'
    <3>1. i \in DOMAIN w /\ w[i] = e /\ \A k \in 1..i : v[k] = w[k]
      BY <1>1, <1>2, <2>1
    <3>2. e.from # c /\ Follows(c, i, e)
      BY <3>1 DEF DownOf, OrderOf
    <3>3. \A k \in 1..(i - 1) : k \in 1..i
      BY <1>1
    <3>4. \A d \in Event : d.from = e.from => (Before(c, i, d)' <=> Before(c, i, d))
      BY <3>1, <3>2, <3>3 DEF Before
    <3>5. QED
      BY <3>2, <3>4 DEF Follows
  <2>2. QED
    BY <2>1 DEF OrderOf
<1>5. ToldOf(c)'
  BY <1>3 DEF DownOf, ToldOf
<1>6. FreshOf(c)'
  BY <1>3 DEF DownOf, FreshOf
<1>7. GapFreeOf(c)'
  <2> SUFFICES ASSUME ServerEnd(c) \in listed' \ stopping', ClientEnd(c) \in open',
                      NEW e \in Event, NEW f \in Event, e.from # c, f.from = e.from, e.n < f.n,
                      At(c, e)', Told(f)'
               PROVE  At(c, f)'
    BY DEF GapFreeOf
  <2>1. At(c, e) /\ Told(f) /\ v = w
    BY <1>3
  <2>2. ~New(c)
    BY <2>1 DEF DownOf, FreshOf
  <2>3. At(c, f)
    BY <2>1, <2>2 DEF DownOf, GapFreeOf
  <2>4. QED
    BY <2>1, <2>3 DEF At, OnWire
<1>8. QED
  BY <1>4, <1>5, <1>6, <1>7 DEF DownOf

\* A client receives what is next on its wire.
LEMMA DownReceives ==
    ASSUME TypeOK, TypeOK', NEW c \in Clients, NEW event \in Event,
           ClientReceives(c, event), DownOf(c)
    PROVE  DownOf(c)'
<1> DEFINE w == wire[ClientEnd(c)]
           v == wire'[ClientEnd(c)]
<1>1. w # <<>> /\ w \in Seq(What) /\ v = Tail(w) /\ Head(w) = event
  BY EndsAre DEF ClientReceives, Reads, TypeOK, What
<1>2. /\ Len(w) \in Nat /\ Len(w) >= 1 /\ Len(v) = Len(w) - 1 /\ DOMAIN v = 1..Len(v)
      /\ DOMAIN w = 1..Len(w) /\ \A i \in 1..(Len(w) - 1) : v[i] = w[i + 1]
      /\ w[1] = event
  BY <1>1
<1>3. /\ UNCHANGED <<bus, accepted, listed, open, stopping, pending, forward, stuck, sent>>
      /\ inbox' = [inbox EXCEPT ![c] = Append(inbox[c], event)]
  BY DEF ClientReceives
<1>4. /\ \A x : Has(c, x)' <=> Has(c, x) \/ x = event
      /\ \A x : Has(Hub, x)' <=> Has(Hub, x)
  BY <1>3, HasAppended, HubIsNoClient
<1> HIDE DEF w, v
<1>5. \A x : (Told(x)' <=> Told(x)) /\ (Telling(x)' <=> Telling(x))
  BY <1>3, <1>4 DEF Told, Telling
<1>6. \A i \in DOMAIN v : \A x : Before(c, i, x)' <=> Before(c, i + 1, x)
  <2> SUFFICES ASSUME NEW i \in DOMAIN v, NEW x PROVE Before(c, i, x)' <=> Before(c, i + 1, x)
    OBVIOUS
  <2>1. i \in Nat /\ i >= 1 /\ i <= Len(w) - 1
    BY <1>2
  <2>2. (\E k \in 1..(i - 1) : v[k] = x) \/ x = event <=> \E k \in 1..((i + 1) - 1) : w[k] = x
    <3>1. ASSUME NEW k \in 1..(i - 1), v[k] = x PROVE k + 1 \in 1..((i + 1) - 1) /\ w[k + 1] = x
      BY <1>2, <2>1, <3>1
    <3>2. 1 \in 1..((i + 1) - 1) /\ w[1] = event
      BY <1>2, <2>1
    <3>3. ASSUME NEW k \in 1..((i + 1) - 1), w[k] = x, k # 1 PROVE k - 1 \in 1..(i - 1) /\ v[k - 1] = x
      <4>1. k - 1 \in 1..(i - 1) /\ k - 1 \in 1..(Len(w) - 1) /\ (k - 1) + 1 = k
        BY <2>1, <1>2, <3>3
      <4>2. v[k - 1] = w[(k - 1) + 1]
        BY <1>2, <4>1
      <4>3. QED
        BY <3>3, <4>1, <4>2
    <3>4. QED
      BY <3>1, <3>2, <3>3
  <2>3. Before(c, i, x)' <=> Has(c, x)' \/ \E k \in 1..(i - 1) : v[k] = x
    BY Zenon DEF Before, v
  <2>4. Before(c, i + 1, x) <=> Has(c, x) \/ \E k \in 1..((i + 1) - 1) : w[k] = x
    BY DEF Before, w
  <2>5. Has(c, x)' <=> Has(c, x) \/ x = event
    BY <1>4
  <2>6. QED
    BY <2>2, <2>3, <2>4, <2>5, Zenon
<1>7. \A x : At(c, x)' <=> At(c, x)
  <2> SUFFICES ASSUME NEW x PROVE At(c, x)' <=> At(c, x)
    OBVIOUS
  <2>1. ASSUME NEW k \in DOMAIN v, v[k] = x PROVE k + 1 \in DOMAIN w /\ w[k + 1] = x
    BY <1>2, <2>1
  <2>2. 1 \in DOMAIN w
    BY <1>2
  <2>3. ASSUME NEW k \in DOMAIN w, w[k] = x, k # 1 PROVE k - 1 \in DOMAIN v /\ v[k - 1] = x
    <3>1. k - 1 \in 1..(Len(w) - 1) /\ (k - 1) + 1 = k
      BY <1>2, <2>3
    <3>2. v[k - 1] = w[(k - 1) + 1]
      BY <1>2, <3>1
    <3>3. QED
      BY <1>2, <2>3, <3>1, <3>2
  <2>4. QED
    BY <1>2, <1>4, <2>1, <2>2, <2>3 DEF At, OnWire, v, w
<1>8. OrderOf(c)'
  <2>1. ASSUME NEW i \in DOMAIN v, NEW e \in Event, v[i] = e PROVE e.from # c /\ Follows(c, i, e)'
    <3>1. i + 1 \in DOMAIN w /\ w[i + 1] = e
      BY <1>2, <2>1
    <3>2. e.from # c /\ Follows(c, i + 1, e)
      BY <3>1 DEF DownOf, OrderOf, w
    <3>3. \A x : Before(c, i, x)' <=> Before(c, i + 1, x)
      BY <1>6
    <3>4. QED
      BY <3>2, <3>3 DEF Follows
  <2>2. QED
    BY <2>1 DEF OrderOf, v
<1>9. ToldOf(c)'
  BY <1>5, <1>7 DEF DownOf, ToldOf
<1>10. GapFreeOf(c)'
  BY <1>3, <1>5, <1>7 DEF DownOf, GapFreeOf
<1>11. FreshOf(c)'
  BY <1>3, <1>7 DEF DownOf, FreshOf, New
<1>12. QED
  BY <1>8, <1>9, <1>10, <1>11 DEF DownOf

\* A client is sent the latest event of another publisher.
LEMMA DownAppends ==
    ASSUME TypeOK, TypeOK', NEW event \in Event, NEW c \in Clients, DownOf(c),
           wire'[ClientEnd(c)] = Append(wire[ClientEnd(c)], event), event.from # c,
           ClientEnd(c) \in open /\ ServerEnd(c) \in listed \ stopping, ~New(c)',
           \A x : Has(c, x)' <=> Has(c, x),
           Hub \notin stuck, ~Told(event),
           \A e \in Event : e.from = event.from /\ Has(Hub, e) => e.n <= event.n,
           \A e \in Event : e.from = event.from /\ e.n < event.n => Told(e),
           \A e \in Event : Told(e)' => Told(e) \/ e = event,
           \A e \in Event : Told(e) \/ e = event => Telling(e)'
    PROVE  DownOf(c)'
<1> DEFINE w == wire[ClientEnd(c)]
           v == wire'[ClientEnd(c)]
<1>1. w \in Seq(What)
  BY EndsAre DEF TypeOK, What
<1>2. /\ DOMAIN w = 1..Len(w) /\ Len(w) \in Nat /\ DOMAIN v = 1..(Len(w) + 1)
      /\ v[Len(w) + 1] = event /\ \A i \in 1..Len(w) : v[i] = w[i]
  BY <1>1 DEF What
<1>3. ToldOf(c) /\ GapFreeOf(c) /\ OrderOf(c)
  BY DEF DownOf
<1> HIDE DEF w, v
<1>4. \A x : At(c, x)' <=> At(c, x) \/ x = event
  <2>1. \A x : (\E i \in DOMAIN v : v[i] = x) <=> (\E i \in DOMAIN w : w[i] = x) \/ x = event
    BY <1>2
  <2>2. \A x : At(c, x)' <=> Has(c, x)' \/ \E i \in DOMAIN v : v[i] = x
    BY Zenon DEF At, OnWire, v
  <2>3. \A x : At(c, x) <=> Has(c, x) \/ \E i \in DOMAIN w : w[i] = x
    BY Zenon DEF At, OnWire, w
  <2>4. QED
    BY <2>1, <2>2, <2>3, Zenon
<1>5. ASSUME NEW d \in Event, d.from = event.from, At(c, d) PROVE d.n < event.n
  <2>1. Told(d) /\ d # event /\ d.n <= event.n
    BY <1>3, <1>5 DEF ToldOf, Told, Telling
  <2>2. d.n # event.n /\ d.n \in Nat /\ event.n \in Nat
    BY <1>5, <2>1, EventIs
  <2>3. QED
    BY <2>1, <2>2
<1>6. ASSUME NEW d \in Event, d.from = event.from, At(c, d)
      PROVE  \E e \in Event : e.from = event.from /\ e.n = event.n - 1 /\ At(c, e)
  <2>1. /\ event.from \in Processes /\ event.n \in Nat /\ event.n <= MaxSent[event.from]
        /\ d.n \in Nat /\ d.n >= 1 /\ d.n < event.n /\ d = E(event.from, d.n)
        /\ MaxSent[event.from] \in Nat
    BY <1>5, <1>6, EventIs, MaxSentAssumption
  <2>2. PICK m \in Nat : m = event.n - 1
    BY <2>1
  <2>3. m >= 1 /\ m <= MaxSent[event.from] /\ m < event.n
    BY <2>1, <2>2
  <2>4. E(event.from, m) \in Event /\ E(event.from, m).from = event.from /\ E(event.from, m).n = m
    BY <2>1, <2>3, EventIs
  <2>5. Told(E(event.from, m))
    BY <2>3, <2>4
  <2>6. CASE d.n = m
    BY <1>6, <2>1, <2>2, <2>4, <2>6
  <2>7. CASE d.n # m
    <3>1. d.n < m
      BY <2>1, <2>2, <2>7
    <3>2. At(c, E(event.from, m))
      BY <1>3, <1>6, <2>4, <2>5, <3>1 DEF GapFreeOf
    <3>3. QED
      BY <2>2, <2>4, <3>2
  <2>8. QED
    BY <2>6, <2>7
<1>7. OrderOf(c)'
  <2>1. ASSUME NEW i \in DOMAIN v, NEW e \in Event, v[i] = e PROVE e.from # c /\ Follows(c, i, e)'
    <3>1. CASE i = Len(w) + 1
      <4>1. e = event /\ i - 1 = Len(w)
        BY <1>2, <2>1, <3>1
      <4>2. \A x : Before(c, i, x)' <=> Has(c, x)' \/ \E k \in 1..(i - 1) : v[k] = x
        BY Zenon DEF Before, v
      <4>3. \A x : At(c, x) <=> Has(c, x) \/ \E k \in DOMAIN w : w[k] = x
        BY Zenon DEF At, OnWire, w
      <4>4. \A x : Before(c, i, x)' <=> At(c, x)
        BY <1>2, <4>1, <4>2, <4>3
      <4>5. QED
        BY <1>5, <1>6, <4>1, <4>4 DEF Follows
    <3>2. CASE i # Len(w) + 1
      <4>1. i \in DOMAIN w /\ i \in Nat /\ w[i] = e /\ i - 1 <= Len(w)
        BY <1>2, <2>1, <3>2
      <4>2. e.from # c /\ Follows(c, i, e)
        BY <1>3, <4>1 DEF OrderOf, w
      <4>3. \A k \in 1..(i - 1) : v[k] = w[k]
        BY <1>2, <4>1
      <4>4. \A x : Before(c, i, x)' <=> Before(c, i, x)
        BY <4>3 DEF Before, v, w
      <4>5. QED
        BY <4>2, <4>4 DEF Follows
    <3>3. QED
      BY <3>1, <3>2
  <2>2. QED
    BY <2>1 DEF OrderOf, v
<1>8. ToldOf(c)'
  BY <1>3, <1>4 DEF ToldOf, Told, Telling
<1>9. FreshOf(c)'
  BY DEF FreshOf
<1>10. GapFreeOf(c)'
  <2> SUFFICES ASSUME NEW e \in Event, NEW f \in Event, e.from # c, f.from = e.from,
                      e.n < f.n, At(c, e)', Told(f)'
               PROVE  At(c, f)'
    BY DEF GapFreeOf
  <2>1. CASE f = event
    BY <1>4, <2>1
  <2>2. CASE f # event
    <3>1. Told(f)
      BY <2>2
    <3>2. e.n \in Nat /\ f.n \in Nat
      BY EventIs
    <3>3. e # event
      BY <3>1, <3>2 DEF Told
    <3>4. At(c, f)
      BY <1>3, <1>4, <3>1, <3>3 DEF GapFreeOf
    <3>5. QED
      BY <1>4, <3>4
  <2>3. QED
    BY <2>1, <2>2
<1>11. QED
  BY <1>7, <1>8, <1>9, <1>10 DEF DownOf
\* The hub sends its latest event to all clients but the publisher.
LEMMA DownSends ==
    ASSUME TypeOK, TypeOK', ConnInv, NEW event \in Event, NEW T \in SUBSET Ends, Send(event, T),
           UNCHANGED <<bus, accepted, open, stopping, inbox>>, Hub \notin stuck,
           NEW c \in Clients, DownOf(c), ServerEnd(c) \in T <=> event.from # c,
           ~Told(event),
           \A e \in Event : e.from = event.from /\ Has(Hub, e) => e.n <= event.n,
           \A e \in Event : e.from = event.from /\ e.n < event.n => Told(e),
           \A e \in Event : Told(e)' <=> Told(e) \/ e = event
    PROVE  DownOf(c)'
<1> DEFINE w == wire[ClientEnd(c)]
           v == wire'[ClientEnd(c)]
<1>1. /\ ClientEnd(c) \in Ends /\ ServerEnd(c) \in Ends /\ Peer(ClientEnd(c)) = ServerEnd(c)
      /\ w \in Seq(What)
  BY EndsAre DEF TypeOK, What
<1>2. /\ listed' \subseteq listed
      /\ IF ClientEnd(c) \in open /\ ServerEnd(c) \in Writing(T)
         THEN v = Append(w, event)
         ELSE v = w \/ (v = <<Reset>> /\ ServerEnd(c) \notin open)
  <2>1. /\ listed' \subseteq listed
        /\ \A e \in Ends :
              IF e \in open /\ Peer(e) \in Writing(T)
              THEN wire'[e] = Append(wire[e], event)
              ELSE \/ wire'[e] = wire[e]
                   \/ wire'[e] = <<Reset>> /\ e \in open /\ Peer(e) \notin open
    BY SendEffect
  <2>2. QED
    BY <1>1, <2>1
<1>3. \A x : Has(c, x)' <=> Has(c, x)
  BY DEF Has
<1>4. New(c)' <=> New(c)
  BY DEF New
<1>5. ServerEnd(c) \in listed => ServerEnd(c) \in open /\ ~New(c)
  BY DEF ConnInv, ConnOf, New
<1>6. /\ \A e \in Event : Told(e)' => Telling(e)'
      /\ \A e \in Event : Telling(e) => Told(e)
  BY DEF Told, Telling
<1>7. CASE ~(ClientEnd(c) \in open /\ ServerEnd(c) \in Writing(T))
  <2>1. Shortened(v, w)
    BY <1>1, <1>2, <1>7, ShortenedBy
  <2>2. ASSUME ServerEnd(c) \in listed' \ stopping', ClientEnd(c) \in open'
        PROVE  /\ v = w /\ ServerEnd(c) \in listed \ stopping /\ ClientEnd(c) \in open
               /\ \A e \in Event : e.from # c /\ Told(e)' => Told(e)
    BY <1>2, <1>5, <1>7, <2>2 DEF Writing
  <2>3. QED
    BY <1>3, <1>4, <1>6, <2>1, <2>2, DownStays
<1>8. CASE ClientEnd(c) \in open /\ ServerEnd(c) \in Writing(T)
  <2>1. /\ event.from # c /\ v = Append(w, event) /\ ServerEnd(c) \in listed \ stopping
        /\ ~New(c)'
    BY <1>2, <1>4, <1>5, <1>8 DEF Writing
  <2>2. QED
    BY <1>3, <1>6, <1>8, <2>1, DownAppends
<1>9. QED
  BY <1>7, <1>8

-----------------------------------------------------------------------------
(* Steps that move no event *)

QuietOf(c) ==
    /\ pending'[c] \in {pending[c], {}}
    /\ Shortened(wire'[ClientEnd(c)], wire[ClientEnd(c)])
    /\ Shortened(wire'[ServerEnd(c)], wire[ServerEnd(c)])
    /\ New(c)' => New(c)
    /\ ServerEnd(c) \in listed' \ stopping' /\ ClientEnd(c) \in open' =>
          /\ wire'[ClientEnd(c)] = wire[ClientEnd(c)]
          /\ (ServerEnd(c) \in listed \ stopping /\ ClientEnd(c) \in open) \/ New(c)
    /\ Both(c)' =>
          /\ pending'[c] = pending[c]
          /\ \/ /\ Both(c) /\ Begins(wire'[ServerEnd(c)], wire[ServerEnd(c)])
                /\ ClientEnd(c) \in listed' \ stopping' =>
                      /\ ClientEnd(c) \in listed \ stopping
                      /\ wire'[ServerEnd(c)] = wire[ServerEnd(c)]
             \/ sent[c] = 0 /\ pending[c] = {} /\ wire'[ServerEnd(c)] = <<>>

Quiet ==
    /\ UNCHANGED <<forward, sent, inbox>> /\ pending'[Hub] = pending[Hub]
    /\ Hub \in stuck' <=> Hub \in stuck
    /\ \A c \in Clients : QuietOf(c)

\* A client whose connection is left alone
LEMMA Untouched ==
    ASSUME TypeOK, ConnInv, NEW c \in Clients,
           bus'[c] = bus[c], c \in accepted' => c \in accepted, pending'[c] = pending[c],
           \A e \in {ClientEnd(c), ServerEnd(c)} :
               /\ wire'[e] = wire[e] /\ (e \in listed' <=> e \in listed)
               /\ (e \in open' <=> e \in open) /\ (e \in stopping' <=> e \in stopping)
    PROVE  QuietOf(c)
<1>1. wire[ClientEnd(c)] \in Seq(What) /\ wire[ServerEnd(c)] \in Seq(What)
  BY EndsAre DEF TypeOK, What
<1>2. /\ Shortened(wire'[ClientEnd(c)], wire[ClientEnd(c)])
      /\ Shortened(wire'[ServerEnd(c)], wire[ServerEnd(c)])
      /\ Begins(wire'[ServerEnd(c)], wire[ServerEnd(c)])
  BY <1>1, ShortenedBy DEF Begins
<1>3. QED
  BY <1>2 DEF QuietOf, New, Both

LEMMA CloseIsQuiet ==
    ASSUME TypeOK, ConnInv, NEW b \in Clients, NEW e \in {ClientEnd(b), ServerEnd(b)},
           NEW unread, Close(e, unread), UNCHANGED accepted,
           stopping \subseteq stopping', stopping' \subseteq stopping \cup {e},
           bus[b] # "new", bus'[b] # "new", pending'[b] \in {pending[b], {}},
           \A c \in Clients \ {b} : bus'[c] = bus[c] /\ pending'[c] = pending[c],
           NEW c \in Clients
    PROVE  QuietOf(c)
<1>1. e \in Ends /\ {e, Peer(e)} = {ClientEnd(b), ServerEnd(b)}
  BY EndsAre
<1>2. /\ listed' = listed \ {e} /\ open' = open \ {e}
      /\ wire'[e] = <<>>
      /\ Shortened(wire'[Peer(e)], wire[Peer(e)])
      /\ \A d \in Ends \ {e, Peer(e)} : wire'[d] = wire[d]
  BY <1>1, CloseEffect
<1>3. CASE c = b
  <2>1. wire[e] \in Seq(What)
    BY <1>1 DEF TypeOK, What
  <2>2. Shortened(wire'[e], wire[e])
    BY <1>2, <2>1, ShortenedBy
  <2>3. /\ Shortened(wire'[ClientEnd(c)], wire[ClientEnd(c)])
        /\ Shortened(wire'[ServerEnd(c)], wire[ServerEnd(c)])
    BY <1>1, <1>2, <1>3, <2>2
  <2>4. ~Both(c)'
    BY <1>2, <1>3 DEF Both
  <2>5. ~(ServerEnd(c) \in listed' /\ ClientEnd(c) \in open')
    <3>1. listed' \subseteq open'
      BY <1>2 DEF ConnInv
    <3>2. QED
      BY <2>4, <3>1 DEF Both
  <2>6. QED
    BY <1>3, <2>3, <2>4, <2>5 DEF QuietOf, New
<1>4. CASE c # b
  <2>1. \A d \in {ClientEnd(c), ServerEnd(c)} : d \in Ends /\ d \notin {e, Peer(e)}
    BY <1>1, <1>4, EndsAre
  <2>2. QED
    BY <1>2, <1>4, <2>1, Untouched
<1>5. QED
  BY <1>3, <1>4

LEMMA StepsThatAreQuiet ==
    ASSUME TypeOK, ConnInv,
           \/ UNCHANGED vars
           \/ \E c \in Clients : \/ Join(c) \/ Register(c) \/ BusDestructed(c) \/ Crash(c)
                                 \/ \E event : ClientFindsNoBus(c, event)
                                 \/ \E e \in {ClientEnd(c), ServerEnd(c)} : ReadEnd(e)
    PROVE  Quiet
<1>1. CASE UNCHANGED vars
  BY <1>1, Untouched DEF vars, Quiet
<1>2. ASSUME NEW b \in Clients, Join(b) PROVE Quiet
  <2>1. /\ bus[b] = "new" /\ bus' = [bus EXCEPT ![b] = "up"] /\ accepted' = {b}
        /\ listed' = listed \cup {ClientEnd(b)} /\ open' = open \cup {ClientEnd(b), ServerEnd(b)}
        /\ UNCHANGED <<stopping, wire, pending, forward, stuck, sent, inbox>>
    BY <1>2 DEF Join
  <2>2. ASSUME NEW c \in Clients PROVE QuietOf(c)
    <3>1. CASE c = b
      <4>1. /\ sent[c] = 0 /\ pending[c] = {} /\ ServerEnd(c) \notin open
            /\ ServerEnd(c) \notin listed
        BY <2>1, <3>1 DEF ConnInv, ConnOf
      <4>2. wire[ServerEnd(c)] = <<>> /\ wire'[ServerEnd(c)] = <<>>
        BY <2>1, <4>1, EndsAre DEF ConnInv
      <4>3. ServerEnd(c) \notin listed'
        BY <2>1, <4>1, EndsAre
      <4>4. wire[ClientEnd(c)] \in Seq(What) /\ wire[ServerEnd(c)] \in Seq(What)
        BY EndsAre DEF TypeOK, What
      <4>5. QED
        BY <2>1, <3>1, <4>1, <4>2, <4>3, <4>4, ShortenedBy DEF QuietOf, New
    <3>2. CASE c # b
      <4>1. bus'[c] = bus[c] /\ c \notin accepted' /\ pending'[c] = pending[c]
        BY <2>1, <3>2 DEF TypeOK
      <4>2. \A e \in {ClientEnd(c), ServerEnd(c)} : e # ClientEnd(b) /\ e # ServerEnd(b)
        BY <3>2, EndsAre
      <4>3. QED
        BY <2>1, <4>1, <4>2, Untouched
    <3>3. QED
      BY <3>1, <3>2
  <2>3. QED
    BY <2>1, <2>2 DEF Quiet
<1>3. ASSUME NEW b \in Clients, Register(b) PROVE Quiet
  <2>1. /\ b \in accepted /\ accepted' = {} /\ listed' = listed \cup {ServerEnd(b)}
        /\ UNCHANGED <<bus, open, stopping, wire, pending, forward, stuck, sent, inbox>>
    BY <1>3 DEF Register
  <2>2. ASSUME NEW c \in Clients PROVE QuietOf(c)
    <3>1. CASE c = b
      <4>1. wire[ClientEnd(c)] \in Seq(What) /\ wire[ServerEnd(c)] \in Seq(What)
        BY EndsAre DEF TypeOK, What
      <4>2. ClientEnd(c) \in listed' => ClientEnd(c) \in listed
        BY <2>1, EndsAre
      <4>3. QED
        BY <2>1, <3>1, <4>1, <4>2, ShortenedBy DEF QuietOf, New, Both, Begins
    <3>2. CASE c # b
      BY <2>1, <3>2, EndsAre, Untouched
    <3>3. QED
      BY <3>1, <3>2
  <2>3. QED
    BY <2>1, <2>2 DEF Quiet
<1>4. ASSUME NEW b \in Clients, BusDestructed(b) PROVE Quiet
  <2>1. /\ bus' = [bus EXCEPT ![b] = "down"] /\ listed' = listed \ {ClientEnd(b)}
        /\ UNCHANGED <<accepted, open, pending, forward, stuck, sent, inbox>>
        /\ stopping' = stopping \cup ({ClientEnd(b)} \cap listed)
    BY <1>4 DEF BusDestructed
  <2>2. /\ wire'[ServerEnd(b)] \in {wire[ServerEnd(b)], Append(wire[ServerEnd(b)], Eof)}
        /\ \A e \in Ends \ {ServerEnd(b)} : wire'[e] = wire[e]
    BY <1>4, EndsAre DEF BusDestructed, TypeOK
  <2>3. ASSUME NEW c \in Clients PROVE QuietOf(c)
    <3>1. CASE c = b
      <4>1. /\ wire[ClientEnd(c)] \in Seq(What) /\ wire[ServerEnd(c)] \in Seq(What)
            /\ wire'[ClientEnd(c)] = wire[ClientEnd(c)]
        BY <2>2, <3>1, EndsAre DEF TypeOK, What
      <4>2. Begins(wire'[ServerEnd(c)], wire[ServerEnd(c)])
        BY <2>2, <3>1, <4>1 DEF Begins
      <4>3. /\ Shortened(wire'[ClientEnd(c)], wire[ClientEnd(c)])
            /\ Shortened(wire'[ServerEnd(c)], wire[ServerEnd(c)])
        BY <2>2, <3>1, <4>1, ShortenedBy
      <4>4. bus'[c] = "down" /\ ClientEnd(c) \notin listed'
        BY <2>1, <3>1 DEF TypeOK
      <4>5. QED
        BY <2>1, <4>1, <4>2, <4>3, <4>4 DEF QuietOf, New, Both
    <3>2. CASE c # b
      <4>1. bus'[c] = bus[c]
        BY <2>1, <3>2 DEF TypeOK
      <4>2. \A e \in {ClientEnd(c), ServerEnd(c)} : e # ClientEnd(b) /\ e # ServerEnd(b) /\ e \in Ends
        BY <3>2, EndsAre
      <4>3. QED
        BY <2>1, <2>2, <4>1, <4>2, Untouched
    <3>3. QED
      BY <3>1, <3>2
  <2>4. QED
    BY <2>1, <2>3 DEF Quiet
<1>5. ASSUME NEW b \in Clients, Crash(b) PROVE Quiet
  <2>1. /\ bus[b] = "up" /\ bus' = [bus EXCEPT ![b] = "down"]
        /\ pending' = [pending EXCEPT ![b] = {}] /\ stuck' = stuck \ {b}
        /\ UNCHANGED <<accepted, stopping, forward, sent, inbox>>
    BY <1>5 DEF Crash
  <2>2. /\ bus'[b] = "down" /\ pending'[b] = {} /\ pending'[Hub] = pending[Hub]
        /\ \A c \in Clients \ {b} : bus'[c] = bus[c] /\ pending'[c] = pending[c]
    BY <2>1, HubIsNoClient DEF TypeOK
  <2>3. ASSUME NEW c \in Clients PROVE QuietOf(c)
    <3>1. CASE ClientEnd(b) \in open
      <4>1. Close(ClientEnd(b), wire[ClientEnd(b)])
        BY <1>5, <3>1 DEF Crash
      <4>2. QED
        BY <2>1, <2>2, <4>1, CloseIsQuiet
    <3>2. CASE ClientEnd(b) \notin open
      <4>1. UNCHANGED <<listed, open, wire>>
        BY <1>5, <3>2 DEF Crash
      <4>2. CASE c = b
        <5>1. wire[ClientEnd(c)] \in Seq(What) /\ wire[ServerEnd(c)] \in Seq(What)
          BY EndsAre DEF TypeOK, What
        <5>2. /\ Shortened(wire'[ClientEnd(c)], wire[ClientEnd(c)])
              /\ Shortened(wire'[ServerEnd(c)], wire[ServerEnd(c)])
          BY <4>1, <5>1, ShortenedBy
        <5>3. ~Both(c)' /\ ClientEnd(c) \notin open' /\ (New(c)' => New(c))
          BY <2>1, <2>2, <3>2, <4>1, <4>2 DEF New, Both
        <5>4. QED
          BY <2>2, <4>2, <5>2, <5>3 DEF QuietOf
      <4>3. CASE c # b
        BY <2>1, <2>2, <4>1, <4>3, Untouched
      <4>4. QED
        BY <4>2, <4>3
    <3>3. QED
      BY <3>1, <3>2
  <2>4. QED
    BY <2>1, <2>2, <2>3, HubIsNoClient DEF Quiet
<1>6. ASSUME NEW b \in Clients, NEW event, ClientFindsNoBus(b, event) PROVE Quiet
  <2>1. /\ bus[b] = "down" /\ Close(ClientEnd(b), Tail(wire[ClientEnd(b)]))
        /\ UNCHANGED <<bus, accepted, stopping, pending, forward, stuck, sent, inbox>>
    BY <1>6 DEF ClientFindsNoBus
  <2>2. \A c \in Clients : QuietOf(c)
    BY <2>1, CloseIsQuiet
  <2>3. QED
    BY <2>1, <2>2 DEF Quiet
<1>7. ASSUME NEW b \in Clients, NEW e \in {ClientEnd(b), ServerEnd(b)}, ReadEnd(e) PROVE Quiet
  <2>1. /\ \E unread : Close(e, unread)
        /\ e \in open /\ stopping \subseteq stopping' /\ stopping' \subseteq stopping \cup {e}
        /\ UNCHANGED <<bus, accepted, pending, forward, stuck, sent, inbox>>
    BY <1>7 DEF ReadEnd, ReadEof, ReadReset, Reads
  <2>2. bus[b] # "new"
    BY <2>1 DEF ConnInv, ConnOf
  <2>3. \A c \in Clients : QuietOf(c)
    BY <2>1, <2>2, CloseIsQuiet
  <2>4. QED
    BY <2>1, <2>3 DEF Quiet
<1>8. QED
  BY <1>1, <1>2, <1>3, <1>4, <1>5, <1>6, <1>7

LEMMA QuietKeepsFlow ==
    ASSUME TypeOK, TypeOK', ConnInv, FlowInv, Quiet
    PROVE  FlowInv'
<1>1. /\ UNCHANGED <<forward, sent, inbox>> /\ pending'[Hub] = pending[Hub]
      /\ Hub \in stuck' <=> Hub \in stuck
      /\ \A c \in Clients : QuietOf(c)
  BY DEF Quiet
<1>2. \A p \in Processes : pending'[p] \subseteq pending[p]
  BY <1>1 DEF QuietOf, Processes
<1>3. PendInv' /\ SelfInv' /\ HubInv'
  <2>1. PendInv'
    BY <1>1, <1>2 DEF FlowInv, PendInv
  <2>2. SelfInv' /\ HubInv'
    BY <1>1 DEF FlowInv, SelfInv, HubInv, Has
  <2>3. QED
    BY <2>1, <2>2
<1>4. ASSUME NEW c \in Clients PROVE \E h \in Nat : UpOf(c, h)'
  <2>1. PICK h \in Nat : UpOf(c, h)
    BY DEF FlowInv, UpInv
  <2>2. \A x : Has(Hub, x)' <=> Has(Hub, x)
    BY <1>1 DEF Has
  <2>3. /\ sent[c] \in Nat /\ sent'[c] = sent[c] /\ \A f \in forward' : f \in forward
        /\ Shortened(wire'[ServerEnd(c)], wire[ServerEnd(c)])
    BY <1>1, HubIsNoClient DEF TypeOK, QuietOf
  <2>4. CASE Both(c)' /\ sent[c] = 0 /\ pending[c] = {} /\ wire'[ServerEnd(c)] = <<>>
    <3>1. pending'[c] = {} /\ Done(c)' = 0 /\ h = 0
      BY <1>1, <2>1, <2>3, <2>4 DEF QuietOf, Done, UpOf
    <3>2. Len(<<>>) = 0 /\ DOMAIN <<>> = {}
      OBVIOUS
    <3>3. /\ \A n \in Nat : Has(Hub, E(c, n))' <=> n \in 1..0
          /\ \A f \in forward' : f[2] = c => f[1] = E(c, 0)
      BY <2>1, <2>2, <2>3, <3>1 DEF UpOf
    <3>4. UpOf(c, 0)'
      BY <2>3, <2>4, <3>1, <3>2, <3>3 DEF UpOf
    <3>5. QED
      BY <3>4
  <2>5. CASE ~(Both(c)' /\ sent[c] = 0 /\ pending[c] = {} /\ wire'[ServerEnd(c)] = <<>>)
    <3>1. Both(c)' => /\ Both(c) /\ pending'[c] = pending[c]
                      /\ Begins(wire'[ServerEnd(c)], wire[ServerEnd(c)])
                      /\ ClientEnd(c) \in listed' \ stopping' =>
                            /\ ClientEnd(c) \in listed \ stopping
                            /\ wire'[ServerEnd(c)] = wire[ServerEnd(c)]
      BY <1>1, <2>5 DEF QuietOf
    <3>2. Done(c) <= Done(c)' /\ (Both(c)' => Done(c)' = Done(c))
      <4>1. pending'[c] \in {pending[c], {}}
        BY <1>1 DEF QuietOf
      <4>2. QED
        BY <2>3, <3>1, <4>1 DEF Done
    <3>3. UpOf(c, h)'
      BY <2>1, <2>2, <2>3, <3>1, <3>2, UpStays
    <3>4. QED
      BY <3>3
  <2>6. QED
    BY <2>4, <2>5
<1>5. ASSUME NEW c \in Clients PROVE DownOf(c)'
  <2>1. DownOf(c) /\ QuietOf(c)
    BY <1>1 DEF FlowInv, DownInv
  <2>2. /\ \A x : Has(c, x)' <=> Has(c, x)
        /\ \A x : Told(x)' <=> Told(x)
        /\ \A x : Telling(x)' <=> Telling(x)
    BY <1>1 DEF Has, Told, Telling
  <2>3. QED
    BY <2>1, <2>2, DownStays DEF QuietOf
<1>6. UpInv' /\ DownInv'
  BY <1>4, <1>5 DEF UpInv, DownInv
<1>7. QED
  BY <1>3, <1>6 DEF FlowInv

-----------------------------------------------------------------------------
(* Steps that move events *)

\* What others send leaves a client's own wire to the hub alone.
LEMMA UpUnsent ==
    ASSUME TypeOK, TypeOK', ConnInv, NEW event \in Event, NEW T \in SUBSET Ends, Send(event, T),
           UNCHANGED <<open, stopping, sent, inbox>>, forward' \subseteq forward,
           NEW c \in Clients, ClientEnd(c) \notin T, pending'[c] = pending[c],
           NEW h \in Nat, UpOf(c, h)
    PROVE  UpOf(c, h)'
<1>1. /\ listed' \subseteq listed
      /\ \A e \in Ends :
            IF e \in open /\ Peer(e) \in Writing(T)
            THEN wire'[e] = Append(wire[e], event)
            ELSE \/ wire'[e] = wire[e]
                 \/ wire'[e] = <<Reset>> /\ e \in open /\ Peer(e) \notin open
  BY SendEffect
<1>2. \/ wire'[ServerEnd(c)] = wire[ServerEnd(c)]
      \/ wire'[ServerEnd(c)] = <<Reset>> /\ ClientEnd(c) \notin open
  BY <1>1, EndsAre DEF Writing
<1>3. wire[ServerEnd(c)] \in Seq(What)
  BY EndsAre DEF TypeOK, What
<1>4. /\ Shortened(wire'[ServerEnd(c)], wire[ServerEnd(c)])
      /\ Both(c)' => Both(c) /\ wire'[ServerEnd(c)] = wire[ServerEnd(c)]
  BY <1>2, <1>3, ShortenedBy DEF Both
<1>5. \A x : Has(Hub, x)' <=> Has(Hub, x)
  BY DEF Has
<1>6. sent[c] \in Nat /\ sent'[c] = sent[c] /\ Done(c)' = Done(c) /\ Done(c) \in Int
  BY HubIsNoClient DEF TypeOK, Done
<1>7. QED
  BY <1>1, <1>4, <1>5, <1>6, UpStays DEF Begins

LEMMA PublishToSinksKeepsFlow ==
    ASSUME TypeOK, TypeOK', ConnInv, FlowInv, NEW p \in Processes, PublishToSinks(p)
    PROVE  FlowInv'
<1>1. PICK m \in Nat : m = sent[p]
  BY DEF TypeOK
<1> DEFINE event == E(p, m + 1)
<1>2. /\ pending[p] = {} /\ m < MaxSent[p]
      /\ pending' = [pending EXCEPT ![p] = {event}]
      /\ inbox' = [inbox EXCEPT ![p] = Append(inbox[p], event)]
      /\ sent' = [sent EXCEPT ![p] = m + 1]
      /\ UNCHANGED <<bus, accepted, listed, open, stopping, wire, forward, stuck>>
  BY <1>1 DEF PublishToSinks, E
<1>3. event \in Event /\ event.from = p /\ event.n = m + 1
  BY <1>1, <1>2, EventIs, MaxSentAssumption
<1> HIDE DEF event
<1>4. /\ \A x : Has(p, x)' <=> Has(p, x) \/ x = event
      /\ \A q \in Processes \ {p} : \A x : Has(q, x)' <=> Has(q, x)
  BY <1>2, <1>3, HasAppended
<1>5. /\ pending'[p] = {event} /\ sent'[p] = m + 1
      /\ \A q \in Processes \ {p} : pending'[q] = pending[q] /\ sent'[q] = sent[q]
  BY <1>2 DEF TypeOK
<1>6. ~Has(p, event) /\ \A n \in Nat : Has(p, E(p, n)) => n <= m
  <2>1. \A n \in Nat : Has(p, E(p, n)) <=> n \in 1..m
    BY <1>1 DEF FlowInv, SelfInv
  <2>2. QED
    BY <2>1 DEF event
<1>7. PendInv'
  <2>1. \A q \in Processes : pending'[q] \subseteq {E(q, sent'[q])}
    BY <1>5 DEF FlowInv, PendInv, event
  <2>2. QED
    BY <1>2, <2>1 DEF FlowInv, PendInv
<1>8. SelfInv'
  <2>1. ASSUME NEW q \in Processes, NEW n \in Nat PROVE Has(q, E(q, n))' <=> n \in 1..sent'[q]
    <3>1. Has(q, E(q, n)) <=> n \in 1..sent[q]
      BY DEF FlowInv, SelfInv
    <3>2. CASE q = p
      <4>1. E(q, n) = event <=> n = m + 1
        BY <3>2, EventIs DEF event
      <4>2. QED
        BY <1>1, <1>4, <1>5, <3>1, <3>2, <4>1
    <3>3. CASE q # p
      BY <1>4, <1>5, <3>1, <3>3
    <3>4. QED
      BY <3>2, <3>3
  <2>2. QED
    BY <2>1 DEF SelfInv
<1>9. HubInv'
  <2>1. CASE p # Hub
    <3>1. inbox'[Hub] = inbox[Hub]
      BY <1>2, <2>1, HubIsNoClient DEF TypeOK
    <3>2. QED
      BY <3>1 DEF FlowInv, HubInv
  <2>2. CASE p = Hub
    <3>1. ASSUME NEW d \in Event, d.from = event.from, Has(Hub, d) PROVE d.n < event.n
      <4>1. d = E(p, d.n) /\ d.n \in Nat
        BY <1>3, <3>1, EventIs
      <4>2. d.n <= m
        BY <1>6, <2>2, <3>1, <4>1
      <4>3. QED
        BY <1>3, <4>1, <4>2
    <3>2. inbox' = [inbox EXCEPT ![Hub] = Append(inbox[Hub], event)]
      BY <1>2, <2>2
    <3>3. QED
      BY <1>3, <3>1, <3>2, HubOrderGrows DEF FlowInv
  <2>3. QED
    BY <2>1, <2>2
<1>10. ASSUME NEW c \in Clients PROVE \E h \in Nat : UpOf(c, h)'
  <2>1. PICK h \in Nat : UpOf(c, h)
    BY DEF FlowInv, UpInv
  <2>2. \A n \in Nat : Has(Hub, E(c, n))' <=> Has(Hub, E(c, n))
    <3>1. CASE p = Hub
      <4>1. \A n \in Nat : E(c, n) # event
        BY <3>1, HubIsNoClient, EventIs DEF event
      <4>2. QED
        BY <1>4, <3>1, <4>1
    <3>2. CASE p # Hub
      BY <1>4, <3>2, HubIsNoClient
    <3>3. QED
      BY <3>1, <3>2
  <2>3. sent[c] <= sent'[c] /\ Done(c)' = Done(c) /\ Done(c) <= Done(c)'
    <3>1. CASE c = p
      <4>1. pending[c] = {} /\ pending'[c] # {} /\ sent[c] = m /\ sent'[c] = m + 1
        BY <1>1, <1>2, <1>5, <3>1
      <4>2. Done(c) = m /\ Done(c)' = (m + 1) - 1
        BY <4>1 DEF Done
      <4>3. QED
        BY <1>1, <4>1, <4>2
    <3>2. CASE c # p
      BY <1>5, <3>2, HubIsNoClient DEF Done, TypeOK
    <3>3. QED
      BY <3>1, <3>2
  <2>4. wire[ServerEnd(c)] \in Seq(What)
    BY EndsAre DEF TypeOK, What
  <2>5. Both(c)' = Both(c)
    BY <1>2 DEF Both
  <2>6. UpOf(c, h)'
    BY <1>2, <2>1, <2>2, <2>3, <2>4, <2>5, ShortenedBy, UpStays DEF Begins
  <2>7. QED
    BY <2>6
<1>11. ASSUME NEW c \in Clients PROVE DownOf(c)'
  <2>1. DownOf(c)
    BY DEF FlowInv, DownInv
  <2>2. \A e \in Event : e.from # c => (Has(c, e)' <=> Has(c, e))
    BY <1>3, <1>4, HubIsNoClient
  <2>3. \A e \in Event : (Told(e)' <=> Told(e)) /\ (Telling(e) => Telling(e)')
    <3>1. CASE p = Hub
      <4>1. Hub \notin stuck
        BY <1>2, <3>1 DEF ConnInv, StuckInv
      <4>2. QED
        BY <1>2, <1>4, <1>5, <1>6, <3>1, <4>1 DEF Told, Telling
    <3>2. CASE p # Hub
      BY <1>2, <1>4, <1>5, <3>2, HubIsNoClient DEF Told, Telling
    <3>3. QED
      BY <3>1, <3>2
  <2>4. wire[ClientEnd(c)] \in Seq(What)
    BY EndsAre DEF TypeOK, What
  <2>5. New(c)' = New(c)
    BY <1>2 DEF New
  <2>6. QED
    BY <1>2, <2>1, <2>2, <2>3, <2>4, <2>5, ShortenedBy, DownStays
<1>12. UpInv' /\ DownInv'
  BY <1>10, <1>11 DEF UpInv, DownInv
<1>13. QED
  BY <1>7, <1>8, <1>9, <1>12 DEF FlowInv

\* Sending does not change what has been published and seen.
LEMMA SendingKeepsRest ==
    ASSUME TypeOK, PendInv, SelfInv, HubInv, UNCHANGED <<sent, inbox>>, forward' \subseteq forward,
           \A p \in Processes : pending'[p] \subseteq pending[p]
    PROVE  PendInv' /\ SelfInv' /\ HubInv'
<1>1. PendInv'
  BY DEF PendInv
<1>2. SelfInv' /\ HubInv'
  BY DEF SelfInv, HubInv, Has
<1>3. QED
  BY <1>1, <1>2

LEMMA ClientPublishesKeepsFlow ==
    ASSUME TypeOK, TypeOK', ConnInv, FlowInv, NEW p \in Clients, PublishToConnections(p)
    PROVE  FlowInv'
<1>1. PICK event \in pending[p] : Send(event, EndsOf(p))
  BY DEF PublishToConnections
<1>2. event \in Event /\ EndsOf(p) = {ClientEnd(p)} /\ EndsOf(p) \in SUBSET Ends
  BY SendsAreTyped, HubIsNoClient, EndsOfAre, EndsAre
<1>3. /\ UNCHANGED <<bus, accepted, open, stopping, forward, stuck, sent, inbox>>
      /\ \A q \in Processes \ {p} : pending'[q] = pending[q]
      /\ \A q \in Processes : pending'[q] \subseteq pending[q]
  BY HubIsNoClient DEF PublishToConnections, TypeOK
<1>4. PendInv' /\ SelfInv' /\ HubInv'
  BY <1>3, SendingKeepsRest DEF FlowInv
<1>5. ASSUME NEW c \in Clients PROVE \E h \in Nat : UpOf(c, h)'
  <2>1. PICK h \in Nat : UpOf(c, h)
    BY DEF FlowInv, UpInv
  <2>2. CASE c = p
    <3>1. UpOf(c, h)'
      BY <2>1, <2>2, UpSends DEF FlowInv
    <3>2. QED
      BY <3>1
  <2>3. CASE c # p
    <3>1. ClientEnd(c) \notin EndsOf(p) /\ pending'[c] = pending[c]
      BY <1>2, <1>3, <2>3, EndsAre, HubIsNoClient
    <3>2. UpOf(c, h)'
      BY <1>1, <1>2, <1>3, <2>1, <3>1, UpUnsent
    <3>3. QED
      BY <3>2
  <2>4. QED
    BY <2>2, <2>3
<1>6. ASSUME NEW c \in Clients PROVE DownOf(c)'
  <2>1. DownOf(c)
    BY DEF FlowInv, DownInv
  <2>2. /\ listed' \subseteq listed
        /\ \A e \in Ends :
              IF e \in open /\ Peer(e) \in Writing(EndsOf(p))
              THEN wire'[e] = Append(wire[e], event)
              ELSE \/ wire'[e] = wire[e]
                   \/ wire'[e] = <<Reset>> /\ e \in open /\ Peer(e) \notin open
    BY <1>1, <1>2, SendEffect
  <2>3. ClientEnd(c) \in Ends /\ Peer(ClientEnd(c)) = ServerEnd(c) /\ ServerEnd(c) \notin EndsOf(p)
    BY <1>2, EndsAre
  <2>4. \/ wire'[ClientEnd(c)] = wire[ClientEnd(c)]
        \/ wire'[ClientEnd(c)] = <<Reset>> /\ ServerEnd(c) \notin open
    BY <2>2, <2>3 DEF Writing
  <2>5. wire[ClientEnd(c)] \in Seq(What)
    BY <2>3 DEF TypeOK, What
  <2>6. /\ Shortened(wire'[ClientEnd(c)], wire[ClientEnd(c)])
        /\ ServerEnd(c) \in listed' \ stopping' =>
              /\ ServerEnd(c) \in listed \ stopping
              /\ wire'[ClientEnd(c)] = wire[ClientEnd(c)]
    BY <1>3, <2>2, <2>4, <2>5, ShortenedBy DEF ConnInv
  <2>7. /\ \A x : Has(c, x)' <=> Has(c, x)
        /\ \A x : (Told(x)' <=> Told(x)) /\ (Telling(x)' <=> Telling(x))
        /\ New(c)' <=> New(c)
    BY <1>3, HubIsNoClient DEF Has, Told, Telling, New
  <2>8. QED
    BY <1>3, <2>1, <2>6, <2>7, DownStays
<1>7. UpInv' /\ DownInv'
  BY <1>5, <1>6 DEF UpInv, DownInv
<1>8. QED
  BY <1>4, <1>7 DEF FlowInv

\* The event the hub has given to its own sinks only
LEMMA HubsLatest ==
    ASSUME TypeOK, FlowInv, NEW event \in pending[Hub]
    PROVE  /\ event \in Event /\ event.from = Hub /\ pending[Hub] = {event}
           /\ Has(Hub, event) /\ \A f \in forward : f[1] # event
           /\ \A e \in Event : e.from = Hub => /\ Has(Hub, e) => e.n <= event.n
                                               /\ e.n < event.n => Told(e)
<1>1. PICK m \in Nat : m = sent[Hub]
  BY HubIsNoClient DEF TypeOK
<1>2. event \in Event /\ event = E(Hub, m) /\ pending[Hub] = {event} /\ m >= 1
  <2>1. event \in Event /\ pending[Hub] \subseteq {E(Hub, m)}
    BY <1>1, SendsAreTyped, HubIsNoClient DEF FlowInv, PendInv, TypeOK
  <2>2. event = E(Hub, m)
    BY <2>1
  <2>3. QED
    BY <2>1, <2>2, EventIs
<1>3. event.from = Hub /\ event.n = m
  BY <1>2, EventIs
<1>4. \A f \in forward : f[1].from # Hub
  BY HubIsNoClient DEF FlowInv, PendInv, TypeOK
<1>5. Has(Hub, event)
  <2>1. m \in 1..sent[Hub]
    BY <1>1, <1>2
  <2>2. QED
    BY <1>2, <2>1, HubIsNoClient DEF FlowInv, SelfInv
<1>6. ASSUME NEW e \in Event, e.from = Hub
      PROVE  (Has(Hub, e) => e.n <= event.n) /\ (e.n < event.n => Told(e))
  <2>1. e = E(Hub, e.n) /\ e.n \in Nat /\ e.n >= 1
    BY <1>6, EventIs
  <2>2. Has(Hub, e) <=> e.n \in 1..m
    BY <1>1, <2>1, HubIsNoClient DEF FlowInv, SelfInv
  <2>3. Has(Hub, e) => e.n <= event.n
    BY <1>3, <2>1, <2>2
  <2>4. ASSUME e.n < event.n PROVE Told(e)
    <3>1. e # event
      BY <2>1, <2>4, <1>3
    <3>2. Has(Hub, e)
      BY <1>3, <2>1, <2>2, <2>4
    <3>3. QED
      BY <1>2, <1>4, <1>6, <3>1, <3>2 DEF Told
  <2>5. QED
    BY <2>3, <2>4
<1>7. QED
  BY <1>2, <1>3, <1>4, <1>5, <1>6

LEMMA HubPublishesKeepsFlow ==
    ASSUME TypeOK, TypeOK', ConnInv, FlowInv, PublishToConnections(Hub)
    PROVE  FlowInv'
<1>1. PICK event \in pending[Hub] : Send(event, EndsOf(Hub))
  BY DEF PublishToConnections
<1>2. /\ event \in Event /\ event.from = Hub /\ pending[Hub] = {event}
      /\ Has(Hub, event) /\ \A f \in forward : f[1] # event
      /\ \A e \in Event : e.from = Hub => /\ Has(Hub, e) => e.n <= event.n
                                          /\ e.n < event.n => Told(e)
  BY HubsLatest
<1>3. /\ EndsOf(Hub) = {ServerEnd(c) : c \in Clients} /\ EndsOf(Hub) \in SUBSET Ends
  BY EndsOfAre, EndsAre
<1>4. /\ UNCHANGED <<bus, accepted, open, stopping, forward, stuck, sent, inbox>>
      /\ pending'[Hub] = {} /\ Hub \notin stuck
      /\ \A c \in Clients : pending'[c] = pending[c]
      /\ \A q \in Processes : pending'[q] \subseteq pending[q]
  BY HubIsNoClient DEF PublishToConnections, TypeOK
<1>5. PendInv' /\ SelfInv' /\ HubInv'
  BY <1>4, SendingKeepsRest DEF FlowInv
<1>6. ASSUME NEW c \in Clients PROVE \E h \in Nat : UpOf(c, h)'
  <2>1. PICK h \in Nat : UpOf(c, h)
    BY DEF FlowInv, UpInv
  <2>2. ClientEnd(c) \notin EndsOf(Hub)
    BY <1>3, EndsAre
  <2>3. UpOf(c, h)'
    BY <1>1, <1>2, <1>3, <1>4, <2>1, <2>2, UpUnsent
  <2>4. QED
    BY <2>3
<1>7. ~Told(event) /\ \A e \in Event : Told(e)' <=> Told(e) \/ e = event
  <2>1. \A x : Has(Hub, x)' <=> Has(Hub, x)
    BY <1>4 DEF Has
  <2>2. QED
    BY <1>2, <1>4, <2>1 DEF Told
<1>8. ASSUME NEW c \in Clients PROVE DownOf(c)'
  <2>1. DownOf(c)
    BY DEF FlowInv, DownInv
  <2>2. ServerEnd(c) \in EndsOf(Hub) /\ event.from # c
    BY <1>2, <1>3, HubIsNoClient
  <2>3. /\ \A e \in Event : e.from = event.from /\ Has(Hub, e) => e.n <= event.n
        /\ \A e \in Event : e.from = event.from /\ e.n < event.n => Told(e)
    BY <1>2
  <2>4. UNCHANGED <<bus, accepted, open, stopping, inbox>>
    BY <1>4
  <2>5. QED
    BY ONLY TypeOK, TypeOK', ConnInv, <1>1, <1>2, <1>3, <1>4, <1>7,
            <2>1, <2>2, <2>3, <2>4, DownSends
<1>9. UpInv' /\ DownInv'
  BY <1>6, <1>8 DEF UpInv, DownInv
<1>10. QED
  BY <1>5, <1>9 DEF FlowInv

LEMMA HubForwardsKeepsFlow ==
    ASSUME TypeOK, TypeOK', ConnInv, FlowInv, HubForwards
    PROVE  FlowInv'
<1>1. PICK f \in forward : Send(f[1], EndsOf(Hub) \ {ServerEnd(f[2])})
  BY DEF HubForwards
<1>2. PICK event \in Event, d \in Clients : event = f[1] /\ d = f[2]
  BY SendsAreTyped
<1> DEFINE T == EndsOf(Hub) \ {ServerEnd(d)}
<1>3. Send(event, T) /\ forward = {f} /\ event.from = d
  BY <1>1, <1>2 DEF FlowInv, PendInv
<1>4. PICK h \in Nat : UpOf(d, h)
  BY DEF FlowInv, UpInv
<1>5. event = E(d, h) /\ event.n = h /\ h >= 1
  <2>1. event = E(d, h)
    BY <1>1, <1>2, <1>4 DEF UpOf
  <2>2. QED
    BY <2>1, EventIs
<1>6. T \in SUBSET Ends /\ \A c \in Clients : ClientEnd(c) \notin T /\ (ServerEnd(c) \in T <=> d # c)
  BY EndsOfAre, EndsAre
<1>7. /\ UNCHANGED <<bus, accepted, open, stopping, pending, stuck, sent, inbox>> /\ forward' = {}
      /\ Hub \notin stuck
  BY DEF HubForwards, ConnInv, StuckInv
<1>8. PendInv' /\ SelfInv' /\ HubInv'
  BY <1>7, SendingKeepsRest DEF FlowInv
<1> HIDE DEF T
<1>9. ASSUME NEW c \in Clients PROVE \E k \in Nat : UpOf(c, k)'
  <2>1. PICK k \in Nat : UpOf(c, k)
    BY DEF FlowInv, UpInv
  <2>2. UpOf(c, k)'
    BY <1>3, <1>6, <1>7, <2>1, UpUnsent
  <2>3. QED
    BY <2>2
<1>10. pending[Hub] \subseteq {E(Hub, sent[Hub])} /\ d # Hub
  BY HubIsNoClient DEF FlowInv, PendInv
<1>11. \A e \in Event : e.from = d => e \notin pending[Hub]
  BY <1>10, EventIs
<1>12. ASSUME NEW e \in Event, e.from = event.from
       PROVE  /\ Has(Hub, e) => e.n <= event.n
              /\ e.n < event.n => Told(e)
  <2>1. e = E(d, e.n) /\ e.n \in Nat /\ e.n >= 1
    BY <1>3, <1>12, EventIs
  <2>2. Has(Hub, e) <=> e.n \in 1..h
    BY <1>4, <2>1 DEF UpOf
  <2>3. Has(Hub, e) => e.n <= event.n
    BY <1>5, <2>1, <2>2
  <2>4. ASSUME e.n < event.n PROVE Told(e)
    <3>1. e # event
      BY <2>1, <2>4
    <3>2. Has(Hub, e)
      BY <1>5, <2>1, <2>2, <2>4
    <3>3. QED
      BY <1>2, <1>3, <1>11, <1>12, <3>1, <3>2 DEF Told
  <2>5. QED
    BY <2>3, <2>4
<1>13. ~Told(event) /\ \A e \in Event : Told(e)' <=> Told(e) \/ e = event
  <2>1. Has(Hub, event)
    <3>1. h \in 1..h
      BY <1>5
    <3>2. QED
      BY <1>4, <1>5, <3>1 DEF UpOf
  <2>2. \A x : Has(Hub, x)' <=> Has(Hub, x)
    BY <1>7 DEF Has
  <2>3. QED
    BY <1>1, <1>2, <1>3, <1>7, <1>11, <2>1, <2>2 DEF Told
<1>14. ASSUME NEW c \in Clients PROVE DownOf(c)'
  <2>1. DownOf(c)
    BY DEF FlowInv, DownInv
  <2>2. ServerEnd(c) \in T <=> event.from # c
    BY <1>3, <1>6
  <2>3. QED
    BY <1>3, <1>6, <1>7, <1>12, <1>13, <2>1, <2>2, DownSends
<1>15. UpInv' /\ DownInv'
  BY <1>9, <1>14 DEF UpInv, DownInv
<1>16. QED
  BY <1>8, <1>15 DEF FlowInv

\* What a client is about to receive
LEMMA NextDown ==
    ASSUME TypeOK, NEW c \in Clients, NEW event \in Event, ClientReceives(c, event), DownOf(c)
    PROVE  event.from # c /\ Follows(c, 1, event) /\ At(c, event)
<1> DEFINE w == wire[ClientEnd(c)]
<1>1. w # <<>> /\ w \in Seq(What) /\ Head(w) = event
  BY EndsAre DEF ClientReceives, Reads, TypeOK, What
<1>2. 1 \in DOMAIN w /\ w[1] = event
  BY <1>1
<1>3. event.from # c /\ Follows(c, 1, event)
  BY <1>2 DEF DownOf, OrderOf
<1>4. At(c, event)
  BY <1>2 DEF At, OnWire
<1>5. QED
  BY <1>3, <1>4

LEMMA ClientReceivesKeepsFlow ==
    ASSUME TypeOK, TypeOK', ConnInv, FlowInv,
           NEW p \in Clients, NEW event \in Event, ClientReceives(p, event)
    PROVE  FlowInv'
<1>1. /\ UNCHANGED <<bus, accepted, listed, open, stopping, pending, forward, stuck, sent>>
      /\ inbox' = [inbox EXCEPT ![p] = Append(inbox[p], event)]
      /\ \A e \in Ends \ {ClientEnd(p)} : wire'[e] = wire[e]
  BY DEF ClientReceives, TypeOK
<1>2. p \in Processes /\ p # Hub
  BY HubIsNoClient
<1>3. /\ \A x : Has(p, x)' <=> Has(p, x) \/ x = event
      /\ \A q \in Processes \ {p} : \A x : Has(q, x)' <=> Has(q, x)
  BY <1>1, <1>2, HasAppended
<1>4. inbox'[Hub] = inbox[Hub] /\ \A x : Has(Hub, x)' <=> Has(Hub, x)
  BY <1>1, <1>2, <1>3, HubIsNoClient DEF TypeOK
<1>5. PendInv' /\ HubInv'
  <2>1. PendInv'
    BY <1>1 DEF FlowInv, PendInv
  <2>2. HubInv'
    BY <1>4 DEF FlowInv, HubInv
  <2>3. QED
    BY <2>1, <2>2
<1>6. event.from # p
  BY NextDown DEF FlowInv, DownInv
<1>7. SelfInv'
  <2>1. ASSUME NEW q \in Processes, NEW n \in Nat PROVE Has(q, E(q, n))' <=> n \in 1..sent'[q]
    <3>1. Has(q, E(q, n)) <=> n \in 1..sent'[q]
      BY <1>1 DEF FlowInv, SelfInv
    <3>2. q = p => E(q, n) # event
      BY <1>6, EventIs
    <3>3. QED
      BY <1>3, <3>1, <3>2
  <2>2. QED
    BY <2>1 DEF SelfInv
<1>8. ASSUME NEW c \in Clients PROVE \E h \in Nat : UpOf(c, h)'
  <2>1. PICK h \in Nat : UpOf(c, h)
    BY DEF FlowInv, UpInv
  <2>2. wire'[ServerEnd(c)] = wire[ServerEnd(c)] /\ wire[ServerEnd(c)] \in Seq(What)
    BY <1>1, EndsAre DEF TypeOK, What
  <2>3. sent[c] \in Nat /\ sent'[c] = sent[c] /\ Done(c)' = Done(c) /\ Done(c) \in Int
        /\ Both(c)' = Both(c)
    BY <1>1, HubIsNoClient DEF TypeOK, Done, Both
  <2>4. UpOf(c, h)'
    BY <1>1, <1>4, <2>1, <2>2, <2>3, ShortenedBy, UpStays DEF Begins
  <2>5. QED
    BY <2>4
<1>9. ASSUME NEW c \in Clients PROVE DownOf(c)'
  <2>1. DownOf(c)
    BY DEF FlowInv, DownInv
  <2>2. CASE c = p
    BY <2>1, <2>2, DownReceives
  <2>3. CASE c # p
    <3>1. wire'[ClientEnd(c)] = wire[ClientEnd(c)] /\ wire[ClientEnd(c)] \in Seq(What)
      BY <1>1, <2>3, EndsAre DEF TypeOK, What
    <3>2. /\ \A x : Has(c, x)' <=> Has(c, x)
          /\ \A x : (Told(x)' <=> Told(x)) /\ (Telling(x)' <=> Telling(x))
          /\ New(c)' = New(c)
      BY <1>1, <1>3, <1>4, <2>3, HubIsNoClient DEF Told, Telling, New
    <3>3. QED
      BY <1>1, <2>1, <3>1, <3>2, ShortenedBy, DownStays
  <2>4. QED
    BY <2>2, <2>3
<1>10. UpInv' /\ DownInv'
  BY <1>8, <1>9 DEF UpInv, DownInv
<1>11. QED
  BY <1>5, <1>7, <1>10 DEF FlowInv

LEMMA HubReceivesKeepsFlow ==
    ASSUME TypeOK, TypeOK', ConnInv, FlowInv,
           NEW p \in Clients, NEW event \in Event, HubReceives(p, event)
    PROVE  FlowInv'
<1>1. PICK g \in Nat : UpOf(p, g)
  BY DEF FlowInv, UpInv
<1>2. event = E(p, g + 1) /\ event.from = p /\ event.n = g + 1 /\ ~Has(Hub, event)
  BY <1>1, NextUp, EventIs
<1>3. /\ UNCHANGED <<bus, accepted, listed, open, stopping, pending, stuck, sent>>
      /\ inbox' = [inbox EXCEPT ![Hub] = Append(inbox[Hub], event)]
      /\ forward' = {<<event, p>>} /\ forward = {}
      /\ \A e \in Ends \ {ServerEnd(p)} : wire'[e] = wire[e]
  <2>1. ProcessOf(ServerEnd(p)) = Hub
    BY ProcessOfIs
  <2>2. forward = {}
    BY <2>1 DEF HubReceives, Reads
  <2>3. QED
    BY <2>2 DEF HubReceives, TypeOK
<1>4. /\ \A x : Has(Hub, x)' <=> Has(Hub, x) \/ x = event
      /\ \A q \in Clients : \A x : Has(q, x)' <=> Has(q, x)
  BY <1>3, HasAppended, HubIsNoClient
<1>5. PendInv'
  BY <1>2, <1>3 DEF FlowInv, PendInv
<1>6. SelfInv'
  <2>1. ASSUME NEW q \in Processes, NEW n \in Nat PROVE Has(q, E(q, n))' <=> n \in 1..sent'[q]
    <3>1. Has(q, E(q, n)) <=> n \in 1..sent'[q]
      BY <1>3 DEF FlowInv, SelfInv
    <3>2. q = Hub => E(q, n) # event
      BY <1>2, EventIs, HubIsNoClient
    <3>3. QED
      BY <1>4, <3>1, <3>2 DEF Processes
  <2>2. QED
    BY <2>1 DEF SelfInv
<1>7. HubInv'
  <2>1. ASSUME NEW d \in Event, d.from = event.from, Has(Hub, d) PROVE d.n < event.n
    <3>1. d = E(p, d.n) /\ d.n \in Nat
      BY <1>2, <2>1, EventIs
    <3>2. d.n \in 1..g
      BY <1>1, <2>1, <3>1 DEF UpOf
    <3>3. QED
      BY <1>2, <3>1, <3>2
  <2>2. QED
    BY <1>3, <2>1, HubOrderGrows DEF FlowInv
<1>8. ASSUME NEW c \in Clients PROVE \E h \in Nat : UpOf(c, h)'
  <2>1. CASE c = p
    <3>1. UpOf(c, g + 1)' /\ g + 1 \in Nat
      BY <1>1, <2>1, UpReceives DEF FlowInv
    <3>2. QED
      BY <3>1
  <2>2. CASE c # p
    <3>1. PICK h \in Nat : UpOf(c, h)
      BY DEF FlowInv, UpInv
    <3>2. wire'[ServerEnd(c)] = wire[ServerEnd(c)] /\ wire[ServerEnd(c)] \in Seq(What)
      BY <1>3, <2>2, EndsAre DEF TypeOK, What
    <3>3. sent[c] \in Nat /\ sent'[c] = sent[c] /\ Done(c)' = Done(c) /\ Done(c) \in Int
        /\ Both(c)' = Both(c)
      BY <1>3, HubIsNoClient DEF TypeOK, Done, Both
    <3>4. \A n \in Nat : E(c, n) # event
      BY <1>2, <2>2, EventIs
    <3>5. \A f \in forward' : f[2] # c
      BY <1>3, <2>2
    <3>6. UpOf(c, h)'
      BY <1>3, <1>4, <3>1, <3>2, <3>3, <3>4, <3>5, ShortenedBy, UpStays DEF Begins
    <3>7. QED
      BY <3>6
  <2>3. QED
    BY <2>1, <2>2
<1>9. ASSUME NEW c \in Clients PROVE DownOf(c)'
  <2>1. DownOf(c)
    BY DEF FlowInv, DownInv
  <2>2. wire'[ClientEnd(c)] = wire[ClientEnd(c)] /\ wire[ClientEnd(c)] \in Seq(What)
    BY <1>3, EndsAre DEF TypeOK, What
  <2>3. \A x : (Told(x)' <=> Told(x)) /\ (Telling(x)' <=> Telling(x))
    <3>1. <<event, p>>[1] = event
      OBVIOUS
    <3>2. QED
      BY <1>2, <1>3, <1>4, <3>1 DEF Told, Telling
  <2>4. New(c)' = New(c)
    BY <1>3 DEF New
  <2>5. QED
    BY <1>3, <1>4, <2>1, <2>2, <2>3, <2>4, ShortenedBy, DownStays
<1>10. UpInv' /\ DownInv'
  BY <1>8, <1>9 DEF UpInv, DownInv
<1>11. QED
  BY <1>5, <1>6, <1>7, <1>10 DEF FlowInv

\* A process that gets stuck has sent its event to some connections, and
\* shuts another one down.
LEMMA GetStuckKeepsFlow ==
    ASSUME TypeOK, TypeOK', ConnInv, FlowInv, NEW e \in Ends, GetStuck(e)
    PROVE  FlowInv'
<1> DEFINE p == ProcessOf(e)
<1>1. /\ e \in open /\ p \notin stuck /\ p \in Processes /\ e \in EndsOf(p)
      /\ p = Hub => forward = {}
      /\ stopping' = stopping \cup {e} /\ stuck' = stuck \cup {p}
      /\ UNCHANGED <<bus, accepted, listed, open, pending, forward, sent, inbox>>
  BY ProcessOfIs DEF GetStuck, Reads
<1>2. PICK event \in pending[p], T \in SUBSET (EndsOf(p) \ {e}) :
         /\ wire'[Peer(e)] \in {wire[Peer(e)], Append(wire[Peer(e)], Eof)}
         /\ \A d \in Ends \ {Peer(e)} :
               IF d \in open /\ Peer(d) \in Writing(T)
               THEN wire'[d] = Append(wire[d], event)
               ELSE \/ wire'[d] = wire[d]
                    \/ wire'[d] = <<Reset>> /\ d \in open /\ Peer(d) \notin open
  BY StuckEffect
<1>3. /\ \A c \in Clients : ClientEnd(c) \in EndsOf(p) => e = ClientEnd(c)
      /\ \A c \in Clients : ServerEnd(c) \in EndsOf(p) => p = Hub
  BY <1>1, EndsAre, EndsOfAre, ProcessOfIs DEF Processes
<1> HIDE DEF p
<1>4. PendInv' /\ SelfInv' /\ HubInv'
  BY <1>1, SendingKeepsRest DEF FlowInv
<1>5. ASSUME NEW c \in Clients PROVE \E h \in Nat : UpOf(c, h)'
  <2>1. PICK h \in Nat : UpOf(c, h)
    BY DEF FlowInv, UpInv
  <2>2. /\ ServerEnd(c) \in Ends /\ Peer(ServerEnd(c)) = ClientEnd(c)
        /\ wire[ServerEnd(c)] \in Seq(What)
    BY EndsAre DEF TypeOK, What
  <2>3. CASE e = ClientEnd(c)
    <3>1. wire'[ServerEnd(c)] \in {wire[ServerEnd(c)], Append(wire[ServerEnd(c)], Eof)}
      BY <1>2, <2>3, EndsAre
    <3>2. /\ Shortened(wire'[ServerEnd(c)], wire[ServerEnd(c)])
          /\ Begins(wire'[ServerEnd(c)], wire[ServerEnd(c)])
      <4> DEFINE w == wire[ServerEnd(c)]
      <4> HIDE DEF w
      <4>1. w \in Seq(What) /\ wire'[ServerEnd(c)] \in {w, Append(w, Eof)}
        BY <2>2, <3>1 DEF w
      <4>2. Begins(w, w) /\ Begins(Append(w, Eof), w)
        BY <4>1, EventIs DEF Begins, What
      <4>3. Shortened(w, w) /\ Shortened(Append(w, Eof), w)
        BY <4>1, ShortenedBy
      <4>4. QED
        BY <4>1, <4>2, <4>3 DEF w
    <3>3. ClientEnd(c) \in stopping'
      BY <1>1, <2>3
    <3>4. sent[c] \in Nat /\ sent'[c] = sent[c] /\ Done(c)' = Done(c) /\ Done(c) \in Int
          /\ Both(c)' = Both(c)
      BY <1>1, HubIsNoClient DEF TypeOK, Done, Both
    <3>5. UpOf(c, h)'
      BY <1>1, <2>1, <3>2, <3>3, <3>4, UpStays DEF Has
    <3>6. QED
      BY <3>5
  <2>4. CASE e # ClientEnd(c)
    <3>1. ServerEnd(c) # Peer(e) /\ ClientEnd(c) \notin Writing(T)
      BY <1>2, <1>3, <2>4, EndsAre DEF Writing
    <3>2. \/ wire'[ServerEnd(c)] = wire[ServerEnd(c)]
          \/ wire'[ServerEnd(c)] = <<Reset>> /\ ClientEnd(c) \notin open
      BY <1>2, <2>2, <3>1
    <3>3. /\ Shortened(wire'[ServerEnd(c)], wire[ServerEnd(c)])
          /\ Both(c)' => Both(c) /\ wire'[ServerEnd(c)] = wire[ServerEnd(c)]
      BY <1>1, <2>2, <3>2, ShortenedBy DEF Both
    <3>4. sent[c] \in Nat /\ sent'[c] = sent[c] /\ Done(c)' = Done(c) /\ Done(c) \in Int
      BY <1>1, HubIsNoClient DEF TypeOK, Done
    <3>5. UpOf(c, h)'
      BY <1>1, <2>1, <3>3, <3>4, UpStays DEF Has, Begins
    <3>6. QED
      BY <3>5
  <2>5. QED
    BY <2>3, <2>4
<1>6. ASSUME NEW c \in Clients PROVE DownOf(c)'
  <2>1. /\ DownOf(c) /\ Peer(ClientEnd(c)) = ServerEnd(c) /\ ClientEnd(c) \in Ends
        /\ wire[ClientEnd(c)] \in Seq(What)
    BY EndsAre DEF FlowInv, DownInv, TypeOK, What
  <2>2. /\ \A x : Has(c, x)' <=> Has(c, x)
        /\ \A x : Has(Hub, x)' <=> Has(Hub, x)
        /\ New(c)' <=> New(c)
    BY <1>1 DEF Has, New
  <2>3. /\ \A x : Told(x)' <=> Told(x)
        /\ \A x : Telling(x) => Telling(x)'
        /\ \A x : Told(x) => Telling(x)'
    BY <1>1, <2>2 DEF Told, Telling
  <2>4. CASE e = ServerEnd(c)
    <3>1. wire'[ClientEnd(c)] \in {wire[ClientEnd(c)], Append(wire[ClientEnd(c)], Eof)}
      BY <1>2, <2>4, EndsAre
    <3>2. Shortened(wire'[ClientEnd(c)], wire[ClientEnd(c)]) /\ ServerEnd(c) \in stopping'
      BY <1>1, <2>1, <2>4, <3>1, ShortenedBy
    <3>3. QED
      BY <2>1, <2>2, <2>3, <3>2, DownStays
  <2>5. CASE e # ServerEnd(c) /\ ~(ClientEnd(c) \in open /\ ServerEnd(c) \in Writing(T))
    <3>1. \/ wire'[ClientEnd(c)] = wire[ClientEnd(c)]
          \/ wire'[ClientEnd(c)] = <<Reset>> /\ ServerEnd(c) \notin open
      BY <1>2, <2>1, <2>5, EndsAre
    <3>2. /\ Shortened(wire'[ClientEnd(c)], wire[ClientEnd(c)])
          /\ ServerEnd(c) \in listed' \ stopping' =>
                /\ wire'[ClientEnd(c)] = wire[ClientEnd(c)]
                /\ ServerEnd(c) \in listed \ stopping
      BY <1>1, <2>1, <3>1, ShortenedBy DEF ConnInv
    <3>3. QED
      BY <1>1, <2>1, <2>2, <2>3, <3>2, DownStays
  <2>6. CASE e # ServerEnd(c) /\ ClientEnd(c) \in open /\ ServerEnd(c) \in Writing(T)
    <3>1. p = Hub /\ ServerEnd(c) \in listed \ stopping
      BY <1>2, <1>3, <2>6 DEF Writing
    <3>2. /\ event \in Event /\ event.from = Hub /\ pending[Hub] = {event} /\ Has(Hub, event)
          /\ \A d \in Event : d.from = Hub => /\ Has(Hub, d) => d.n <= event.n
                                              /\ d.n < event.n => Told(d)
      BY <1>2, <3>1, HubsLatest
    <3>3. wire'[ClientEnd(c)] = Append(wire[ClientEnd(c)], event)
      BY <1>2, <2>1, <2>6, EndsAre
    <3>4. ~New(c)'
      BY <2>2, <3>1 DEF ConnInv, ConnOf, New
    <3>5. ~Told(event) /\ Telling(event)'
      BY <1>1, <2>2, <3>1, <3>2 DEF Told, Telling
    <3>6. Hub \notin stuck /\ event.from # c
      BY <1>1, <3>1, <3>2, HubIsNoClient
    <3>7. QED
      BY <2>1, <2>2, <2>3, <2>6, <3>1, <3>2, <3>3, <3>4, <3>5, <3>6, DownAppends
  <2>7. QED
    BY <2>4, <2>5, <2>6
<1>7. UpInv' /\ DownInv'
  BY <1>5, <1>6 DEF UpInv, DownInv
<1>8. QED
  BY <1>4, <1>7 DEF FlowInv

-----------------------------------------------------------------------------
(* The invariant *)

LEMMA NetInit == Init => NetInv
<1> SUFFICES ASSUME Init PROVE NetInv
  OBVIOUS
<1>1. TypeOK
  BY TypeInit
<1>2. /\ \A c \in Clients : bus[c] = "new" /\ sent[c] = 0 /\ pending[c] = {}
      /\ accepted = {} /\ listed = {} /\ open = {} /\ stopping = {} /\ forward = {}
      /\ stuck = {}
      /\ \A e \in Ends : wire[e] = <<>>
      /\ \A p \in Processes : pending[p] = {} /\ sent[p] = 0 /\ inbox[p] = <<>>
  BY HubIsNoClient DEF Init
<1>3. ConnInv
  BY <1>2 DEF ConnInv, StuckInv, ConnOf, Both
<1>4. Len(<<>>) = 0 /\ DOMAIN <<>> = {}
  OBVIOUS
<1>5. \A p \in Processes : \A x : ~Has(p, x)
  BY <1>2, <1>4 DEF Has
<1>6. PendInv /\ SelfInv /\ HubInv
  BY <1>2, <1>4, <1>5, HubIsNoClient DEF PendInv, SelfInv, HubInv
<1>7. ASSUME NEW c \in Clients PROVE UpOf(c, 0)
  BY <1>2, <1>4, <1>5, HubIsNoClient, EndsAre DEF UpOf, Both, Done
<1>8. ASSUME NEW c \in Clients PROVE DownOf(c)
  <2>1. wire[ClientEnd(c)] = <<>> /\ \A x : ~At(c, x)
    BY <1>2, <1>4, <1>5, HubIsNoClient, EndsAre DEF At, OnWire
  <2>2. QED
    BY <1>2, <1>4, <2>1 DEF DownOf, OrderOf, ToldOf, GapFreeOf, FreshOf
<1>9. UpInv /\ DownInv
  BY <1>7, <1>8 DEF UpInv, DownInv
<1>10. QED
  BY <1>1, <1>3, <1>6, <1>9 DEF NetInv, FlowInv

LEMMA NetNext == NetInv /\ [Next]_vars => NetInv'
<1> SUFFICES ASSUME NetInv, [Next]_vars PROVE NetInv'
  OBVIOUS
<1>1. TypeOK /\ ConnInv /\ FlowInv
  BY DEF NetInv
<1>2. TypeOK' /\ ConnInv'
  BY <1>1, TypeNext, ConnNext
<1>3. FlowInv'
  <2>1. CASE \/ UNCHANGED vars
             \/ \E c \in Clients : \/ Join(c) \/ Register(c) \/ BusDestructed(c) \/ Crash(c)
                                   \/ \E event : ClientFindsNoBus(c, event)
                                   \/ \E e \in {ClientEnd(c), ServerEnd(c)} : ReadEnd(e)
    BY <1>1, <1>2, <2>1, StepsThatAreQuiet, QuietKeepsFlow
  <2>2. ASSUME NEW p \in Processes, PublishToSinks(p) PROVE FlowInv'
    BY <1>1, <1>2, <2>2, PublishToSinksKeepsFlow
  <2>3. ASSUME NEW p \in Processes, PublishToConnections(p) PROVE FlowInv'
    BY <1>1, <1>2, <2>3, ClientPublishesKeepsFlow, HubPublishesKeepsFlow DEF Processes
  <2>4. CASE HubForwards
    BY <1>1, <1>2, <2>4, HubForwardsKeepsFlow
  <2>5. ASSUME NEW c \in Clients, NEW event \in Event, ClientReceives(c, event) PROVE FlowInv'
    BY <1>1, <1>2, <2>5, ClientReceivesKeepsFlow
  <2>6. ASSUME NEW c \in Clients, NEW event \in Event, HubReceives(c, event) PROVE FlowInv'
    BY <1>1, <1>2, <2>6, HubReceivesKeepsFlow
  <2>7. ASSUME NEW e \in Ends, GetStuck(e) PROVE FlowInv'
    BY <1>1, <1>2, <2>7, GetStuckKeepsFlow
  <2>8. QED
    BY <2>1, <2>2, <2>3, <2>4, <2>5, <2>6, <2>7, EndsAre DEF Next, ClientReads, HubReads
<1>4. QED
  BY <1>1, <1>2, <1>3 DEF NetInv

\* What the connection lists, sockets, wires and inboxes hold has its type in
\* every reachable state, for any number of clients (BusImpl.cpp:138,
\* BusConnection.cpp:239).
THEOREM TypeCorrect == Spec => []TypeOK
<1>1. NetInv => TypeOK
  BY DEF NetInv
<1>2. QED
  BY NetInit, NetNext, <1>1, PTL DEF Spec

LEMMA NetAlways == Spec => []NetInv
BY NetInit, NetNext, PTL DEF Spec

-----------------------------------------------------------------------------
(* No event is lost on the way *)

LEMMA UpstreamFollows == NetInv => NoUpstreamLoss
<1> SUFFICES ASSUME NetInv, NEW c \in Clients, {ClientEnd(c), ServerEnd(c)} \subseteq open,
                    NEW n \in 1..sent[c]
             PROVE  Has(Hub, E(c, n)) \/ OnWire(ServerEnd(c), E(c, n)) \/ E(c, n) \in pending[c]
  BY DEF NoUpstreamLoss, E
<1> DEFINE w == wire[ServerEnd(c)]
<1>1. sent[c] \in Nat /\ DOMAIN w = 1..Len(w) /\ Len(w) \in Nat
  BY HubIsNoClient, EndsAre DEF NetInv, TypeOK
<1>2. PICK h \in Nat : UpOf(c, h)
  BY DEF NetInv, FlowInv, UpInv
<1>3. /\ h <= Done(c) /\ Done(c) - h <= Len(w)
      /\ \A i \in 1..(Done(c) - h) : w[i] = E(c, h + i)
  BY <1>2 DEF UpOf, Both
<1> HIDE DEF w
<1>4. n \in Nat /\ n >= 1 /\ n <= sent[c] /\ Done(c) \in Int
  BY <1>1 DEF Done
<1>5. CASE n <= h
  <2>1. n \in 1..h
    BY <1>4, <1>5
  <2>2. QED
    BY <1>2, <2>1 DEF UpOf
<1>6. CASE n > h /\ n <= Done(c)
  <2>1. n - h \in 1..(Done(c) - h) /\ n - h \in DOMAIN w /\ h + (n - h) = n
    BY <1>1, <1>3, <1>4, <1>6
  <2>2. w[n - h] = E(c, n)
    BY <1>3, <2>1
  <2>3. QED
    BY <2>1, <2>2 DEF OnWire, w
<1>7. CASE n > Done(c)
  <2>1. pending[c] # {} /\ n = sent[c]
    BY <1>1, <1>4, <1>7 DEF Done
  <2>2. pending[c] \subseteq {E(c, sent[c])}
    BY HubIsNoClient DEF NetInv, FlowInv, PendInv
  <2>3. QED
    BY <2>1, <2>2
<1>8. QED
  BY <1>4, <1>5, <1>6, <1>7

LEMMA DownstreamFollows == NetInv => NoDownstreamLoss
<1> SUFFICES ASSUME NetInv, NEW c \in Clients, ServerEnd(c) \in listed \ stopping,
                    ClientEnd(c) \in open,
                    NEW i \in DOMAIN inbox[Hub], NEW k \in DOMAIN inbox[Hub], i < k,
                    inbox[Hub][i].from = inbox[Hub][k].from, inbox[Hub][i].from # c,
                    At(c, inbox[Hub][i]),
                    inbox[Hub][k] \notin pending[Hub], \A f \in forward : f[1] # inbox[Hub][k]
             PROVE  At(c, inbox[Hub][k])
  BY DEF NoDownstreamLoss, At
<1>1. inbox[Hub][i] \in Event /\ inbox[Hub][k] \in Event
  BY HubIsNoClient DEF NetInv, TypeOK
<1>2. inbox[Hub][i].n < inbox[Hub][k].n
  BY DEF NetInv, FlowInv, HubInv
<1>3. Told(inbox[Hub][k])
  BY DEF Told, Has
<1>4. GapFreeOf(c)
  BY DEF NetInv, FlowInv, DownInv, DownOf
<1>5. QED
  BY <1>1, <1>2, <1>3, <1>4 DEF GapFreeOf

\* A bus loses no event between the publisher, the hub and the other clients,
\* whoever joins, leaves or crashes meanwhile (BusImpl.cpp:138,
\* BusServerImpl.cpp:144).
THEOREM NothingIsLost == Spec => []NoLoss
<1>1. NetInv => NoLoss
  BY UpstreamFollows, DownstreamFollows DEF NoLoss
<1>2. QED
  BY NetAlways, <1>1, PTL

-----------------------------------------------------------------------------
(* The bus broadcasts *)

LEMMA SeenIs ==
    ASSUME TypeOK, NEW p \in Processes, NEW o, NEW n
    PROVE  n \in Broadcast!Seen(p, o) <=> Has(p, E(o, n))
<1>1. inbox[p] \in Seq(Event) /\ \A i \in DOMAIN inbox[p] : inbox[p][i] \in Event
  BY DEF TypeOK
<1>2. ASSUME NEW i \in DOMAIN inbox[p]
      PROVE  inbox[p][i] = E(o, n) <=> inbox[p][i].from = o /\ inbox[p][i].n = n
  BY <1>1, EventIs
<1>3. QED
  BY <1>2 DEF Broadcast!Seen, Has

\* Publishing is a step of the broadcast, ...
LEMMA PublishIsAllowed ==
    ASSUME NetInv, NEW p \in Processes, PublishToSinks(p)
    PROVE  Broadcast!Publish(p)
<1>1. PICK m \in Nat : m = sent[p]
  BY DEF NetInv, TypeOK
<1> DEFINE event == E(p, m + 1)
<1>2. /\ inbox' = [inbox EXCEPT ![p] = Append(@, event)]
      /\ sent' = [sent EXCEPT ![p] = @ + 1]
  BY <1>1 DEF PublishToSinks, E
<1>3. event.from = p /\ event.n = m + 1 /\ event = [from |-> p, n |-> sent[p] + 1]
  BY <1>1, EventIs DEF E
<1>4. \A n \in Nat : Has(p, E(p, n)) <=> n \in 1..m
  BY <1>1 DEF NetInv, FlowInv, SelfInv
<1>5. \A n : n \in Broadcast!Seen(p, p) <=> Has(p, E(p, n))
  BY SeenIs DEF NetInv
<1>6. \A n : n \in Broadcast!Seen(p, p) => n \in Nat
  BY <1>5, HasEvent, EventIs DEF NetInv
<1>7. m + 1 \notin Broadcast!Seen(p, p)
  BY <1>4, <1>5
<1>8. Broadcast!Seen(p, p) # {} => (m + 1) - 1 \in Broadcast!Seen(p, p)
  <2>1. ASSUME NEW n \in Broadcast!Seen(p, p) PROVE m \in Broadcast!Seen(p, p)
    <3>1. n \in Nat /\ n \in 1..m
      BY <1>4, <1>5, <1>6, <2>1
    <3>2. m \in 1..m
      BY <3>1
    <3>3. QED
      BY <1>4, <1>5, <3>2
  <2>2. QED
    BY <2>1
<1>9. sent'[p] = m + 1 /\ m + 1 \in 1..sent'[p]
  BY <1>1, <1>2 DEF NetInv, TypeOK
<1> HIDE DEF event
<1>10. Broadcast!Deliver(p, event)
  BY <1>2, <1>3, <1>7, <1>8, <1>9 DEF Broadcast!Deliver
<1>11. QED
  BY <1>2, <1>3, <1>10 DEF Broadcast!Publish

LEMMA SeenWasPublished ==
    ASSUME NetInv, NEW event \in Event, Has(Hub, event)
    PROVE  event.n <= sent[event.from]
<1>1. event = E(event.from, event.n) /\ event.from \in Processes /\ event.n \in Nat
  BY EventIs
<1>2. sent[event.from] \in Nat
  BY <1>1 DEF NetInv, TypeOK
<1>3. CASE event.from = Hub
  <2>1. event.n \in 1..sent[Hub]
    BY <1>1, <1>3, HubIsNoClient DEF NetInv, FlowInv, SelfInv
  <2>2. QED
    BY <1>2, <1>3, <2>1
<1>4. CASE event.from \in Clients
  <2>1. PICK h \in Nat : UpOf(event.from, h)
    BY <1>4 DEF NetInv, FlowInv, UpInv
  <2>2. event.n \in 1..h /\ h <= sent[event.from]
    BY <1>1, <2>1 DEF UpOf
  <2>3. QED
    BY <1>1, <1>2, <2>2
<1>5. QED
  BY <1>1, <1>3, <1>4 DEF Processes

\* ... and so is receiving what Follows what one has seen.
LEMMA DeliverIsAllowed ==
    ASSUME NetInv, NEW p \in Processes, NEW event \in Event, event.from # p, UNCHANGED sent,
           inbox' = [inbox EXCEPT ![p] = Append(@, event)],
           event.n <= sent[event.from],
           \A d \in Event : d.from = event.from /\ Has(p, d) => d.n < event.n,
           \/ \E d \in Event : d.from = event.from /\ d.n = event.n - 1 /\ Has(p, d)
           \/ \A d \in Event : d.from = event.from => ~Has(p, d)
    PROVE  Broadcast!Next
<1> DEFINE o == event.from
<1>1. /\ event = [from |-> o, n |-> event.n] /\ o \in Processes /\ event.n \in Nat /\ event.n >= 1
      /\ sent[o] \in Nat
  BY EventIs DEF E, NetInv, TypeOK
<1>2. \A n : n \in Broadcast!Seen(p, o) <=> Has(p, E(o, n))
  BY SeenIs DEF NetInv
<1>3. \A n : n \in Broadcast!Seen(p, o) => E(o, n) \in Event /\ E(o, n).from = o /\ E(o, n).n = n
  BY <1>2, HasEvent, EventIs DEF NetInv
<1>4. event.n \notin Broadcast!Seen(p, o)
  BY <1>1, <1>2, <1>3
<1>5. Broadcast!Seen(p, o) # {} => event.n - 1 \in Broadcast!Seen(p, o)
  <2>1. ASSUME NEW n \in Broadcast!Seen(p, o) PROVE event.n - 1 \in Broadcast!Seen(p, o)
    <3>1. Has(p, E(o, n)) /\ E(o, n) \in Event /\ E(o, n).from = o
      BY <1>2, <1>3, <2>1
    <3>2. PICK d \in Event : d.from = o /\ d.n = event.n - 1 /\ Has(p, d)
      BY <3>1
    <3>3. d = E(o, event.n - 1)
      BY <3>2, EventIs
    <3>4. QED
      BY <1>2, <3>2, <3>3
  <2>2. QED
    BY <2>1
<1>6. Broadcast!Deliver(p, event)
  <2>1. event.n \in 1..sent'[o]
    BY <1>1
  <2>2. QED
    BY <1>4, <1>5, <2>1 DEF Broadcast!Deliver
<1>7. event.n \in 1..sent[o]
  BY <1>1
<1>8. QED
  BY <1>1, <1>6, <1>7 DEF Broadcast!Next

LEMMA StepsBroadcast == NetInv /\ [Next]_vars => [Broadcast!Next]_(Broadcast!vars)
<1> SUFFICES ASSUME NetInv, [Next]_vars PROVE Broadcast!Next \/ UNCHANGED <<sent, inbox>>
  BY DEF Broadcast!vars
<1>1. TypeOK /\ ConnInv /\ FlowInv
  BY DEF NetInv
<1>2. CASE \/ UNCHANGED vars
           \/ \E c \in Clients : \/ Join(c) \/ Register(c) \/ BusDestructed(c) \/ Crash(c)
                                 \/ \E event : ClientFindsNoBus(c, event)
                                 \/ \E e \in {ClientEnd(c), ServerEnd(c)} : ReadEnd(e)
  BY <1>1, <1>2, StepsThatAreQuiet DEF Quiet
<1>3. ASSUME NEW p \in Processes, PublishToSinks(p) PROVE Broadcast!Next
  BY <1>3, PublishIsAllowed DEF Broadcast!Next
<1>4. ASSUME \/ HubForwards
             \/ \E p \in Processes : PublishToConnections(p)
             \/ \E e : GetStuck(e)
      PROVE  UNCHANGED <<sent, inbox>>
  BY <1>4 DEF HubForwards, PublishToConnections, GetStuck
<1>5. ASSUME NEW c \in Clients, NEW event \in Event, ClientReceives(c, event) PROVE Broadcast!Next
  <2>1. DownOf(c) /\ c \in Processes
    BY <1>1, HubIsNoClient DEF FlowInv, DownInv
  <2>2. event.from # c /\ Follows(c, 1, event) /\ At(c, event)
    BY <1>1, <1>5, <2>1, NextDown
  <2>3. \A d : Before(c, 1, d) <=> Has(c, d)
    BY DEF Before
  <2>4. event.n <= sent[event.from]
    BY <2>1, <2>2, SeenWasPublished DEF DownOf, ToldOf, Telling
  <2>5. inbox' = [inbox EXCEPT ![c] = Append(@, event)] /\ UNCHANGED sent
    BY <1>5 DEF ClientReceives
  <2>6. QED
    BY <2>1, <2>2, <2>3, <2>4, <2>5, DeliverIsAllowed DEF Follows
<1>6. ASSUME NEW c \in Clients, NEW event \in Event, HubReceives(c, event) PROVE Broadcast!Next
  <2>1. PICK h \in Nat : UpOf(c, h)
    BY <1>1 DEF FlowInv, UpInv
  <2>2. event = E(c, h + 1) /\ event.from = c /\ event.n = h + 1 /\ h + 1 <= sent[c]
    BY <1>1, <1>6, <2>1, NextUp, EventIs
  <2>3. ASSUME NEW d \in Event, d.from = c PROVE Has(Hub, d) <=> d.n <= h
    <3>1. d = E(c, d.n) /\ d.n \in Nat /\ d.n >= 1
      BY <2>3, EventIs
    <3>2. QED
      BY <2>1, <3>1 DEF UpOf
  <2>4. \A d \in Event : d.from = event.from /\ Has(Hub, d) => d.n < event.n
    BY <2>2, <2>3, EventIs
  <2>5. \/ \E d \in Event : d.from = event.from /\ d.n = event.n - 1 /\ Has(Hub, d)
        \/ \A d \in Event : d.from = event.from => ~Has(Hub, d)
    <3>1. CASE h = 0
      BY <2>2, <2>3, <3>1, EventIs
    <3>2. CASE h # 0
      <4>1. Has(Hub, E(c, h))
        BY <2>1, <3>2 DEF UpOf
      <4>2. E(c, h) \in Event /\ E(c, h).from = c /\ E(c, h).n = h
        BY <1>1, <4>1, HasEvent, HubIsNoClient, EventIs
      <4>3. h = event.n - 1
        BY <2>2
      <4>4. QED
        BY <2>2, <4>1, <4>2, <4>3
    <3>3. QED
      BY <3>1, <3>2
  <2>6. inbox' = [inbox EXCEPT ![Hub] = Append(@, event)] /\ UNCHANGED sent /\ event.from # Hub
    BY <1>6, <2>2, HubIsNoClient DEF HubReceives
  <2>7. event.n <= sent[event.from]
    BY <2>2
  <2>8. QED
    BY <2>4, <2>5, <2>6, <2>7, HubIsNoClient, DeliverIsAllowed
<1>7. QED
  BY <1>2, <1>3, <1>4, <1>5, <1>6 DEF Next, ClientReads, HubReads

\* The processes of a bus see each publisher's events in order, each once and
\* without gaps, and none comes back to its publisher: the sockets implement
\* EventBroadcast (BusServerImpl.cpp:144, BusConnection.cpp:239).
THEOREM BusBroadcasts == Spec => BroadcastSpec
<1>1. Init => Broadcast!Init
  BY DEF Init, Broadcast!Init
<1>2. QED
  BY <1>1, NetAlways, StepsBroadcast, PTL DEF Spec, BroadcastSpec, Broadcast!Spec
=============================================================================
