-------------------------- MODULE SocketFactoryProofs --------------------------
(***************************************************************************)
(* Proofs about SocketFactory, for any connectors, processes, host names   *)
(* and options.                                                            *)
(***************************************************************************)
EXTENDS SocketFactory, TLAPS

-----------------------------------------------------------------------------
(* The weak caches *)

InCache(m, h, b) == h \in DOMAIN m /\ m[h] = b

Caches == [Processes -> Cache]

LEMMA ProcessIn == \A c \in Connectors : Process(c) \in Processes
BY ProcessAssumption DEF Process

LEMMA CacheIsFunction ==
    ASSUME NEW m \in Cache
    PROVE  DOMAIN m \subseteq Hosts /\ m = [h \in DOMAIN m |-> m[h]]
           /\ \A h \in DOMAIN m : m[h] \in Connectors
<1>1. PICK H \in SUBSET Hosts : m \in [H -> Connectors]
  BY DEF Cache
<1>2. DOMAIN m = H
  BY <1>1
<1>3. QED
  BY <1>1, <1>2

LEMMA FunctionIsCache ==
    ASSUME NEW H \in SUBSET Hosts, NEW m \in [H -> Connectors] PROVE m \in Cache
BY DEF Cache

\* A bus that is entered is found under its key; other entries stay.
LEMMA Entered ==
    ASSUME NEW cache \in Caches, NEW c \in Connectors, NEW host \in Hosts
    PROVE  /\ Remember(cache, c, host) \in Caches
           /\ InCache(Remember(cache, c, host)[Process(c)], host, c)
           /\ \A p \in Processes : \A h, b :
                 InCache(cache[p], h, b) /\ (p = Process(c) => h # host)
                 => InCache(Remember(cache, c, host)[p], h, b)
           /\ \A p \in Processes : \A h, b :
                 InCache(Remember(cache, c, host)[p], h, b)
                 => InCache(cache[p], h, b) \/ (p = Process(c) /\ b = c)
<1> DEFINE p == Process(c)
           old == cache[p]
           new == [h \in DOMAIN old \cup {host} |-> IF h = host THEN c ELSE old[h]]
<1>1. p \in Processes
  BY ProcessAssumption DEF Process
<1>2. old \in Cache
  BY <1>1 DEF Caches
<1>3. new \in [DOMAIN old \cup {host} -> Connectors] /\ DOMAIN old \cup {host} \subseteq Hosts
  BY <1>2, CacheIsFunction
<1>4. new \in Cache
  BY <1>3, FunctionIsCache
<1>5. Remember(cache, c, host) = [cache EXCEPT ![p] = new]
  BY DEF Remember
<1>6. /\ InCache(new, host, c)
      /\ \A h, b : InCache(old, h, b) /\ h # host => InCache(new, h, b)
      /\ \A h, b : InCache(new, h, b) => InCache(old, h, b) \/ b = c
  BY DEF InCache
<1> HIDE DEF p, old, new
<1>7. /\ Remember(cache, c, host) \in Caches
      /\ Remember(cache, c, host)[p] = new
      /\ \A q \in Processes \ {p} : Remember(cache, c, host)[q] = cache[q]
  BY <1>1, <1>4, <1>5 DEF Caches
<1>8. QED
  BY <1>1, <1>6, <1>7 DEF p, old

LEMMA EnteredBeside ==
    ASSUME NEW cache \in Caches, NEW c \in Connectors, NEW host \in Hosts,
           NEW p \in Processes, NEW h, NEW b, InCache(cache[p], h, b), p = Process(c) => h # host
    PROVE  InCache(Remember(cache, c, host)[p], h, b)
BY Entered

\* searchInMap erases the entry under one key.
Without(cache, c, host) ==
    [cache EXCEPT ![Process(c)] = Restrict(@, DOMAIN @ \ {host})]

LEMMA Erased ==
    ASSUME NEW cache \in Caches, NEW c \in Connectors, NEW host
    PROVE  /\ Without(cache, c, host) \in Caches
           /\ \A q \in Processes : \A h, b :
                 InCache(cache[q], h, b) /\ (q = Process(c) => h # host)
                 => InCache(Without(cache, c, host)[q], h, b)
           /\ \A q \in Processes : \A h, b :
                 InCache(Without(cache, c, host)[q], h, b) => InCache(cache[q], h, b)
<1> DEFINE p == Process(c)
           old == cache[p]
           new == [h \in DOMAIN old \ {host} |-> old[h]]
<1>1. p \in Processes /\ old \in Cache
  BY ProcessIn DEF Caches
<1>2. new \in [DOMAIN old \ {host} -> Connectors] /\ DOMAIN old \ {host} \subseteq Hosts
  BY <1>1, CacheIsFunction
<1>3. new \in Cache
  BY <1>2, FunctionIsCache
<1>4. Without(cache, c, host) = [cache EXCEPT ![p] = new]
  BY DEF Restrict, Without
<1>5. /\ \A h, b : InCache(old, h, b) /\ h # host => InCache(new, h, b)
      /\ \A h, b : InCache(new, h, b) => InCache(old, h, b)
  BY DEF InCache
<1> HIDE DEF p, old, new
<1>6. /\ Without(cache, c, host) \in Caches
      /\ Without(cache, c, host)[p] = new
      /\ \A q \in Processes \ {p} : Without(cache, c, host)[q] = cache[q]
  BY <1>1, <1>3, <1>4 DEF Caches
<1>7. QED
  BY <1>5, <1>6 DEF p, old

-----------------------------------------------------------------------------
(* Who holds the mutex, and what is known of the buses *)

\* A lookup that has not created a bus, and one that still holds the mutex
Looking == {"findServer", "bind", "findClient", "findResolved", "connect", "found"}
Holding == Looking \cup {"register", "handshake", "returning", "failing"}

MutexInv ==
    \A c \in Connectors :
        /\ pc[c] \in Holding => mutex[Process(c)] = c
        /\ pc[c] \in {"idle", "locking", "active", "failed", "done"} => mutex[Process(c)] # c

\* A cache has buses of its own process only.
OwnEntries(cache) == \A p \in Processes : \A h, b : InCache(cache[p], h, b) => Process(b) = p

OwnInv == OwnEntries(clients) /\ OwnEntries(servers)

\* The options of a bus are set for good, a bus is used in one process only and
\* by nobody else before the lookup that creates it returns.
BusOf(c) ==
    /\ pc[c] # "idle" => wish[c] \in Wishes
    /\ pc[c] \in Looking \cup {"idle", "locking"} => kind[c] = "none"
    /\ pc[c] = "tearing" /\ mutex[Process(c)] = c => kind[c] = "none"
    /\ pc[c] \in {"found", "returning", "active", "tearing"} => bus[c] # None
    /\ bus[c] # None => Process(bus[c]) = Process(c) /\ kind[bus[c]] # "none"
    /\ pc[c] \in {"register", "handshake"} =>
          bus[c] = c /\ \A d \in Connectors : bus[d] = c => d = c
    /\ pc[c] = "register" => kind[c] = "server"
    /\ pc[c] = "handshake" => kind[c] = "client"

BusInv == \A c \in Connectors : BusOf(c)

LEMMA Wished ==
    ASSUME TypeOK, BusInv, NEW c \in Connectors, pc[c] # "idle"
    PROVE  /\ wish[c].mode \in Modes /\ wish[c].host \in Hosts
BY WishAssumption DEF BusInv, BusOf, Wish

LEMMA HitIn ==
    ASSUME NEW cache \in Caches, NEW c \in Connectors, NEW host, Hit(c, cache, host)
    PROVE  cache[Process(c)][host] \in Connectors
BY ProcessIn, CacheIsFunction DEF Hit, Caches

-----------------------------------------------------------------------------
(* What the lookups in the caches do *)

\* An entry that is alive survives: an expired one is erased, if any.
Kept(cache, cache2) ==
    \A q \in Processes : \A h, b :
        /\ InCache(cache2[q], h, b) => InCache(cache[q], h, b)
        /\ Alive(b) /\ InCache(cache[q], h, b) => InCache(cache2[q], h, b)

\* A search for host that goes on at the step miss if nothing is found
Searched(c, cache, cache2, host, miss) ==
    \/ /\ Hit(c, cache, host)
       /\ cache[Process(c)][host] \in Connectors
       /\ bus' = [bus EXCEPT ![c] = cache[Process(c)][host]]
       /\ pc' = [pc EXCEPT ![c] = "found"]
       /\ cache2 = cache
    \/ /\ ~Hit(c, cache, host)
       /\ bus' = bus
       /\ pc' = [pc EXCEPT ![c] = miss]
       /\ cache2 \in Caches /\ Kept(cache, cache2)

LEMMA ErasedIfExpired ==
    ASSUME NEW cache \in Caches, NEW c \in Connectors, NEW host, ~Hit(c, cache, host)
    PROVE  Without(cache, c, host) \in Caches /\ Kept(cache, Without(cache, c, host))
<1>1. \A b : InCache(cache[Process(c)], host, b) => ~Alive(b)
  BY DEF Hit, InCache
<1>2. QED
  BY <1>1, Erased DEF Kept

LEMMA FindServerSearches ==
    ASSUME TypeOK, NEW c \in Connectors, FindServer(c)
    PROVE  /\ UNCHANGED <<mutex, clients, wish, kind, server, peer, conn>>
           /\ Searched(c, servers, servers', wish[c].host, "bind")
<1>1. UNCHANGED <<mutex, clients, wish, kind, server, peer, conn>>
  BY DEF FindServer
<1>2. servers \in Caches
  BY DEF TypeOK, Caches
<1>3. CASE Hit(c, servers, wish[c].host)
  BY <1>2, <1>3, HitIn DEF FindServer, SearchInMap, Searched, Goto
<1>4. CASE ~Hit(c, servers, wish[c].host)
  <2>1. /\ servers' = Without(servers, c, wish[c].host)
        /\ bus' = bus /\ pc' = [pc EXCEPT ![c] = "bind"]
    BY <1>4 DEF FindServer, SearchInMap, Goto, Without
  <2>2. servers' \in Caches /\ Kept(servers, servers')
    BY <1>2, <1>4, <2>1, ErasedIfExpired
  <2>3. QED
    BY <1>1, <1>4, <2>1, <2>2 DEF Searched
<1>5. QED
  BY <1>1, <1>3, <1>4

LEMMA FindClientSearches ==
    ASSUME TypeOK, NEW c \in Connectors, FindClient(c) \/ FindResolved(c)
    PROVE  /\ UNCHANGED <<mutex, servers, wish, kind, server, peer, conn>>
           /\ \/ /\ FindClient(c)
                 /\ Searched(c, clients, clients', wish[c].host, "findResolved")
              \/ /\ FindResolved(c)
                 /\ Searched(c, clients, clients', wish[c].host, "connect")
<1>1. UNCHANGED <<mutex, servers, wish, kind, server, peer, conn>>
  BY DEF FindClient, FindResolved
<1>2. clients \in Caches
  BY DEF TypeOK, Caches
<1>3. ASSUME NEW host, NEW miss, SearchInMap(c, clients, host, miss)
      PROVE  Searched(c, clients, clients', host, miss)
  <2>1. CASE Hit(c, clients, host)
    BY <1>2, <1>3, <2>1, HitIn DEF SearchInMap, Searched, Goto
  <2>2. CASE ~Hit(c, clients, host)
    <3>1. /\ clients' = Without(clients, c, host)
          /\ bus' = bus /\ pc' = [pc EXCEPT ![c] = miss]
      BY <1>3, <2>2 DEF SearchInMap, Goto, Without
    <3>2. clients' \in Caches /\ Kept(clients, clients')
      BY <1>2, <2>2, <3>1, ErasedIfExpired
    <3>3. QED
      BY <2>2, <3>1, <3>2 DEF Searched
  <2>3. QED
    BY <2>1, <2>2
<1>4. QED
  BY <1>1, <1>3 DEF FindClient, FindResolved

-----------------------------------------------------------------------------
(* Type correctness *)

LEMMA TypeInit == Init => TypeOK
<1> SUFFICES ASSUME Init PROVE TypeOK
  OBVIOUS
<1>1. [h \in {} |-> None] \in [{} -> Connectors] /\ {} \in SUBSET Hosts
  OBVIOUS
<1>2. [h \in {} |-> None] \in Cache
  BY <1>1, FunctionIsCache
<1>3. QED
  BY <1>2 DEF Init, TypeOK, Steps, ServerStates, ConnStates

LEMMA TypeNext == TypeOK /\ BusInv /\ [Next]_vars => TypeOK'
<1> SUFFICES ASSUME TypeOK, BusInv, [Next]_vars PROVE TypeOK'
  OBVIOUS
<1> USE DEF TypeOK, Steps, ServerStates, ConnStates, Goto
<1>1. ASSUME NEW c \in Connectors, NEW w \in Wishes, Activate(c, w) PROVE TypeOK'
  BY <1>1 DEF Activate
<1>2. ASSUME NEW c \in Connectors, Lock(c) PROVE TypeOK'
  BY <1>2 DEF Lock
<1>3. ASSUME NEW c \in Connectors, FindServer(c) PROVE TypeOK'
  BY <1>3, FindServerSearches DEF Searched, Caches
<1>4. ASSUME NEW c \in Connectors, FindClient(c) \/ FindResolved(c) PROVE TypeOK'
  BY <1>4, FindClientSearches DEF Searched, Caches
<1>5. ASSUME NEW c \in Connectors, CheckOptions(c) \/ Deactivate(c) PROVE TypeOK'
  <2>1. UNCHANGED <<mutex, clients, servers, wish, kind, peer>>
    BY <1>5 DEF CheckOptions, Deactivate
  <2>2. AfterDrop(c) \in Steps
    BY DEF AfterDrop
  <2>3. ASSUME Drop(c)
        PROVE  pc' \in [Connectors -> Steps] /\ bus' \in [Connectors -> Connectors \cup {None}]
               /\ server' \in [Connectors -> ServerStates] /\ conn' \in [Connectors -> ConnStates]
    BY <2>2, <2>3 DEF Drop
  <2>4. QED
    BY <1>5, <2>1, <2>3 DEF CheckOptions, Deactivate
<1>6. ASSUME NEW c \in Connectors, TornDown(c) PROVE TypeOK'
  <2>1. AfterDrop(c) \in Steps
    BY DEF AfterDrop
  <2>2. QED
    BY <1>6, <2>1 DEF TornDown
<1>7. ASSUME NEW c \in Connectors, Bind(c) \/ FailToBind(c) PROVE TypeOK'
  BY <1>7 DEF Bind, FailToBind
<1>8. ASSUME NEW c \in Connectors, Register(c) PROVE TypeOK'
  <2>1. servers' \in Caches
    BY <1>8, Wished, Entered DEF Register, Caches
  <2>2. QED
    BY <1>8, <2>1 DEF Register, Caches
<1>9. ASSUME NEW c \in Connectors, Connect(c) PROVE TypeOK'
  <2>1. clients' \in Caches
    BY <1>9, Wished, Entered DEF Connect, Caches
  <2>2. peer' \in [Connectors -> Connectors \cup {None}]
    BY <1>9 DEF Connect, Bound
  <2>3. QED
    BY <1>9, <2>1, <2>2 DEF Connect, Caches
<1>10. ASSUME NEW c \in Connectors,
              FailToConnect(c) \/ HandshakeDone(c) \/ HandshakeFails(c)
       PROVE  TypeOK'
  BY <1>10 DEF FailToConnect, HandshakeDone, HandshakeFails
<1>11. ASSUME NEW c \in Connectors, Return(c) \/ Throw(c) PROVE TypeOK'
  BY <1>11 DEF Return, Throw, Unlock
<1>12. ASSUME NEW s \in Connectors, ServerStep(s) PROVE TypeOK'
  <2>1. UNCHANGED <<mutex, clients, servers, pc, wish, bus, kind, peer>>
    BY <1>12 DEF ServerStep, Accept, StopLoop, LoopEnds, CancelMisses, SeeEof, Drained, ClosePort
  <2>2. server' \in [Connectors -> ServerStates]
    BY <1>12 DEF ServerStep, Accept, StopLoop, LoopEnds, CancelMisses, SeeEof, Drained, ClosePort
  <2>3. conn' \in [Connectors -> ConnStates]
    BY <1>12 DEF ServerStep, Accept, StopLoop, LoopEnds, CancelMisses, SeeEof, Drained,
                 ClosePort, ClientsOf
  <2>4. QED
    BY <2>1, <2>2, <2>3
<1>13. CASE UNCHANGED vars
  BY <1>13 DEF vars
<1>14. QED
  BY <1>1, <1>2, <1>3, <1>4, <1>5, <1>6, <1>7, <1>8, <1>9, <1>10, <1>11, <1>12, <1>13
     DEF Next, LookupStep

-----------------------------------------------------------------------------
(* The mutex and the buses *)

LEMMA MutexNext == TypeOK /\ MutexInv /\ [Next]_vars => MutexInv'
<1> SUFFICES ASSUME TypeOK, MutexInv, [Next]_vars PROVE MutexInv'
  OBVIOUS
<1> USE DEF MutexInv, Looking, Holding, Goto, Process
<1>1. ASSUME NEW c \in Connectors, NEW w \in Wishes, Activate(c, w) PROVE MutexInv'
  BY <1>1 DEF Activate, TypeOK
<1>2. ASSUME NEW c \in Connectors, Lock(c) PROVE MutexInv'
  BY <1>2, ProcessAssumption, NoneAssumption DEF Lock, TypeOK
<1>3. ASSUME NEW c \in Connectors, FindServer(c) PROVE MutexInv'
  BY <1>3, FindServerSearches DEF Searched, FindServer, TypeOK
<1>4. ASSUME NEW c \in Connectors, FindClient(c) \/ FindResolved(c) PROVE MutexInv'
  BY <1>4, FindClientSearches DEF Searched, FindClient, FindResolved, TypeOK
<1>5. ASSUME NEW c \in Connectors, CheckOptions(c) \/ Deactivate(c) \/ TornDown(c)
      PROVE  MutexInv'
  <2>1. mutex' = mutex /\ pc[c] \in {"found", "active", "tearing"}
    BY <1>5 DEF CheckOptions, Deactivate, TornDown
  <2>2. \/ pc' = [pc EXCEPT ![c] = AfterDrop(c)]
        \/ pc' = [pc EXCEPT ![c] = "tearing"]
        \/ pc[c] = "found" /\ pc' = [pc EXCEPT ![c] = "returning"]
    BY <1>5 DEF CheckOptions, Deactivate, TornDown, Drop
  <2>3. /\ mutex[Process(c)] = c => AfterDrop(c) \in {"findClient", "failing"}
        /\ mutex[Process(c)] # c => AfterDrop(c) = "done"
    BY DEF AfterDrop
  <2>4. QED
    BY <2>1, <2>2, <2>3 DEF TypeOK
<1>6. ASSUME NEW c \in Connectors,
             \/ Bind(c) \/ FailToBind(c) \/ Register(c) \/ Connect(c) \/ FailToConnect(c)
             \/ HandshakeDone(c) \/ HandshakeFails(c)
      PROVE  MutexInv'
  BY <1>6 DEF Bind, FailToBind, Register, Connect, FailToConnect, HandshakeDone,
              HandshakeFails, TypeOK
<1>7. ASSUME NEW c \in Connectors, Return(c) \/ Throw(c) PROVE MutexInv'
  BY <1>7, ProcessAssumption, NoneAssumption DEF Return, Throw, Unlock, TypeOK
<1>8. ASSUME NEW s \in Connectors, ServerStep(s) PROVE MutexInv'
  BY <1>8 DEF ServerStep, Accept, StopLoop, LoopEnds, CancelMisses, SeeEof, Drained, ClosePort
<1>9. CASE UNCHANGED vars
  BY <1>9 DEF vars
<1>10. QED
  BY <1>1, <1>2, <1>3, <1>4, <1>5, <1>6, <1>7, <1>8, <1>9 DEF Next, LookupStep

\* What letting go of a bus comes to
LEMMA LetGo ==
    ASSUME TypeOK, NEW c \in Connectors, bus[c] # None, Drop(c)
    PROVE  \/ /\ pc' = [pc EXCEPT ![c] = "tearing"] /\ bus' = bus /\ conn' = conn
           \/ /\ pc' = [pc EXCEPT ![c] = AfterDrop(c)] /\ bus' = [bus EXCEPT ![c] = None]
              /\ \A b \in Connectors :
                    \/ conn'[b] = conn[b]
                    \/ \A d \in Connectors \ {c} : bus[d] # b \/ pc[d] = "tearing"
BY DEF Drop, Goto, TypeOK

LEMMA OwnNext == TypeOK /\ BusInv /\ OwnInv /\ [Next]_vars => OwnInv'
<1> SUFFICES ASSUME TypeOK, BusInv, OwnInv, [Next]_vars PROVE OwnInv'
  OBVIOUS
<1>1. ASSUME NEW c \in Connectors, FindServer(c) PROVE OwnInv'
  BY <1>1, FindServerSearches DEF Searched, Kept, OwnInv, OwnEntries
<1>2. ASSUME NEW c \in Connectors, FindClient(c) \/ FindResolved(c) PROVE OwnInv'
  BY <1>2, FindClientSearches DEF Searched, Kept, OwnInv, OwnEntries
<1>3. ASSUME NEW c \in Connectors, Register(c) PROVE OwnInv'
  <2>1. servers' = Remember(servers, c, wish[c].host) /\ clients' = clients
    BY <1>3 DEF Register
  <2>2. servers \in Caches /\ wish[c].host \in Hosts
    BY <1>3, Wished DEF Register, TypeOK, Caches
  <2>3. \A p \in Processes : \A h, b : InCache(servers'[p], h, b)
           => InCache(servers[p], h, b) \/ (p = Process(c) /\ b = c)
    BY <2>1, <2>2, Entered
  <2>4. QED
    BY <2>1, <2>3 DEF OwnInv, OwnEntries
<1>4. ASSUME NEW c \in Connectors, Connect(c) PROVE OwnInv'
  <2>1. clients' = Remember(clients, c, wish[c].host) /\ servers' = servers
    BY <1>4 DEF Connect
  <2>2. clients \in Caches /\ wish[c].host \in Hosts
    BY <1>4, Wished DEF Connect, TypeOK, Caches
  <2>3. \A p \in Processes : \A h, b : InCache(clients'[p], h, b)
           => InCache(clients[p], h, b) \/ (p = Process(c) /\ b = c)
    BY <2>1, <2>2, Entered
  <2>4. QED
    BY <2>1, <2>3 DEF OwnInv, OwnEntries
<1>5. CASE UNCHANGED <<clients, servers>>
  BY <1>5 DEF OwnInv, OwnEntries
<1>6. QED
  BY <1>1, <1>2, <1>3, <1>4, <1>5
     DEF Next, LookupStep, ServerStep, Activate, Lock, CheckOptions, Bind, FailToBind,
         FailToConnect, HandshakeDone, HandshakeFails, Return, Throw, TornDown, Deactivate,
         Accept, StopLoop, LoopEnds, CancelMisses, SeeEof, Drained, ClosePort, vars

\* A lookup finds no bus of another lookup that is going on.
LEMMA SearchFinds ==
    ASSUME TypeOK, MutexInv, BusInv, NEW cache, OwnEntries(cache),
           NEW c \in Connectors, pc[c] \in Looking, NEW host, Hit(c, cache, host),
           NEW b \in Connectors, b = cache[Process(c)][host]
    PROVE  /\ Process(b) = Process(c) /\ kind[b] # "none"
           /\ pc[b] \notin {"register", "handshake"}
<1>1. PICK d \in Connectors : bus[d] = b
  BY DEF Hit, Alive
<1>2. Process(b) = Process(c)
  BY ProcessIn DEF OwnEntries, InCache, Hit
<1>3. kind[b] # "none"
  BY <1>1, NoneAssumption DEF BusInv, BusOf
<1>4. b # c
  BY <1>3 DEF BusInv, BusOf
<1>5. pc[b] \notin {"register", "handshake"}
  BY <1>2, <1>4 DEF MutexInv, Holding
<1>6. QED
  BY <1>2, <1>3, <1>5

LEMMA SearchKeepsBuses ==
    ASSUME TypeOK, MutexInv, BusInv, NEW cache, NEW cache2, OwnEntries(cache),
           NEW c \in Connectors, pc[c] \in Looking, NEW host, NEW miss \in Looking \ {"found"},
           Searched(c, cache, cache2, host, miss), UNCHANGED <<mutex, wish, kind>>
    PROVE  BusInv'
<1>1. CASE Hit(c, cache, host)
  <2>1. PICK b \in Connectors : /\ b = cache[Process(c)][host]
                                /\ bus' = [bus EXCEPT ![c] = b]
                                /\ pc' = [pc EXCEPT ![c] = "found"]
    BY <1>1 DEF Searched
  <2>2. /\ Process(b) = Process(c) /\ kind[b] # "none"
        /\ pc[b] \notin {"register", "handshake"}
    BY <1>1, <2>1, SearchFinds
  <2>3. /\ pc'[c] = "found" /\ bus'[c] = b
        /\ \A d \in Connectors \ {c} : pc'[d] = pc[d] /\ bus'[d] = bus[d]
    BY <2>1 DEF TypeOK
  <2>4. wish[c] \in Wishes /\ kind[c] = "none" /\ b # None
    BY NoneAssumption DEF BusInv, BusOf, Looking
  <2>5. \A d \in Connectors : pc[d] \in {"register", "handshake"} =>
           bus[d] = d /\ d # c /\ \A e \in Connectors : bus'[e] = d => e = d
    BY <2>2, <2>3 DEF BusInv, BusOf, Looking
  <2>6. BusOf(c)'
    BY <2>2, <2>3, <2>4 DEF BusOf, Looking
  <2>7. ASSUME NEW d \in Connectors \ {c} PROVE BusOf(d)'
    BY <2>3, <2>5 DEF BusInv, BusOf
  <2>8. QED
    BY <2>6, <2>7 DEF BusInv
<1>2. CASE ~Hit(c, cache, host)
  <2>1. /\ pc'[c] = miss /\ bus' = bus
        /\ \A d \in Connectors \ {c} : pc'[d] = pc[d]
    BY <1>2 DEF Searched, TypeOK
  <2>2. \A d \in Connectors : BusOf(d)
    BY DEF BusInv
  <2>3. BusOf(c)'
    BY <2>1, <2>2 DEF BusOf, Looking
  <2>4. ASSUME NEW d \in Connectors \ {c} PROVE BusOf(d)'
    BY <2>1, <2>2 DEF BusOf
  <2>5. QED
    BY <2>3, <2>4 DEF BusInv
<1>3. QED
  BY <1>1, <1>2

LEMMA BusNext == TypeOK /\ MutexInv /\ OwnInv /\ BusInv /\ [Next]_vars => BusInv'
<1> SUFFICES ASSUME TypeOK, MutexInv, OwnInv, BusInv, [Next]_vars PROVE BusInv'
  OBVIOUS
<1>1. ASSUME NEW c \in Connectors, NEW w \in Wishes, Activate(c, w) PROVE BusInv'
  BY <1>1 DEF Activate, BusInv, BusOf, Looking, Goto, TypeOK
<1>2. ASSUME NEW c \in Connectors, Lock(c) PROVE BusInv'
  BY <1>2, ProcessIn DEF Lock, BusInv, BusOf, Looking, Goto, TypeOK
<1>3. ASSUME NEW c \in Connectors, FindServer(c) PROVE BusInv'
  <2>1. Searched(c, servers, servers', wish[c].host, "bind") /\ UNCHANGED <<mutex, wish, kind>>
    BY <1>3, FindServerSearches
  <2>2. pc[c] \in Looking /\ "bind" \in Looking /\ OwnEntries(servers)
    BY <1>3 DEF FindServer, OwnInv, Looking
  <2>3. QED
    BY <2>1, <2>2, SearchKeepsBuses
<1>4. ASSUME NEW c \in Connectors, FindClient(c) \/ FindResolved(c) PROVE BusInv'
  <2>1. /\ \/ Searched(c, clients, clients', wish[c].host, "findResolved")
           \/ Searched(c, clients, clients', wish[c].host, "connect")
        /\ UNCHANGED <<mutex, wish, kind>>
    BY <1>4, FindClientSearches
  <2>2. /\ pc[c] \in Looking /\ "findResolved" \in Looking /\ "connect" \in Looking
        /\ OwnEntries(clients)
    BY <1>4 DEF FindClient, FindResolved, OwnInv, Looking
  <2>3. QED
    BY <2>1, <2>2, SearchKeepsBuses
<1> USE DEF BusInv, BusOf, Looking, Goto
<1>5. ASSUME NEW c \in Connectors, CheckOptions(c) \/ Deactivate(c) \/ TornDown(c)
      PROVE  BusInv'
  <2>1. UNCHANGED <<mutex, wish, kind>> /\ pc[c] \in {"found", "active", "tearing"} /\ bus[c] # None
    BY <1>5 DEF CheckOptions, Deactivate, TornDown
  <2>2. \/ pc' = [pc EXCEPT ![c] = AfterDrop(c)] /\ bus' = [bus EXCEPT ![c] = None]
        \/ pc' = [pc EXCEPT ![c] = "tearing"] /\ bus' = bus
        \/ pc[c] = "found" /\ pc' = [pc EXCEPT ![c] = "returning"] /\ bus' = bus
    BY <1>5, <2>1, LetGo DEF CheckOptions, Deactivate, TornDown
  <2>3. /\ mutex[Process(c)] = c => AfterDrop(c) \in {"findClient", "failing"}
        /\ mutex[Process(c)] # c => AfterDrop(c) = "done"
    BY DEF AfterDrop
  <2>4. pc[c] = "active" => mutex[Process(c)] # c
    BY DEF MutexInv
  <2>5. QED
    BY <2>1, <2>2, <2>3, <2>4, NoneAssumption DEF TypeOK
<1>6. ASSUME NEW c \in Connectors, Bind(c) PROVE BusInv'
  BY <1>6, NoneAssumption DEF Bind, TypeOK
<1>7. ASSUME NEW c \in Connectors, Connect(c) PROVE BusInv'
  BY <1>7, NoneAssumption DEF Connect, TypeOK
<1>8. ASSUME NEW c \in Connectors,
             FailToBind(c) \/ FailToConnect(c) \/ Register(c) \/ HandshakeDone(c) \/ HandshakeFails(c)
      PROVE  BusInv'
  BY <1>8, NoneAssumption DEF FailToBind, FailToConnect, Register, HandshakeDone, HandshakeFails, TypeOK
<1>9. ASSUME NEW c \in Connectors, Return(c) \/ Throw(c) PROVE BusInv'
  BY <1>9, ProcessIn, NoneAssumption DEF Return, Throw, Unlock, TypeOK
<1>10. ASSUME NEW s \in Connectors, ServerStep(s) PROVE BusInv'
  BY <1>10 DEF ServerStep, Accept, StopLoop, LoopEnds, CancelMisses, SeeEof, Drained, ClosePort
<1>11. CASE UNCHANGED vars
  BY <1>11 DEF vars
<1>12. QED
  BY <1>1, <1>2, <1>3, <1>4, <1>5, <1>6, <1>7, <1>8, <1>9, <1>10, <1>11 DEF Next, LookupStep

-----------------------------------------------------------------------------
(* The buses that are alive *)

\* A bus that is alive was so before, or the step is the one that creates it.
LEMMA AliveBefore ==
    ASSUME TypeOK, OwnInv, BusInv, [Next]_vars, NEW b \in Connectors, Alive(b)'
    PROVE  \/ Alive(b)
           \/ Bind(b) /\ pc'[b] = "register"
           \/ Connect(b) /\ pc'[b] = "handshake"
<1> USE DEF Alive, Goto
<1>1. PICK d \in Connectors : bus'[d] = b /\ pc'[d] # "tearing"
  OBVIOUS
<1>2. CASE bus[d] = b /\ pc[d] # "tearing"
  BY <1>2
<1>3. ASSUME NEW c \in Connectors, FindServer(c) PROVE Alive(b)
  BY <1>1, <1>3, FindServerSearches DEF Searched, Hit, FindServer, TypeOK
<1>4. ASSUME NEW c \in Connectors, FindClient(c) \/ FindResolved(c) PROVE Alive(b)
  BY <1>1, <1>4, FindClientSearches DEF Searched, Hit, FindClient, FindResolved, TypeOK
<1>5. ASSUME NEW c \in Connectors, CheckOptions(c) \/ Deactivate(c) \/ TornDown(c)
      PROVE  Alive(b)
  <2>1. bus[c] # None /\ pc[c] \in {"found", "active", "tearing"}
    BY <1>5 DEF CheckOptions, Deactivate, TornDown, BusInv, BusOf
  <2>2. \/ pc' = [pc EXCEPT ![c] = AfterDrop(c)] /\ bus' = [bus EXCEPT ![c] = None]
        \/ pc' = [pc EXCEPT ![c] = "tearing"] /\ bus' = bus
        \/ pc[c] = "found" /\ pc' = [pc EXCEPT ![c] = "returning"] /\ bus' = bus
    BY <1>5, <2>1, LetGo DEF CheckOptions, Deactivate, TornDown
  <2>3. QED
    BY <1>1, <2>2, NoneAssumption DEF TypeOK
<1>6. ASSUME NEW c \in Connectors, Bind(c)
      PROVE  Alive(b) \/ (Bind(b) /\ pc'[b] = "register")
  BY <1>1, <1>6 DEF Bind, TypeOK
<1>7. ASSUME NEW c \in Connectors, Connect(c)
      PROVE  Alive(b) \/ (Connect(b) /\ pc'[b] = "handshake")
  <2>1. pc' = [pc EXCEPT ![c] = "handshake"] /\ bus' = [bus EXCEPT ![c] = c] /\ pc[c] = "connect"
    BY <1>7 DEF Connect
  <2>2. CASE d = c
    BY <1>1, <1>7, <2>1, <2>2 DEF TypeOK
  <2>3. CASE d # c
    BY <1>1, <2>1, <2>3 DEF TypeOK
  <2>4. QED
    BY <2>2, <2>3
<1>8. ASSUME NEW c \in Connectors,
             \/ \E w \in Wishes : Activate(c, w)
             \/ Lock(c) \/ FailToBind(c) \/ Register(c) \/ FailToConnect(c) \/ HandshakeDone(c)
             \/ HandshakeFails(c) \/ Return(c) \/ Throw(c)
      PROVE  Alive(b)
  <2>1. pc[c] # "tearing" /\ \A e \in Connectors : pc'[e] = pc[e] \/ (e = c /\ pc[e] # "tearing")
    BY <1>8 DEF Activate, Lock, FailToBind, Register, FailToConnect, HandshakeDone,
                HandshakeFails, Return, Throw, TypeOK
  <2>2. bus' = bus \/ bus' = [bus EXCEPT ![c] = None]
    BY <1>8 DEF Activate, Lock, FailToBind, Register, FailToConnect, HandshakeDone,
                HandshakeFails, Return, Throw
  <2>3. QED
    BY <1>1, <2>1, <2>2, NoneAssumption DEF TypeOK
<1>9. ASSUME NEW s \in Connectors, ServerStep(s) PROVE Alive(b)
  BY <1>1, <1>9 DEF ServerStep, Accept, StopLoop, LoopEnds, CancelMisses, SeeEof, Drained, ClosePort
<1>10. CASE UNCHANGED vars
  BY <1>1, <1>10 DEF vars
<1>11. QED
  BY <1>3, <1>4, <1>5, <1>6, <1>7, <1>8, <1>9, <1>10 DEF Next, LookupStep

\* Its kind and its options do not change, nor do those of a lookup.
LEMMA Stays ==
    ASSUME TypeOK, BusInv, [Next]_vars, NEW b \in Connectors
    PROVE  /\ pc[b] # "idle" \/ kind[b] # "none" => wish'[b] = wish[b]
           /\ kind[b] # "none" => kind'[b] = kind[b]
<1>1. /\ pc[b] = "idle" => kind[b] = "none"
      /\ pc[b] \in {"bind", "connect"} => kind[b] = "none"
  BY DEF BusInv, BusOf, Looking
<1>2. wish'[b] = wish[b] \/ pc[b] = "idle"
  BY DEF Next, LookupStep, ServerStep, Activate, Lock, FindServer, CheckOptions, Bind,
         FailToBind, Register, FindClient, FindResolved, Connect, FailToConnect, HandshakeDone,
         HandshakeFails, Return, Throw, TornDown, Deactivate, Accept, StopLoop, LoopEnds,
         CancelMisses, SeeEof,
         Drained, ClosePort, vars, TypeOK
<1>3. kind'[b] = kind[b] \/ pc[b] \in {"bind", "connect"}
  BY DEF Next, LookupStep, ServerStep, Activate, Lock, FindServer, CheckOptions, Bind,
         FailToBind, Register, FindClient, FindResolved, Connect, FailToConnect, HandshakeDone,
         HandshakeFails, Return, Throw, TornDown, Deactivate, Accept, StopLoop, LoopEnds,
         CancelMisses, SeeEof,
         Drained, ClosePort, vars, TypeOK
<1>4. QED
  BY <1>1, <1>2, <1>3

\* What moves a connector is a step of its own.
LEMMA OwnSteps ==
    ASSUME TypeOK, BusInv, [Next]_vars, NEW b \in Connectors, pc'[b] # pc[b]
    PROVE  \/ \E w \in Wishes : Activate(b, w)
           \/ Lock(b) \/ LookupStep(b) \/ Deactivate(b)
<1>1. ASSUME NEW c \in Connectors,
             \/ \E w \in Wishes : Activate(c, w)
             \/ Lock(c) \/ LookupStep(c) \/ Deactivate(c)
      PROVE  c = b
  <2>1. CASE FindServer(c) \/ FindClient(c) \/ FindResolved(c)
    BY <2>1, FindServerSearches, FindClientSearches DEF Searched, TypeOK
  <2>2. CASE CheckOptions(c) \/ Deactivate(c) \/ TornDown(c)
    BY <2>2 DEF CheckOptions, Deactivate, TornDown, Drop, Goto, TypeOK
  <2>3. CASE \/ \E w \in Wishes : Activate(c, w)
             \/ Lock(c) \/ Bind(c) \/ FailToBind(c) \/ Register(c) \/ Connect(c)
             \/ FailToConnect(c) \/ HandshakeDone(c) \/ HandshakeFails(c) \/ Return(c) \/ Throw(c)
    BY <2>3 DEF Activate, Lock, Bind, FailToBind, Register, Connect, FailToConnect,
                HandshakeDone, HandshakeFails, Return, Throw, Goto, TypeOK
  <2>4. QED
    BY <1>1, <2>1, <2>2, <2>3 DEF LookupStep
<1>2. ~UNCHANGED vars /\ \A s \in Connectors : ~ServerStep(s)
  BY DEF vars, ServerStep, Accept, StopLoop, LoopEnds, CancelMisses, SeeEof, Drained, ClosePort
<1>3. QED
  BY <1>1, <1>2 DEF Next

LEMMA RegisterStep ==
    ASSUME TypeOK, BusInv, [Next]_vars, NEW b \in Connectors, pc[b] = "register", pc'[b] # pc[b]
    PROVE  Register(b)
BY OwnSteps DEF LookupStep, Activate, Lock, FindServer, CheckOptions, Bind, FailToBind,
                FindClient, FindResolved, Connect, FailToConnect, HandshakeDone, HandshakeFails,
                Return, Throw, TornDown, Deactivate

LEMMA AliveIsMade ==
    ASSUME BusInv, NEW b \in Connectors, Alive(b)
    PROVE  kind[b] # "none" /\ pc[b] # "idle" /\ wish[b] \in Wishes
BY NoneAssumption DEF BusInv, BusOf, Alive, Looking

-----------------------------------------------------------------------------
(* The caches know every bus *)

Key(b) == wish[b].host

\* The weak pointer to a bus that is alive is in its cache, but for the server
\* whose lookup is about to put it there.
CacheOf(b) ==
    /\ kind[b] = "client" => InCache(clients[Process(b)], Key(b), b)
    /\ kind[b] = "server" /\ pc[b] # "register" => InCache(servers[Process(b)], Key(b), b)

\* A lookup that is about to create a bus has found none.
ClientMissing(c) ==
    \A b \in Connectors :
        Alive(b) /\ Process(b) = Process(c) /\ kind[b] = "client" => Key(b) # Key(c)
ServerMissing(c) ==
    \A b \in Connectors \ {c} :
        Alive(b) /\ Process(b) = Process(c) /\ kind[b] = "server" => Key(b) # Key(c)

CacheInv ==
    /\ \A b \in Connectors : Alive(b) => CacheOf(b)
    /\ \A c \in Connectors : /\ pc[c] = "connect" => ClientMissing(c)
                             /\ pc[c] \in {"bind", "register"} => ServerMissing(c)

FactoryInv == TypeOK /\ MutexInv /\ OwnInv /\ BusInv /\ CacheInv

\* Entries of the client cache that stay
LEMMA ClientEntryStays ==
    ASSUME FactoryInv, [Next]_vars, NEW b \in Connectors, Alive(b), kind[b] = "client"
    PROVE  InCache(clients'[Process(b)], Key(b), b)
<1>1. TypeOK /\ OwnInv /\ BusInv /\ CacheInv /\ Process(b) \in Processes
  BY ProcessIn DEF FactoryInv
<1>2. InCache(clients[Process(b)], Key(b), b)
  BY <1>1 DEF CacheInv, CacheOf
<1>3. ASSUME NEW c \in Connectors, FindClient(c) \/ FindResolved(c)
      PROVE  InCache(clients'[Process(b)], Key(b), b)
  <2>1. clients' = clients \/ Kept(clients, clients')
    BY <1>1, <1>3, FindClientSearches DEF Searched
  <2>2. QED
    BY <1>1, <1>2, <2>1 DEF Kept
<1>4. ASSUME NEW c \in Connectors, Connect(c)
      PROVE  InCache(clients'[Process(b)], Key(b), b)
  <2>1. clients' = Remember(clients, c, Key(c)) /\ pc[c] = "connect"
    BY <1>4 DEF Connect, Key
  <2>2. clients \in Caches /\ Key(c) \in Hosts
    BY <1>1, <2>1, Wished DEF TypeOK, Caches, Key
  <2>3. Process(b) = Process(c) => Key(b) # Key(c)
    BY <1>1, <2>1 DEF CacheInv, ClientMissing
  <2>4. InCache(Remember(clients, c, Key(c))[Process(b)], Key(b), b)
    BY <1>1, <1>2, <2>2, <2>3, EnteredBeside
  <2>5. QED
    BY <2>1, <2>4
<1>5. CASE UNCHANGED clients
  BY <1>2, <1>5
<1>6. QED
  BY <1>1, <1>3, <1>4, <1>5, FindServerSearches
     DEF Next, LookupStep, ServerStep, Activate, Lock, CheckOptions, Bind, FailToBind,
         Register, FailToConnect, HandshakeDone, HandshakeFails, Return, Throw, TornDown,
         Deactivate, Accept, StopLoop, LoopEnds, CancelMisses, SeeEof, Drained, ClosePort, vars

\* Entries of the server cache that stay
LEMMA ServerEntryStays ==
    ASSUME FactoryInv, [Next]_vars, NEW b \in Connectors, Alive(b), kind[b] = "server",
           pc[b] # "register"
    PROVE  InCache(servers'[Process(b)], Key(b), b)
<1>1. TypeOK /\ OwnInv /\ BusInv /\ CacheInv /\ Process(b) \in Processes
  BY ProcessIn DEF FactoryInv
<1>2. InCache(servers[Process(b)], Key(b), b)
  BY <1>1 DEF CacheInv, CacheOf
<1>3. ASSUME NEW c \in Connectors, FindServer(c)
      PROVE  InCache(servers'[Process(b)], Key(b), b)
  <2>1. servers' = servers \/ Kept(servers, servers')
    BY <1>1, <1>3, FindServerSearches DEF Searched
  <2>2. QED
    BY <1>1, <1>2, <2>1 DEF Kept
<1>4. ASSUME NEW c \in Connectors, Register(c)
      PROVE  InCache(servers'[Process(b)], Key(b), b)
  <2>1. servers' = Remember(servers, c, Key(c)) /\ pc[c] = "register" /\ b # c
    BY <1>4 DEF Register, Key
  <2>2. servers \in Caches /\ Key(c) \in Hosts
    BY <1>1, <2>1, Wished DEF TypeOK, Caches, Key
  <2>3. Process(b) = Process(c) => Key(b) # Key(c)
    BY <1>1, <2>1 DEF CacheInv, ServerMissing
  <2>4. InCache(Remember(servers, c, Key(c))[Process(b)], Key(b), b)
    BY <1>1, <1>2, <2>2, <2>3, EnteredBeside
  <2>5. QED
    BY <2>1, <2>4
<1>5. CASE UNCHANGED servers
  BY <1>2, <1>5
<1>6. QED
  BY <1>1, <1>3, <1>4, <1>5, FindClientSearches
     DEF Next, LookupStep, ServerStep, Activate, Lock, CheckOptions, Bind, FailToBind,
         Connect, FailToConnect, HandshakeDone, HandshakeFails, Return, Throw, TornDown,
         Deactivate, Accept, StopLoop, LoopEnds, CancelMisses, SeeEof, Drained, ClosePort, vars

LEMMA CacheOfNext ==
    ASSUME FactoryInv, [Next]_vars, NEW b \in Connectors, Alive(b)'
    PROVE  CacheOf(b)'
<1>1. TypeOK /\ OwnInv /\ BusInv /\ CacheInv
  BY DEF FactoryInv
<1>2. CASE Bind(b) /\ pc'[b] = "register"
  BY <1>1, <1>2 DEF CacheOf, Bind, TypeOK
<1>3. CASE Connect(b)
  <2>1. clients' = Remember(clients, b, Key(b)) /\ wish' = wish /\ pc[b] = "connect"
        /\ kind'[b] = "client"
    BY <1>1, <1>3 DEF Connect, Key, TypeOK
  <2>2. clients \in Caches /\ Key(b) \in Hosts
    BY <1>1, <2>1, Wished DEF TypeOK, Caches, Key
  <2>3. InCache(clients'[Process(b)], Key(b), b)
    BY <2>1, <2>2, Entered
  <2>4. QED
    BY <2>1, <2>3 DEF CacheOf, Key
<1>4. CASE Alive(b)
  <2>1. kind[b] # "none" /\ kind'[b] = kind[b] /\ wish'[b] = wish[b] /\ pc[b] # "idle"
    BY <1>1, <1>4, AliveIsMade, Stays
  <2>2. Key(b)' = Key(b)
    BY <2>1 DEF Key
  <2>3. kind'[b] = "client" => InCache(clients'[Process(b)], Key(b), b)
    BY <1>4, <2>1, ClientEntryStays
  <2>4. kind'[b] = "server" /\ pc[b] # "register"
           => InCache(servers'[Process(b)], Key(b), b)
    BY <1>4, <2>1, ServerEntryStays
  <2>5. pc[b] = "register" /\ pc'[b] # "register"
           => InCache(servers'[Process(b)], Key(b), b)
    <3>1. SUFFICES ASSUME pc[b] = "register", pc'[b] # "register"
                   PROVE  InCache(servers'[Process(b)], Key(b), b)
      OBVIOUS
    <3>2. Register(b)
      BY <1>1, <3>1, RegisterStep
    <3>3. servers' = Remember(servers, b, Key(b))
      BY <3>2 DEF Register, Key
    <3>4. servers \in Caches /\ Key(b) \in Hosts
      BY <1>1, <3>1, Wished DEF TypeOK, Caches, Key
    <3>5. QED
      BY <3>3, <3>4, Entered
  <2>6. QED
    BY <2>2, <2>3, <2>4, <2>5 DEF CacheOf
<1>5. QED
  BY <1>1, <1>2, <1>3, <1>4, AliveBefore

\* Two lookups of one process are not both between miss and return.
LEMMA OneLookup ==
    ASSUME MutexInv, NEW b \in Connectors, NEW c \in Connectors, Process(b) = Process(c),
           pc[b] \in Holding, pc[c] \in Holding
    PROVE  b = c
BY DEF MutexInv

LEMMA ClientMissingNext ==
    ASSUME FactoryInv, [Next]_vars, NEW c \in Connectors, pc'[c] = "connect"
    PROVE  ClientMissing(c)'
<1>1. TypeOK /\ MutexInv /\ OwnInv /\ BusInv /\ CacheInv
  BY DEF FactoryInv
<1>2. pc[c] # "connect" => FindResolved(c)
  <2>1. SUFFICES ASSUME pc[c] # "connect" PROVE FindResolved(c)
    OBVIOUS
  <2>2. \/ \E w \in Wishes : Activate(c, w)
        \/ Lock(c) \/ LookupStep(c) \/ Deactivate(c)
    BY <1>1, <2>1, OwnSteps
  <2>3. ~(FindServer(c) \/ FindClient(c))
    BY <1>1, FindServerSearches, FindClientSearches DEF Searched, FindClient, FindResolved, TypeOK
  <2>4. AfterDrop(c) # "connect"
    BY DEF AfterDrop
  <2>5. ~(CheckOptions(c) \/ Deactivate(c) \/ TornDown(c))
    BY <1>1, <2>4 DEF CheckOptions, Deactivate, TornDown, Drop, Goto, TypeOK
  <2>6. QED
    BY <1>1, <2>1, <2>2, <2>3, <2>5
       DEF LookupStep, Activate, Lock, Bind, FailToBind, Register, Connect, FailToConnect,
           HandshakeDone, HandshakeFails, Return, Throw, Goto, TypeOK
<1>3. pc[c] \in {"connect", "findResolved"} /\ wish'[c] = wish[c]
  BY <1>1, <1>2, Stays DEF FindResolved
<1>4. ASSUME NEW b \in Connectors, Alive(b)', Process(b) = Process(c), kind'[b] = "client"
      PROVE  Alive(b) /\ kind[b] = "client" /\ wish'[b] = wish[b]
  <2>1. ~Bind(b) /\ ~(Connect(b) /\ pc'[b] = "handshake")
    BY <1>1, <1>3, <1>4, OneLookup DEF Bind, Connect, Holding, Looking, Goto, TypeOK
  <2>2. Alive(b)
    BY <1>1, <1>4, <2>1, AliveBefore
  <2>3. QED
    BY <1>1, <1>4, <2>2, AliveIsMade, Stays
<1>5. ClientMissing(c)
  <2>1. CASE pc[c] = "connect"
    BY <1>1, <2>1 DEF CacheInv
  <2>2. CASE pc[c] # "connect"
    <3>1. Searched(c, clients, clients', Key(c), "connect") /\ FindResolved(c)
      BY <1>1, <1>2, <2>2, FindClientSearches DEF Key, FindClient, FindResolved
    <3>2. ~Hit(c, clients, Key(c))
      BY <1>1, <3>1 DEF Searched, TypeOK
    <3>3. QED
      BY <1>1, <3>2 DEF ClientMissing, CacheInv, CacheOf, InCache, Hit
  <2>3. QED
    BY <2>1, <2>2
<1>6. QED
  BY <1>3, <1>4, <1>5 DEF ClientMissing, Key

LEMMA ServerMissingNext ==
    ASSUME FactoryInv, [Next]_vars, NEW c \in Connectors, pc'[c] \in {"bind", "register"}
    PROVE  ServerMissing(c)'
<1>1. TypeOK /\ MutexInv /\ OwnInv /\ BusInv /\ CacheInv
  BY DEF FactoryInv
<1>2. pc[c] \notin {"bind", "register"} => FindServer(c)
  <2>1. SUFFICES ASSUME pc[c] \notin {"bind", "register"} PROVE FindServer(c)
    OBVIOUS
  <2>2. \/ \E w \in Wishes : Activate(c, w)
        \/ Lock(c) \/ LookupStep(c) \/ Deactivate(c)
    BY <1>1, <2>1, OwnSteps
  <2>3. ~(FindClient(c) \/ FindResolved(c))
    BY <1>1, FindClientSearches DEF Searched, FindClient, FindResolved, TypeOK
  <2>4. AfterDrop(c) \notin {"bind", "register"}
    BY DEF AfterDrop
  <2>5. ~(CheckOptions(c) \/ Deactivate(c) \/ TornDown(c))
    BY <1>1, <2>4 DEF CheckOptions, Deactivate, TornDown, Drop, Goto, TypeOK
  <2>6. QED
    BY <1>1, <2>1, <2>2, <2>3, <2>5
       DEF LookupStep, Activate, Lock, Bind, FailToBind, Register, Connect, FailToConnect,
           HandshakeDone, HandshakeFails, Return, Throw, Goto, TypeOK
<1>3. pc[c] \in {"bind", "register", "findServer"} /\ wish'[c] = wish[c]
  BY <1>1, <1>2, Stays DEF FindServer
<1>4. ASSUME NEW b \in Connectors \ {c}, Alive(b)', Process(b) = Process(c), kind'[b] = "server"
      PROVE  Alive(b) /\ kind[b] = "server" /\ wish'[b] = wish[b] /\ pc[b] # "register"
  <2>1. ~Bind(b) /\ ~Connect(b) /\ pc[b] # "register"
    BY <1>1, <1>3, <1>4, OneLookup DEF Bind, Connect, Holding, Looking
  <2>2. Alive(b)
    BY <1>1, <1>4, <2>1, AliveBefore
  <2>3. QED
    BY <1>1, <1>4, <2>1, <2>2, AliveIsMade, Stays
<1>5. ASSUME NEW b \in Connectors \ {c}, Alive(b), Process(b) = Process(c), kind[b] = "server",
             pc[b] # "register"
      PROVE  Key(b) # Key(c)
  <2>1. CASE pc[c] \in {"bind", "register"}
    BY <1>1, <1>5, <2>1 DEF CacheInv, ServerMissing
  <2>2. CASE pc[c] \notin {"bind", "register"}
    <3>1. Searched(c, servers, servers', Key(c), "bind") /\ FindServer(c)
      BY <1>1, <1>2, <2>2, FindServerSearches DEF Key
    <3>2. ~Hit(c, servers, Key(c))
      BY <1>1, <3>1 DEF Searched, TypeOK
    <3>3. QED
      BY <1>1, <1>5, <3>2 DEF CacheInv, CacheOf, InCache, Hit
  <2>3. QED
    BY <2>1, <2>2
<1>6. QED
  BY <1>3, <1>4, <1>5 DEF ServerMissing, Key

LEMMA CacheNext == FactoryInv /\ [Next]_vars => CacheInv'
<1> SUFFICES ASSUME FactoryInv, [Next]_vars PROVE CacheInv'
  OBVIOUS
<1>1. \A b \in Connectors : Alive(b)' => CacheOf(b)'
  BY CacheOfNext
<1>2. \A c \in Connectors : /\ pc'[c] = "connect" => ClientMissing(c)'
                            /\ pc'[c] \in {"bind", "register"} => ServerMissing(c)'
  BY ClientMissingNext, ServerMissingNext
<1>3. QED
  BY <1>1, <1>2 DEF CacheInv

LEMMA FactoryInit == Init => FactoryInv
<1> SUFFICES ASSUME Init PROVE FactoryInv
  OBVIOUS
<1>1. TypeOK
  BY TypeInit
<1>2. \A c \in Connectors : pc[c] = "idle" /\ kind[c] = "none" /\ bus[c] = None
  BY DEF Init
<1>3. MutexInv
  BY <1>2, ProcessIn, NoneAssumption DEF Init, MutexInv, Holding, Looking
<1>4. OwnInv
  BY DEF Init, OwnInv, OwnEntries, InCache
<1>5. BusInv
  BY <1>2 DEF BusInv, BusOf, Looking
<1>6. CacheInv
  BY <1>2, NoneAssumption DEF CacheInv, Alive
<1>7. QED
  BY <1>1, <1>3, <1>4, <1>5, <1>6 DEF FactoryInv

LEMMA FactoryNext == FactoryInv /\ [Next]_vars => FactoryInv'
BY TypeNext, MutexNext, OwnNext, BusNext, CacheNext DEF FactoryInv

\* The state of the factory, its buses and connectors keeps its type
\* (Factory.h, ConnectorBase.h).
THEOREM TypeCorrect == Spec => []TypeOK
<1>1. FactoryInv => TypeOK
  BY DEF FactoryInv
<1>2. QED
  BY <1>1, FactoryInit, FactoryNext, PTL DEF Spec

-----------------------------------------------------------------------------
(* Buses are shared and connected *)

LEMMA Shared == FactoryInv => SharedBus
<1> SUFFICES ASSUME FactoryInv,
                    NEW b \in Connectors, NEW d \in Connectors, Alive(b), Alive(d),
                    Process(b) = Process(d), kind[b] = kind[d], wish[b].host = wish[d].host
             PROVE  b = d
  BY DEF SharedBus
<1>1. TypeOK /\ MutexInv /\ BusInv /\ CacheInv
  BY DEF FactoryInv
<1>2. CASE kind[b] = "client"
  BY <1>1, <1>2 DEF CacheInv, CacheOf, InCache, Key
<1>3. CASE kind[b] = "server"
  <2>1. Key(b) = Key(d)
    BY DEF Key
  <2>2. CASE pc[b] = "register" \/ pc[d] = "register"
    <3>1. \A x, y \in Connectors : Alive(y) /\ Process(y) = Process(x) /\ kind[y] = "server"
             /\ pc[x] = "register" /\ Key(x) = Key(y) => x = y
      BY <1>1 DEF CacheInv, ServerMissing
    <3>2. QED
      BY <1>3, <2>1, <2>2, <3>1
  <2>3. CASE pc[b] # "register" /\ pc[d] # "register"
    <3>1. /\ InCache(servers[Process(b)], Key(b), b)
          /\ InCache(servers[Process(d)], Key(d), d)
      BY <1>1, <1>3, <2>3 DEF CacheInv, CacheOf
    <3>2. QED
      BY <2>1, <3>1 DEF InCache
  <2>4. QED
    BY <2>2, <2>3
<1>4. kind[b] \in {"client", "server"}
  BY <1>1, AliveIsMade DEF TypeOK
<1>5. QED
  BY <1>2, <1>3, <1>4

\* A client bus that is alive has been through the handshake, or its lookup
\* waits for that; nobody has shut it down.
ConnInv ==
    \A b \in Connectors :
        Alive(b) /\ kind[b] = "client" /\ pc[b] # "handshake" => conn[b] \in {"open", "ended"}

LEMMA ConnNext == FactoryInv /\ ConnInv /\ [Next]_vars => ConnInv'
<1> SUFFICES ASSUME FactoryInv, ConnInv, [Next]_vars, NEW b \in Connectors,
                    Alive(b)', kind'[b] = "client", pc'[b] # "handshake"
             PROVE  conn'[b] \in {"open", "ended"}
  BY DEF ConnInv
<1>1. TypeOK /\ OwnInv /\ BusInv
  BY DEF FactoryInv
<1>2. Alive(b) /\ kind[b] = "client"
  <2>1. ~(Bind(b) /\ pc'[b] = "register")
    BY <1>1 DEF Bind, TypeOK
  <2>2. Alive(b)
    BY <1>1, <2>1, AliveBefore
  <2>3. QED
    BY <1>1, <2>2, AliveIsMade, Stays
<1>3. CASE pc[b] = "handshake"
  <2>1. HandshakeDone(b) \/ HandshakeFails(b)
    BY <1>1, <1>3, OwnSteps DEF LookupStep, Activate, Lock, FindServer, CheckOptions, Bind,
         FailToBind, Register, FindClient, FindResolved, Connect, FailToConnect, Return, Throw,
         TornDown, Deactivate
  <2>2. ~HandshakeFails(b)
    BY <1>1, <1>3, NoneAssumption DEF HandshakeFails, Alive, BusInv, BusOf, TypeOK
  <2>3. QED
    BY <2>1, <2>2 DEF HandshakeDone
<1>4. CASE pc[b] # "handshake"
  <2>1. conn[b] \in {"open", "ended"}
    BY <1>2, <1>4 DEF ConnInv
  <2>2. ASSUME NEW c \in Connectors, CheckOptions(c) \/ Deactivate(c)
        PROVE  conn'[b] = conn[b]
    <3>1. pc[c] \in {"found", "active"} /\ bus[c] # None
      BY <1>1, <2>2 DEF CheckOptions, Deactivate, BusInv, BusOf
    <3>2. conn' = conn \/ Drop(c)
      BY <2>2 DEF CheckOptions, Deactivate
    <3>3. ASSUME Drop(c), conn'[b] # conn[b] PROVE FALSE
      <4>1. /\ pc' = [pc EXCEPT ![c] = AfterDrop(c)] /\ bus' = [bus EXCEPT ![c] = None]
            /\ \A d \in Connectors \ {c} : bus[d] # b \/ pc[d] = "tearing"
        BY <1>1, <3>1, <3>3, LetGo
      <4>2. QED
        BY <1>1, <4>1, NoneAssumption DEF Alive, TypeOK
    <3>4. QED
      BY <3>2, <3>3
  <2>3. ASSUME NEW c \in Connectors, Connect(c) PROVE conn'[b] = conn[b]
    <3>1. kind[c] = "none"
      BY <1>1, <2>3 DEF Connect, BusInv, BusOf, Looking
    <3>2. QED
      BY <1>1, <1>2, <2>3, <3>1 DEF Connect, TypeOK
  <2>4. ASSUME NEW s \in Connectors, ServerStep(s) PROVE conn'[b] \in {"open", "ended"}
    BY <1>1, <2>1, <2>4 DEF ServerStep, Accept, StopLoop, LoopEnds, CancelMisses, SeeEof,
                            Drained, ClosePort, ClientsOf, TypeOK
  <2>5. CASE UNCHANGED conn
    BY <2>1, <2>5
  <2>6. QED
    BY <1>1, <2>1, <2>2, <2>3, <2>4, <2>5, FindServerSearches, FindClientSearches
       DEF Next, LookupStep, Activate, Lock, Bind, FailToBind, Register, FailToConnect,
           HandshakeDone, HandshakeFails, Return, Throw, TornDown, vars
<1>5. QED
  BY <1>3, <1>4

LEMMA Connected == FactoryInv /\ ConnInv => HandshakeBeforeUse
<1> SUFFICES ASSUME FactoryInv, ConnInv, NEW c \in Connectors,
                    pc[c] = "active", kind[bus[c]] = "client"
             PROVE  conn[bus[c]] \in {"open", "ended"}
  BY DEF HandshakeBeforeUse
<1>1. bus[c] \in Connectors /\ Alive(bus[c])
  BY DEF FactoryInv, TypeOK, BusInv, BusOf, Alive
<1>2. pc[bus[c]] # "handshake"
  BY <1>1 DEF FactoryInv, BusInv, BusOf
<1>3. QED
  BY <1>1, <1>2 DEF ConnInv

\* However lookups, failures and destructors of one process and its peers
\* interleave, the connectors of a process that ask for one host name and port
\* share one client bus and one server, and none works with a bus before its
\* handshake although the cache has it earlier (Factory.cpp:67, :150;
\* BusConnection.cpp:81).
THEOREM BusesStayFit == Spec => []BusesAreFit
<1>1. Init => ConnInv
  BY NoneAssumption DEF Init, ConnInv, Alive
<1>2. FactoryInv /\ ConnInv => BusesAreFit
  BY Shared, Connected DEF BusesAreFit
<1>3. QED
  BY <1>1, <1>2, FactoryInit, FactoryNext, ConnNext, PTL DEF Spec
=============================================================================
