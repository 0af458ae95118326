--------------------------- MODULE TransportsProofs ---------------------------
(***************************************************************************)
(* Proofs about the in-process bus (InprocessBus), for any connectors and  *)
(* scopes, and about participants over several transports (Routes), for    *)
(* any transports, threads and sequence numbers.                           *)
(***************************************************************************)
EXTENDS InprocessBus, Routes, TLAPS, FiniteSetTheorems, WellFoundedInduction

-----------------------------------------------------------------------------
(***************************************************************************)
(* Covers is a partial order's "<=" read off component by component.  The  *)
(* lists gathered from super-scopes are right because it is transitive.    *)
(***************************************************************************)
LEMMA CoversTransitive ==
    ASSUME NEW s \in Scopes, NEW t \in Scopes, NEW u \in Scopes,
           Covers(s, t), Covers(t, u)
    PROVE  Covers(s, u)
<1>1. /\ s \in Seq(STRING) /\ t \in Seq(STRING) /\ u \in Seq(STRING)
  BY ScopesAssumption
<1>2. CASE s = t \/ t = u
  BY <1>2
<1>3. CASE IsSuperScopeOf(s, t) /\ IsSuperScopeOf(t, u)
  BY <1>1, <1>3 DEF Covers, IsSuperScopeOf
<1> QED
  BY <1>2, <1>3 DEF Covers

\* addSink pushes onto sub-scopes, handle gathers from super-scopes: the two
\* directions, written as separate loops in Scope.cpp, are converses.
LEMMA SubIsConverseOfSuper ==
    ASSUME NEW s \in Scopes, NEW t \in Scopes
    PROVE  IsSubScopeOf(t, s) <=> IsSuperScopeOf(s, t)
BY ScopesAssumption DEF IsSubScopeOf, IsSuperScopeOf

(***************************************************************************)
(* Any enumeration of a set of connectors is a list of exactly those       *)
(* connectors, without repetition.                                         *)
(***************************************************************************)
LEMMA OrderingsLists ==
    ASSUME NEW C \in SUBSET Connectors, NEW L \in Orderings(C)
    PROVE  L \in SinkLists /\ Range(L) = C /\ IsInjective(L)
<1>1. IsFiniteSet(C)
  BY ConnectorsAssumption, FS_Subset
<1>2. Cardinality(C) \in Nat
  BY <1>1, FS_CardinalityType
<1> QED
  BY <1>2 DEF Orderings, SinkLists

\* The list position at which removeSink's search stops exists.
LEMMA LeastNatural ==
    ASSUME NEW T \in SUBSET Nat, T # {}
    PROVE  \E x \in T : \A y \in T : x <= y
<1> DEFINE R == OpToRel(<, Nat)
<1>1. R = {ss \in Nat \X Nat : ss[1] < ss[2]}
  BY DEF OpToRel
<1>2. IsWellFoundedOn(R, Nat)
  BY NatLessThanWellFounded
<1> HIDE DEF R
<1>3. PICK x \in T : \A y \in T : ~ (<<y, x>> \in R)
  BY <1>2, WFMin
<1>4. \A y \in T : ~ (y < x)
  BY <1>1, <1>3
<1> QED
  BY <1>4

(***************************************************************************)
(* What one pass of removeSink does to a list.                             *)
(***************************************************************************)
LEMMA EraseFirstList ==
    ASSUME NEW L \in SinkLists, NEW c \in Connectors
    PROVE  /\ EraseFirst(L, c) \in SinkLists
           /\ Range(EraseFirst(L, c)) \subseteq Range(L)
           /\ \A d \in Range(L) : d # c /\ ~Dangling(d) =>
                  d \in Range(EraseFirst(L, c))
           /\ IsInjective(L) => IsInjective(EraseFirst(L, c))
           /\ IsInjective(L) /\ (\A d \in Range(L) : ~Dangling(d)) =>
                  c \notin Range(EraseFirst(L, c))
<1> DEFINE Hit(i) == Dangling(L[i]) \/ L[i] = c
<1>1. CASE ~ \E i \in DOMAIN L : Hit(i)
  <2>1. EraseFirst(L, c) = L
    BY <1>1 DEF EraseFirst
  <2> QED
    BY <1>1, <2>1 DEF Range
<1>2. CASE \E i \in DOMAIN L : Hit(i)
  <2> DEFINE H == {i \in DOMAIN L : Hit(i)}
             n == CHOOSE i \in DOMAIN L :
                     Hit(i) /\ \A j \in DOMAIN L : Hit(j) => i <= j
             E == [i \in 1..(Len(L) - 1) |-> IF i < n THEN L[i] ELSE L[i + 1]]
  <2>1. DOMAIN L = 1..Len(L) /\ Len(L) \in Nat
    BY DEF SinkLists
  <2>2. \E i \in DOMAIN L : Hit(i) /\ \A j \in DOMAIN L : Hit(j) => i <= j
    <3>1. H \in SUBSET Nat /\ H # {}
      BY <1>2, <2>1
    <3>2. \E i \in H : \A j \in H : i <= j
      BY <3>1, LeastNatural
    <3> QED
      BY <3>2
  <2>3. n \in DOMAIN L /\ Hit(n) /\ \A j \in DOMAIN L : Hit(j) => n <= j
    BY <2>2
  <2>4. EraseFirst(L, c) = E
    BY <1>2 DEF EraseFirst
  <2> HIDE DEF n
  <2>5. E \in SinkLists
    BY <2>1, <2>3 DEF SinkLists
  <2>6. Range(E) \subseteq Range(L)
    BY <2>1, <2>3 DEF Range
  <2>7. ASSUME NEW d \in Range(L), d # c, ~Dangling(d)
        PROVE  d \in Range(E)
    <3>1. PICK k \in DOMAIN L : L[k] = d
      BY DEF Range
    <3>2. k # n
      BY <2>3, <2>7, <3>1
    <3>3. CASE k < n
      BY <2>1, <2>3, <3>1, <3>3 DEF Range
    <3>4. CASE k > n
      <4>1. k - 1 \in DOMAIN E /\ E[k - 1] = d
        BY <2>1, <2>3, <3>1, <3>4
      <4> QED
        BY <4>1 DEF Range
    <3> QED
      BY <2>1, <2>3, <3>2, <3>3, <3>4
  <2>8. IsInjective(L) => IsInjective(E)
    BY <2>1, <2>3 DEF IsInjective
  <2>9. ASSUME IsInjective(L), \A d \in Range(L) : ~Dangling(d)
        PROVE  c \notin Range(E)
    <3>1. L[n] = c
      BY <2>3, <2>9 DEF Range
    <3>2. ASSUME NEW i \in DOMAIN E, E[i] = c
          PROVE  FALSE
      <4>1. \E k \in DOMAIN L : k # n /\ L[k] = c
        BY <2>1, <2>3, <3>2
      <4> QED
        BY <2>3, <2>9, <3>1, <4>1 DEF IsInjective
    <3> QED
      BY <3>2 DEF Range
  <2> QED
    BY <2>4, <2>5, <2>6, <2>7, <2>8, <2>9
<1> QED
  BY <1>1, <1>2

-----------------------------------------------------------------------------
(***************************************************************************)
(* The list an entry gets when it is created, or already has.              *)
(***************************************************************************)
LEMMA WithEntryMap ==
    ASSUME TypeOK, NEW s \in Scopes, NEW S \in WithEntry(s)
    PROVE  /\ DOMAIN S = DOMAIN sinks \cup {s}
           /\ S \in [DOMAIN S -> SinkLists]
           /\ \A t \in DOMAIN sinks : S[t] = sinks[t]
           /\ s \notin DOMAIN sinks =>
                  Range(S[s]) = Inherited(s) /\ IsInjective(S[s])
<1>1. CASE s \in DOMAIN sinks
  BY <1>1 DEF WithEntry, TypeOK
<1>2. CASE s \notin DOMAIN sinks
  <2>1. Inherited(s) \in SUBSET Connectors
    BY DEF Inherited, TypeOK, SinkLists, Range
  <2>2. PICK L \in Orderings(Inherited(s)) :
           S = [t \in DOMAIN sinks \cup {s} |-> IF t = s THEN L ELSE sinks[t]]
    BY <1>2 DEF WithEntry
  <2>3. L \in SinkLists /\ Range(L) = Inherited(s) /\ IsInjective(L)
    BY <2>1, OrderingsLists
  <2> QED
    BY <1>2, <2>2, <2>3 DEF TypeOK
<1> QED
  BY <1>1, <1>2

LEMMA AddedSinks ==
    ASSUME TypeOK, NEW c \in Connectors, AddSink(c)
    PROVE  \E S \in WithEntry(scope[c]) :
             /\ DOMAIN S \subseteq Scopes
             /\ DOMAIN sinks' = DOMAIN S
             /\ \A t \in DOMAIN S :
                  /\ sinks'[t] \in SinkLists
                  /\ Covers(scope[c], t) =>
                        /\ sinks'[t] = Append(S[t], c)
                        /\ Range(sinks'[t]) = Range(S[t]) \cup {c}
                  /\ ~Covers(scope[c], t) => sinks'[t] = S[t]
<1>0. scope[c] \in Scopes
  BY DEF TypeOK
<1>1. PICK S \in WithEntry(scope[c]) :
         sinks' = [t \in DOMAIN S |-> IF t = scope[c] \/ IsSubScopeOf(t, scope[c])
                                      THEN Append(S[t], c) ELSE S[t]]
  BY DEF AddSink
<1>2. S \in [DOMAIN S -> SinkLists] /\ DOMAIN S \subseteq Scopes
  <2>1. S \in [DOMAIN S -> SinkLists] /\ DOMAIN S = DOMAIN sinks \cup {scope[c]}
    BY <1>0, WithEntryMap
  <2> QED
    BY <1>0, <2>1 DEF TypeOK
<1>3. ASSUME NEW t \in DOMAIN S
      PROVE  /\ sinks'[t] \in SinkLists
             /\ Covers(scope[c], t) =>
                    /\ sinks'[t] = Append(S[t], c)
                    /\ Range(sinks'[t]) = Range(S[t]) \cup {c}
             /\ ~Covers(scope[c], t) => sinks'[t] = S[t]
  <2>1. Covers(scope[c], t) <=> t = scope[c] \/ IsSubScopeOf(t, scope[c])
    BY <1>0, <1>2, SubIsConverseOfSuper DEF Covers
  <2>2. S[t] \in SinkLists
    BY <1>2
  <2>3. Append(S[t], c) \in SinkLists
    BY <2>2 DEF SinkLists
  <2>4. Range(Append(S[t], c)) = Range(S[t]) \cup {c}
    BY <2>2 DEF SinkLists, Range
  <2> QED
    BY <1>1, <2>1, <2>2, <2>3, <2>4
<1> QED
  BY <1>1, <1>2, <1>3

LEMMA RemovedSinks ==
    ASSUME TypeOK, NEW c \in Connectors, RemoveSink(c)
    PROVE  /\ DOMAIN sinks' =
                 {s \in DOMAIN sinks : EraseFirst(sinks[s], c) # <<>>}
           /\ \A s \in DOMAIN sinks' :
                 sinks[s] \in SinkLists /\ sinks'[s] = EraseFirst(sinks[s], c)
BY DEF RemoveSink, Restrict, TypeOK

-----------------------------------------------------------------------------
(***************************************************************************)
(* Type correctness.                                                       *)
(***************************************************************************)
LEMMA DeliveriesType ==
    ASSUME NEW L \in SinkLists, NEW c \in Connectors
    PROVE  Deliveries(L, c) \in Nat
<1>1. IsFiniteSet(DOMAIN L)
  BY FS_Interval DEF SinkLists
<1>2. IsFiniteSet({i \in DOMAIN L : L[i] = c /\ ~Dangling(c)})
  BY <1>1, FS_Subset
<1> QED
  BY <1>2, FS_CardinalityType DEF Deliveries

LEMMA TypeInit == Init => TypeOK
BY MaxEventsAssumption DEF Init, TypeOK

LEMMA TypeNext == TypeOK /\ [Next]_vars => TypeOK'
<1> SUFFICES ASSUME TypeOK, [Next]_vars PROVE TypeOK'
  OBVIOUS
<1>1. ASSUME NEW c \in Connectors, NEW s \in Scopes, SetScope(c, s)
      PROVE  TypeOK'
  BY <1>1 DEF SetScope, TypeOK
<1>2. ASSUME NEW c \in Connectors, AddSink(c) PROVE TypeOK'
  <2>1. DOMAIN sinks' \subseteq Scopes /\ \A t \in DOMAIN sinks' : sinks'[t] \in SinkLists
    <3>1. PICK S \in WithEntry(scope[c]) :
             /\ DOMAIN S \subseteq Scopes
             /\ DOMAIN sinks' = DOMAIN S
             /\ \A t \in DOMAIN S : sinks'[t] \in SinkLists
      BY <1>2, AddedSinks
    <3> QED
      BY <3>1
  <2>2. sinks' \in [DOMAIN sinks' -> SinkLists]
    BY <1>2, <2>1 DEF AddSink
  <2> QED
    BY <1>2, <2>1, <2>2 DEF AddSink, TypeOK
<1>3. ASSUME NEW c \in Connectors, MarkActive(c) PROVE TypeOK'
  BY <1>3 DEF MarkActive, TypeOK
<1>4. ASSUME NEW c \in Connectors, MarkInactive(c) PROVE TypeOK'
  BY <1>4 DEF MarkInactive, TypeOK
<1>5. ASSUME NEW c \in Connectors, RemoveSink(c) PROVE TypeOK'
  <2>1. \A t \in DOMAIN sinks' : t \in DOMAIN sinks /\ sinks'[t] \in SinkLists
    <3>1. ASSUME NEW t \in DOMAIN sinks'
          PROVE  t \in DOMAIN sinks /\ sinks[t] \in SinkLists /\ sinks'[t] = EraseFirst(sinks[t], c)
      BY <1>5, RemovedSinks
    <3> QED
      BY <3>1, EraseFirstList
  <2>2. sinks' \in [DOMAIN sinks' -> SinkLists]
    BY <1>5, <2>1 DEF RemoveSink, Restrict
  <2> QED
    BY <1>5, <2>1, <2>2 DEF RemoveSink, TypeOK
<1>6. ASSUME NEW c \in Connectors, Release(c) PROVE TypeOK'
  BY <1>6 DEF Release, TypeOK
<1>7. ASSUME NEW c \in Connectors, Take(c) PROVE TypeOK'
  <2>1. Tail(inbox[c]) \in Seq(Event)
    BY <1>7 DEF Take, TypeOK
  <2> QED
    BY <1>7, <2>1 DEF Take, TypeOK
<1>8. ASSUME NEW s \in Scopes, Publish(s) PROVE TypeOK'
  <2>1. /\ sinks' \in [DOMAIN sinks' -> SinkLists]
        /\ DOMAIN sinks' \subseteq Scopes
        /\ s \in DOMAIN sinks'
    <3>1. sinks' \in WithEntry(s)
      BY <1>8 DEF Publish
    <3>2. sinks' \in [DOMAIN sinks' -> SinkLists] /\ DOMAIN sinks' = DOMAIN sinks \cup {s}
      BY <3>1, WithEntryMap
    <3> QED
      BY <3>2 DEF TypeOK
  <2>2. published' \in 0..MaxEvents
    BY <1>8, MaxEventsAssumption DEF Publish, TypeOK
  <2>3. [id |-> published + 1, scope |-> s] \in Event
    BY <1>8, MaxEventsAssumption DEF Event, TypeOK
  <2>4. ASSUME NEW c \in Connectors
        PROVE  inbox[c] \o [i \in 1..Deliveries(sinks'[s], c) |->
                               [id |-> published + 1, scope |-> s]] \in Seq(Event)
    <3> DEFINE copies == [i \in 1..Deliveries(sinks'[s], c) |->
                             [id |-> published + 1, scope |-> s]]
    <3>1. Deliveries(sinks'[s], c) \in Nat
      BY <2>1, DeliveriesType
    <3>2. copies \in Seq(Event)
      BY <2>3, <3>1
    <3>3. inbox[c] \in Seq(Event)
      BY DEF TypeOK
    <3> QED
      BY <3>2, <3>3
  <2>5. inbox' \in [Connectors -> Seq(Event)]
    BY <1>8, <2>4 DEF Publish
  <2> QED
    BY <1>8, <2>1, <2>2, <2>5 DEF Publish, TypeOK
<1>9. CASE UNCHANGED vars
  BY <1>9 DEF vars, TypeOK
<1> QED
  BY <1>1, <1>2, <1>3, <1>4, <1>5, <1>6, <1>7, <1>8, <1>9 DEF Next, OwnerStep

\* Every variable keeps its type, for all connectors and scopes.
THEOREM TypeCorrect == Spec => []TypeOK
BY TypeInit, TypeNext, PTL DEF Spec

-----------------------------------------------------------------------------
(***************************************************************************)
(* No registered connector is ever missing from a list, whatever owners do *)
(* (ReleaseWhileActive or not).                                            *)
(***************************************************************************)
LossInv == TypeOK /\ LifeCycle /\ NoSinkLost

LEMMA LossInit == Init => LossInv
BY TypeInit DEF Init, LossInv, LifeCycle, NoSinkLost, Registered

\* A list created late by the first event, or the first sink, on a scope
\* inherits every connector that must be in it.
LEMMA EntryKeepsSinks ==
    ASSUME LossInv, NEW s \in Scopes, NEW S \in WithEntry(s),
           NEW c \in Connectors, Registered(c), ~Dangling(c),
           NEW t \in DOMAIN S, Covers(scope[c], t)
    PROVE  c \in Range(S[t])
<1>1. TypeOK /\ scope[c] \in DOMAIN sinks
  BY DEF LossInv, NoSinkLost
<1>2. CASE t \in DOMAIN sinks
  <2>1. S[t] = sinks[t]
    BY <1>1, <1>2, WithEntryMap
  <2> QED
    BY <1>2, <2>1 DEF LossInv, NoSinkLost
<1>3. CASE t \notin DOMAIN sinks
  <2>1. t = s /\ Range(S[s]) = Inherited(s)
    BY <1>1, <1>3, WithEntryMap
  <2>2. Covers(scope[c], scope[c])
    BY DEF Covers
  <2>3. c \in Range(sinks[scope[c]])
    BY <1>1, <2>2 DEF LossInv, NoSinkLost
  <2>4. c \in Inherited(s)
    BY <1>1, <2>1, <2>3 DEF Inherited
  <2> QED
    BY <2>1, <2>4
<1> QED
  BY <1>2, <1>3

LEMMA LossNext == LossInv /\ [Next]_vars => LossInv'
<1> SUFFICES ASSUME LossInv, [Next]_vars PROVE LifeCycle' /\ NoSinkLost'
  BY TypeNext DEF LossInv
<1>0. TypeOK /\ LifeCycle /\ NoSinkLost
  BY DEF LossInv
<1>1. ASSUME NEW c \in Connectors, NEW s \in Scopes, SetScope(c, s)
      PROVE  LifeCycle' /\ NoSinkLost'
  BY <1>0, <1>1 DEF SetScope, Idle, TypeOK, LifeCycle, NoSinkLost, Registered, Dangling
<1>2. ASSUME NEW c \in Connectors, AddSink(c)
      PROVE  LifeCycle' /\ NoSinkLost'
  <2>1. LifeCycle'
    BY <1>0, <1>2 DEF AddSink, Idle, TypeOK, LifeCycle, Registered
  <2>2. PICK S \in WithEntry(scope[c]) :
           /\ DOMAIN sinks' = DOMAIN S
           /\ \A t \in DOMAIN S :
                 /\ Covers(scope[c], t) => Range(sinks'[t]) = Range(S[t]) \cup {c}
                 /\ ~Covers(scope[c], t) => sinks'[t] = S[t]
    BY <1>0, <1>2, AddedSinks
  <2>3. scope[c] \in Scopes
    BY <1>0 DEF TypeOK
  <2>4. DOMAIN S = DOMAIN sinks \cup {scope[c]}
    BY <1>0, <2>3, WithEntryMap
  <2>5. UNCHANGED <<scope, active, ref>> /\ call' = [call EXCEPT ![c] = "added"]
    BY <1>2 DEF AddSink
  <2>6. ASSUME NEW d \in Connectors, Registered(d)', ~Dangling(d)'
        PROVE  /\ scope[d] \in DOMAIN S
               /\ \A t \in DOMAIN S : Covers(scope[d], t) => d \in Range(sinks'[t])
    <3>1. CASE d = c
      BY <2>2, <2>4, <3>1
    <3>2. CASE d # c
      <4>1. Registered(d) /\ ~Dangling(d)
        BY <1>0, <2>5, <2>6, <3>2 DEF Registered, Dangling, TypeOK
      <4>2. scope[d] \in DOMAIN sinks
        BY <1>0, <4>1 DEF NoSinkLost
      <4>3. ASSUME NEW t \in DOMAIN S, Covers(scope[d], t)
            PROVE  d \in Range(sinks'[t])
        <5>1. d \in Range(S[t])
          BY <2>3, <4>1, <4>3, EntryKeepsSinks
        <5> QED
          BY <2>2, <5>1
      <4> QED
        BY <2>4, <4>2, <4>3
    <3> QED
      BY <3>1, <3>2
  <2>7. NoSinkLost'
    BY <2>2, <2>5, <2>6 DEF NoSinkLost
  <2> QED
    BY <2>1, <2>7
<1>3. ASSUME NEW c \in Connectors, MarkActive(c)
      PROVE  LifeCycle' /\ NoSinkLost'
  BY <1>0, <1>3 DEF MarkActive, TypeOK, LifeCycle, NoSinkLost, Registered, Dangling
<1>4. ASSUME NEW c \in Connectors, MarkInactive(c)
      PROVE  LifeCycle' /\ NoSinkLost'
  BY <1>0, <1>4 DEF MarkInactive, Idle, TypeOK, LifeCycle, NoSinkLost, Registered, Dangling
<1>5. ASSUME NEW c \in Connectors, RemoveSink(c)
      PROVE  LifeCycle' /\ NoSinkLost'
  <2>1. LifeCycle'
    BY <1>0, <1>5 DEF RemoveSink, TypeOK, LifeCycle, Registered
  <2>2. /\ UNCHANGED <<scope, active>>
        /\ call' = [call EXCEPT ![c] = "none"]
        /\ ref' = [ref EXCEPT ![c] = IF @ = "expired" THEN "freed" ELSE @]
        /\ call[c] = "removing"
    BY <1>5 DEF RemoveSink
  <2>3. ASSUME NEW d \in Connectors, Registered(d)', ~Dangling(d)'
        PROVE  d # c /\ Registered(d) /\ ~Dangling(d)
    BY <1>0, <2>2, <2>3 DEF TypeOK, LifeCycle, Registered, Dangling
  <2>4. ASSUME NEW d \in Connectors, d # c, Registered(d), ~Dangling(d),
               NEW t \in DOMAIN sinks, Covers(scope[d], t)
        PROVE  t \in DOMAIN sinks' /\ d \in Range(sinks'[t])
    <3>1. d \in Range(sinks[t]) /\ sinks[t] \in SinkLists
      BY <1>0, <2>4 DEF NoSinkLost, TypeOK
    <3>2. d \in Range(EraseFirst(sinks[t], c))
      BY <2>4, <3>1, EraseFirstList
    <3>3. EraseFirst(sinks[t], c) # <<>>
      BY <3>2 DEF Range
    <3> QED
      BY <1>0, <1>5, <3>2, <3>3, RemovedSinks
  <2>5. DOMAIN sinks' \subseteq DOMAIN sinks
    BY <1>0, <1>5, RemovedSinks
  <2>6. NoSinkLost'
    <3> SUFFICES ASSUME NEW d \in Connectors, Registered(d)', ~Dangling(d)'
                 PROVE  /\ scope[d] \in DOMAIN sinks'
                        /\ \A t \in DOMAIN sinks' :
                              Covers(scope[d], t) => d \in Range(sinks'[t])
      BY <2>2 DEF NoSinkLost
    <3>1. d # c /\ Registered(d) /\ ~Dangling(d)
      BY <2>3
    <3>2. scope[d] \in DOMAIN sinks /\ Covers(scope[d], scope[d])
      BY <1>0, <3>1 DEF NoSinkLost, Covers
    <3> QED
      BY <2>4, <2>5, <3>1, <3>2
  <2> QED
    BY <2>1, <2>6
<1>6. ASSUME NEW c \in Connectors, Release(c)
      PROVE  LifeCycle' /\ NoSinkLost'
  BY <1>0, <1>6 DEF Release, Idle, TypeOK, LifeCycle, NoSinkLost, Registered, Dangling
<1>7. ASSUME NEW c \in Connectors, Take(c)
      PROVE  LifeCycle' /\ NoSinkLost'
  BY <1>0, <1>7 DEF Take, LifeCycle, NoSinkLost, Registered, Dangling
<1>8. ASSUME NEW s \in Scopes, Publish(s)
      PROVE  LifeCycle' /\ NoSinkLost'
  <2>1. sinks' \in WithEntry(s) /\ UNCHANGED <<scope, active, call, ref>>
    BY <1>8 DEF Publish
  <2>2. DOMAIN sinks' = DOMAIN sinks \cup {s}
    BY <1>0, <2>1, WithEntryMap
  <2>3. LifeCycle'
    BY <1>0, <2>1 DEF LifeCycle, Registered
  <2>4. ASSUME NEW d \in Connectors, Registered(d), ~Dangling(d)
        PROVE  /\ scope[d] \in DOMAIN sinks'
               /\ \A t \in DOMAIN sinks' : Covers(scope[d], t) => d \in Range(sinks'[t])
    BY <1>0, <2>1, <2>2, <2>4, EntryKeepsSinks DEF NoSinkLost
  <2>5. NoSinkLost'
    BY <2>1, <2>4 DEF NoSinkLost, Registered, Dangling
  <2> QED
    BY <2>3, <2>5
<1>9. CASE UNCHANGED vars
  BY <1>0, <1>9 DEF vars, LifeCycle, NoSinkLost, Registered, Dangling
<1> QED
  BY <1>1, <1>2, <1>3, <1>4, <1>5, <1>6, <1>7, <1>8, <1>9 DEF Next, OwnerStep

\* No event can be lost in the bus: a registered connector is in the list of
\* every scope it must hear, at all times.
THEOREM NoLoss == Spec => []NoSinkLost
<1>1. LossInv => NoSinkLost
  BY DEF LossInv
<1> QED
  BY <1>1, LossInit, LossNext, PTL DEF Spec

-----------------------------------------------------------------------------
(***************************************************************************)
(* When owners deactivate before they release, as the route configurators  *)
(* do, the lists hold nothing but what they must, once.                    *)
(***************************************************************************)
ExactInv ==
    /\ LossInv
    /\ NoStaleSink
    /\ NoDuplicates
    /\ \A c \in Connectors : ref[c] # "expired"

LEMMA ExactInit == Init => ExactInv
BY LossInit DEF Init, ExactInv, NoStaleSink, NoDuplicates

\* A list created late inherits connectors of super-scopes only, and none
\* of them twice.
LEMMA EntryIsExact ==
    ASSUME ExactInv, NEW s \in Scopes, NEW S \in WithEntry(s), NEW t \in DOMAIN S
    PROVE  /\ IsInjective(S[t])
           /\ S[t] \in SinkLists
           /\ \A c \in Range(S[t]) :
                 Registered(c) /\ ~Dangling(c) /\ Covers(scope[c], t)
<1>1. TypeOK
  BY DEF ExactInv, LossInv
<1>2. S[t] \in SinkLists
  BY <1>1, WithEntryMap
<1>3. CASE t \in DOMAIN sinks
  <2>1. S[t] = sinks[t]
    BY <1>1, <1>3, WithEntryMap
  <2> QED
    BY <1>2, <1>3, <2>1 DEF ExactInv, NoStaleSink, NoDuplicates
<1>4. CASE t \notin DOMAIN sinks
  <2>0. DOMAIN S = DOMAIN sinks \cup {s}
    BY <1>1, WithEntryMap
  <2>1. t = s /\ Range(S[s]) = Inherited(s) /\ IsInjective(S[s])
    BY <1>1, <1>4, <2>0, WithEntryMap
  <2>2. ASSUME NEW c \in Inherited(s)
        PROVE  Registered(c) /\ ~Dangling(c) /\ Covers(scope[c], s)
    <3>1. PICK u \in DOMAIN sinks : Covers(u, s) /\ c \in Range(sinks[u])
      BY DEF Inherited
    <3>2. Registered(c) /\ ~Dangling(c) /\ Covers(scope[c], u)
      BY <3>1 DEF ExactInv, NoStaleSink
    <3>3. c \in Connectors
      BY <1>1, <3>1 DEF TypeOK, SinkLists, Range
    <3>4. scope[c] \in Scopes /\ u \in Scopes
      BY <1>1, <3>1, <3>3 DEF TypeOK
    <3> QED
      BY <3>1, <3>2, <3>4, CoversTransitive
  <2> QED
    BY <1>2, <2>1, <2>2
<1> QED
  BY <1>3, <1>4

LEMMA ExactNext ==
    ASSUME ~ReleaseWhileActive
    PROVE  ExactInv /\ [Next]_vars => ExactInv'
<1> SUFFICES ASSUME ExactInv, [Next]_vars
             PROVE  /\ NoStaleSink' /\ NoDuplicates'
                    /\ \A c \in Connectors : ref'[c] # "expired"
  BY LossNext DEF ExactInv
<1> DEFINE Goal == /\ NoStaleSink' /\ NoDuplicates'
                   /\ \A c \in Connectors : ref'[c] # "expired"
<1>0. /\ TypeOK /\ LifeCycle /\ NoStaleSink /\ NoDuplicates
      /\ \A c \in Connectors : ref[c] # "expired"
  BY DEF ExactInv, LossInv
<1>a. \A s \in DOMAIN sinks : sinks[s] \in SinkLists /\ Range(sinks[s]) \subseteq Connectors
  BY <1>0 DEF TypeOK, SinkLists, Range
<1>1. ASSUME NEW c \in Connectors, NEW s \in Scopes, SetScope(c, s) PROVE Goal
  BY <1>0, <1>a, <1>1 DEF SetScope, Idle, TypeOK, NoStaleSink, NoDuplicates, Registered, Dangling
<1>2. ASSUME NEW c \in Connectors, AddSink(c) PROVE Goal
  <2>1. PICK S \in WithEntry(scope[c]) :
           /\ DOMAIN sinks' = DOMAIN S
           /\ \A t \in DOMAIN S :
                 /\ Covers(scope[c], t) =>
                      /\ sinks'[t] = Append(S[t], c)
                      /\ Range(sinks'[t]) = Range(S[t]) \cup {c}
                 /\ ~Covers(scope[c], t) => sinks'[t] = S[t]
    BY <1>0, <1>2, AddedSinks
  <2>2. scope[c] \in Scopes
    BY <1>0 DEF TypeOK
  <2>3. /\ UNCHANGED <<scope, active, ref>>
        /\ call' = [call EXCEPT ![c] = "added"]
        /\ call[c] = "none" /\ ~active[c] /\ ref[c] = "held"
    BY <1>2 DEF AddSink, Idle
  <2>4. Registered(c)' /\ ~Registered(c) /\ ~Dangling(c)'
    BY <1>0, <2>3 DEF TypeOK, Registered, Dangling
  <2>5. ASSUME NEW t \in DOMAIN S
        PROVE  /\ IsInjective(sinks'[t])
               /\ \A d \in Range(sinks'[t]) :
                     Registered(d)' /\ ~Dangling(d)' /\ Covers(scope[d], t)
    <3>1. /\ IsInjective(S[t]) /\ S[t] \in SinkLists
          /\ \A d \in Range(S[t]) :
                Registered(d) /\ ~Dangling(d) /\ Covers(scope[d], t)
      BY <2>2, EntryIsExact
    <3>2. c \notin Range(S[t])
      BY <2>4, <3>1
    <3>3. ASSUME NEW d \in Range(S[t])
          PROVE  Registered(d)' /\ ~Dangling(d)' /\ Covers(scope[d], t)
      <4>1. d \in Connectors /\ d # c
        BY <3>1, <3>2 DEF SinkLists, Range
      <4> QED
        BY <1>0, <2>3, <3>1, <4>1 DEF Registered, Dangling, TypeOK
    <3>4. CASE Covers(scope[c], t)
      <4>1. IsInjective(Append(S[t], c))
        BY <3>1, <3>2 DEF IsInjective, SinkLists, Range
      <4> QED
        BY <2>1, <2>4, <3>3, <3>4, <4>1
    <3>5. CASE ~Covers(scope[c], t)
      BY <2>1, <3>1, <3>3, <3>5
    <3> QED
      BY <3>4, <3>5
  <2> QED
    BY <1>0, <2>1, <2>3, <2>5 DEF NoStaleSink, NoDuplicates
<1>3. ASSUME NEW c \in Connectors, MarkActive(c) PROVE Goal
  BY <1>0, <1>a, <1>3 DEF MarkActive, TypeOK, NoStaleSink, NoDuplicates, Registered, Dangling
<1>4. ASSUME NEW c \in Connectors, MarkInactive(c) PROVE Goal
  BY <1>0, <1>a, <1>4 DEF MarkInactive, TypeOK, NoStaleSink, NoDuplicates, Registered, Dangling
<1>5. ASSUME NEW c \in Connectors, RemoveSink(c) PROVE Goal
  <2>1. /\ UNCHANGED <<scope, active, ref>>
        /\ call' = [call EXCEPT ![c] = "none"]
    BY <1>0, <1>5 DEF RemoveSink, TypeOK
  <2>2. ASSUME NEW t \in DOMAIN sinks'
        PROVE  /\ IsInjective(sinks'[t])
               /\ \A d \in Range(sinks'[t]) :
                     Registered(d)' /\ ~Dangling(d)' /\ Covers(scope[d], t)
    <3>1. /\ t \in DOMAIN sinks /\ sinks[t] \in SinkLists
          /\ sinks'[t] = EraseFirst(sinks[t], c)
      BY <1>0, <1>5, RemovedSinks
    <3>2. /\ IsInjective(sinks[t])
          /\ \A d \in Range(sinks[t]) :
                d \in Connectors /\ Registered(d) /\ ~Dangling(d) /\ Covers(scope[d], t)
      BY <1>0, <1>a, <3>1 DEF NoStaleSink, NoDuplicates
    <3>3. /\ IsInjective(sinks'[t]) /\ Range(sinks'[t]) \subseteq Range(sinks[t])
          /\ c \notin Range(sinks'[t])
      BY <3>1, <3>2, EraseFirstList
    <3> QED
      BY <1>0, <2>1, <3>2, <3>3 DEF Registered, Dangling, TypeOK
  <2> QED
    BY <1>0, <2>1, <2>2 DEF NoStaleSink, NoDuplicates
<1>6. ASSUME NEW c \in Connectors, Release(c) PROVE Goal
  BY <1>0, <1>a, <1>6 DEF Release, Idle, TypeOK, NoStaleSink, NoDuplicates, Registered, Dangling
<1>7. ASSUME NEW c \in Connectors, Take(c) PROVE Goal
  BY <1>0, <1>7 DEF Take, NoStaleSink, NoDuplicates, Registered, Dangling
<1>8. ASSUME NEW s \in Scopes, Publish(s) PROVE Goal
  <2>1. sinks' \in WithEntry(s) /\ UNCHANGED <<scope, active, call, ref>>
    BY <1>8 DEF Publish
  <2>2. \A t \in DOMAIN sinks' :
           /\ IsInjective(sinks'[t])
           /\ \A c \in Range(sinks'[t]) :
                 Registered(c) /\ ~Dangling(c) /\ Covers(scope[c], t)
    BY <2>1, EntryIsExact
  <2> QED
    BY <1>0, <2>1, <2>2 DEF NoStaleSink, NoDuplicates, Registered, Dangling
<1>9. CASE UNCHANGED vars
  BY <1>0, <1>9 DEF vars, NoStaleSink, NoDuplicates, Registered, Dangling
<1> QED
  BY <1>1, <1>2, <1>3, <1>4, <1>5, <1>6, <1>7, <1>8, <1>9 DEF Next, OwnerStep

\* Nothing reaches a connector after removeSink, no weak pointer is left
\* behind, and nothing is delivered twice.
THEOREM Exactness ==
    ASSUME ~ReleaseWhileActive
    PROVE  Spec => [](NoStaleSink /\ NoDuplicates)
<1>1. ExactInv => NoStaleSink /\ NoDuplicates
  BY DEF ExactInv
<1>2. ExactInv /\ [Next]_vars => ExactInv'
  BY ExactNext
<1> QED
  BY <1>1, <1>2, ExactInit, PTL DEF Spec

\* If owners deactivate before they release, a list holds exactly the connectors
\* that are to hear its scope, each once (Bus.cpp, addSink, removeSink).
THEOREM ExactSinks ==
    ASSUME ~ReleaseWhileActive
    PROVE  Spec => []SinksAreExact
<1> QED
  BY NoLoss, Exactness, PTL DEF SinksAreExact

-----------------------------------------------------------------------------
(***************************************************************************)
(* The bus implements EventRouting.                                        *)
(***************************************************************************)

\* Handing an event to a list without repetitions or dangling pointers is one
\* delivery to each connector in it.
LEMMA OneDelivery ==
    ASSUME NEW L \in SinkLists, NEW c \in Connectors, IsInjective(L), ~Dangling(c)
    PROVE  Deliveries(L, c) = IF c \in Range(L) THEN 1 ELSE 0
<1> DEFINE H == {i \in DOMAIN L : L[i] = c /\ ~Dangling(c)}
<1>1. CASE c \in Range(L)
  <2>1. PICK k \in DOMAIN L : L[k] = c
    BY <1>1 DEF Range
  <2>2. H = {k}
    BY <2>1 DEF IsInjective
  <2>3. Cardinality(H) = 1
    BY <2>2, FS_Singleton
  <2> QED
    BY <1>1, <2>3 DEF Deliveries
<1>2. CASE c \notin Range(L)
  <2>1. H = {}
    BY <1>2 DEF Range
  <2>2. Cardinality(H) = 0
    BY <2>1, FS_EmptySet
  <2> QED
    BY <1>2, <2>2 DEF Deliveries
<1> QED
  BY <1>1, <1>2

\* The lists of the bus, read at the event's scope, are the subscribers the
\* contract names.
LEMMA PublishImplements ==
    ASSUME ExactInv, NEW s \in Scopes, Publish(s)
    PROVE  Routing!Publish(s)
<1>1. /\ sinks' \in WithEntry(s) /\ UNCHANGED <<scope, active, call, ref>>
      /\ published' = published + 1
      /\ inbox' = [c \in Connectors |->
                      inbox[c] \o [i \in 1..Deliveries(sinks'[s], c) |->
                                      [id |-> published + 1, scope |-> s]]]
  BY DEF Publish
<1>2. TypeOK /\ LossInv /\ NoSinkLost
  BY DEF ExactInv, LossInv
<1>3. s \in DOMAIN sinks'
  <2>1. DOMAIN sinks' = DOMAIN sinks \cup {s}
    BY <1>1, <1>2, WithEntryMap
  <2> QED
    BY <2>1
<1>4. /\ IsInjective(sinks'[s]) /\ sinks'[s] \in SinkLists
      /\ \A c \in Range(sinks'[s]) :
            Registered(c) /\ ~Dangling(c) /\ Covers(scope[c], s)
  BY <1>1, <1>3, EntryIsExact
<1>5. ASSUME NEW c \in Connectors
      PROVE  inbox[c] \o [i \in 1..Deliveries(sinks'[s], c) |->
                             [id |-> published + 1, scope |-> s]]
             = IF c \in {d \in Connectors : Registered(d)} /\ Covers(scope[c], s)
               THEN Append(inbox[c], [id |-> published + 1, scope |-> s])
               ELSE inbox[c]
  <2> DEFINE e == [id |-> published + 1, scope |-> s]
  <2>1. inbox[c] \in Seq(Event)
    BY <1>2 DEF TypeOK
  <2>2. CASE Registered(c) /\ Covers(scope[c], s)
    <3>1. ~Dangling(c)
      BY <2>2 DEF ExactInv, LossInv, LifeCycle, TypeOK, Dangling
    <3>2. c \in Range(sinks'[s])
      BY <1>1, <1>2, <1>3, <2>2, <3>1, EntryKeepsSinks
    <3>3. Deliveries(sinks'[s], c) = 1
      BY <1>4, <3>1, <3>2, OneDelivery
    <3>4. [i \in 1..1 |-> e] = <<e>>
      OBVIOUS
    <3>5. inbox[c] \o <<e>> = Append(inbox[c], e)
      BY <2>1
    <3> QED
      BY <2>2, <3>3, <3>4, <3>5
  <2>3. CASE ~(Registered(c) /\ Covers(scope[c], s))
    <3>1. c \notin Range(sinks'[s])
      BY <1>4, <2>3
    <3>2. Deliveries(sinks'[s], c) = 0
      <4>1. {i \in DOMAIN sinks'[s] : sinks'[s][i] = c /\ ~Dangling(c)} = {}
        BY <3>1 DEF Range
      <4> QED
        BY <4>1, FS_EmptySet DEF Deliveries
    <3>3. [i \in 1..0 |-> e] = <<>>
      OBVIOUS
    <3>4. inbox[c] \o <<>> = inbox[c]
      BY <2>1
    <3> QED
      BY <2>3, <3>2, <3>3, <3>4
  <2> QED
    BY <2>2, <2>3
<1>6. {c \in Connectors : Registered(c)}' = {c \in Connectors : Registered(c)}
  BY <1>1 DEF Registered
<1>7. inbox' = [c \in Connectors |->
                  IF c \in {d \in Connectors : Registered(d)} /\ Covers(scope[c], s)
                  THEN Append(inbox[c], [id |-> published + 1, scope |-> s])
                  ELSE inbox[c]]
  BY <1>1, <1>5
<1>8. \A t, u : Routing!Covers(t, u) = Covers(t, u)
  BY DEF Routing!Covers, Covers, Routing!IsSuperScopeOf, IsSuperScopeOf
<1> QED
  BY <1>1, <1>6, <1>7, <1>8 DEF Routing!Publish

\* With owners that deactivate first, every step of the bus is a step of the
\* contract or changes nothing the contract sees.
THEOREM Implements ==
    ASSUME ~ReleaseWhileActive
    PROVE  Spec => RoutingSpec
<1> DEFINE subs == {c \in Connectors : Registered(c)}
<1>1. Init => Routing!Init
  BY DEF Init, Routing!Init, Registered
<1>2. ASSUME ExactInv, [Next]_vars
      PROVE  [Routing!Next]_(Routing!vars)
  <2>0. TypeOK /\ LifeCycle
    BY <1>2 DEF ExactInv, LossInv
  <2>1. ASSUME NEW c \in Connectors, NEW s \in Scopes, SetScope(c, s)
        PROVE  Routing!Rescope(c, s)
    BY <2>0, <2>1 DEF SetScope, Idle, Routing!Rescope, Registered
  <2>2. ASSUME NEW c \in Connectors, AddSink(c) PROVE Routing!Join(c)
    <3>1. /\ call' = [call EXCEPT ![c] = "added"]
          /\ UNCHANGED <<scope, active, inbox, published>>
      BY <2>2 DEF AddSink
    <3>2. subs' = subs \cup {c}
      BY <2>0, <3>1 DEF Registered, TypeOK
    <3> QED
      BY <3>1, <3>2 DEF Routing!Join
  <2>3. ASSUME NEW c \in Connectors, MarkActive(c) \/ MarkInactive(c)
        PROVE  UNCHANGED Routing!vars
    BY <2>0, <2>3 DEF MarkActive, MarkInactive, Routing!vars, Registered, TypeOK
  <2>4. ASSUME NEW c \in Connectors, RemoveSink(c) PROVE Routing!Leave(c)
    <3>1. /\ call' = [call EXCEPT ![c] = "none"] /\ call[c] = "removing"
          /\ UNCHANGED <<scope, active, inbox, published>>
      BY <2>4 DEF RemoveSink
    <3>2. subs' = subs \ {c}
      BY <2>0, <3>1 DEF Registered, TypeOK, LifeCycle
    <3> QED
      BY <3>1, <3>2 DEF Routing!Leave
  <2>5. ASSUME NEW c \in Connectors, Release(c)
        PROVE  UNCHANGED Routing!vars
    BY <2>0, <2>5 DEF Release, Idle, Routing!vars, Registered, TypeOK
  <2>6. ASSUME NEW c \in Connectors, Take(c) PROVE Routing!Take(c)
    BY <2>6 DEF Take, Routing!Take, Registered
  <2>7. ASSUME NEW s \in Scopes, Publish(s) PROVE Routing!Publish(s)
    BY <1>2, <2>7, PublishImplements
  <2>8. CASE UNCHANGED vars
    BY <2>8 DEF vars, Routing!vars, Registered
  <2> QED
    BY <1>2, <2>1, <2>2, <2>3, <2>4, <2>5, <2>6, <2>7, <2>8
       DEF Next, OwnerStep, Routing!Next
<1>3. ExactInv /\ [Next]_vars => ExactInv'
  BY ExactNext
<1> QED
  BY <1>1, <1>2, <1>3, ExactInit, PTL DEF Spec, RoutingSpec, Routing!Spec

-----------------------------------------------------------------------------
(* Participants over several transports: the invariant *)

PubType == [event : SUBSET Publication, todo : Seq(Carriers)]
ReadType == [on : BOOLEAN, block : BOOLEAN, todo : Seq(Carriers), there : BOOLEAN]

TypeInv ==
    /\ RoutesTypeOK
    /\ pub \in [Publishers -> PubType]
    /\ read \in ReadType

\* Connectors that are active are still before the loop that deactivates them.
Undone(r) ==
    /\ step[r] \in {"activating", "attaching", "undoing", "deactivating"} => todo[r] # <<>>
    /\ step[r] \in {"undoing", "deactivating"} => activated[r] \subseteq Range(todo[r])
    /\ step[r] \in {"failed", "gone"} => activated[r] = {}

RouteInv == \A r \in Sides : Undone(r)

\* A thread's event is numbered like its draw, and nobody else's.
Numbered(e) == e.draw < drawn /\ e.seq = e.draw % Width

NumberInv ==
    /\ seqNo = drawn % Width
    /\ \A p \in Publishers : \A e \in pub[p].event : Numbered(e)
    /\ \A t \in Carriers : \A e \in Range(onBus[t]) : Numbered(e)
    /\ \A o \in {"returned", "thrown"} : \A e \in outcome[o] : Numbered(e)

\* An event is on the transports that are done, and not on those to come.
Pending(p) ==
    /\ pub[p] = NoPub \/ \E e \in pub[p].event : pub[p].event = {e}
    /\ IsInjective(pub[p].todo)
    /\ \A e \in pub[p].event :
          /\ \A t \in Carriers : t \in Range(pub[p].todo) <=> e \notin Range(onBus[t])
          /\ e \notin outcome["thrown"]
          /\ \A q \in Publishers \ {p} : \A f \in pub[q].event : f.draw # e.draw

SendInv == (\A p \in Publishers : Pending(p)) /\ ReturnMeansSent

\* A listener's strategy is attached before the route is ready; a reader has none.
ListenerInv ==
    receiver = "listener" =>
        /\ step["in"] = "attaching" => Carriers \subseteq attached \cup Range(todo["in"])
        /\ step["in"] \in {"ready", "deactivating"} => Carriers \subseteq attached
        /\ \A t \in Carriers : queue[t] = <<>>
        /\ ~read.on

ReaderInv == receiver = "reader" => attached = {} /\ step["in"] # "attaching"

DueInv ==
    /\ step["in"] \in {"new", "activating", "attaching", "undoing", "failed"} =>
          \A t \in Carriers : due[t] = <<>>
    /\ NothingMissed

\* A read still has before it a connector that had something when it began.
ReadInv ==
    read.on /\ read.there => \E t \in Carriers : t \in Range(read.todo) /\ queue[t] # <<>>

RoutesInv ==
    /\ TypeInv /\ RouteInv /\ NumberInv /\ SendInv
    /\ ListenerInv /\ ReaderInv /\ DueInv /\ ReadInv
-----------------------------------------------------------------------------
(* Sequences and remainders *)

\* A loop takes the head of what it has before it, which occurs once.
LEMMA HeadAndTail ==
    ASSUME NEW S, NEW s \in Seq(S), s # <<>>
    PROVE  /\ Head(s) \in S /\ Tail(s) \in Seq(S)
           /\ Range(s) = {Head(s)} \cup Range(Tail(s))
           /\ IsInjective(s) => Head(s) \notin Range(Tail(s)) /\ IsInjective(Tail(s))
           /\ Len(s) > 1 => Tail(s) # <<>>
           /\ ~(Len(s) > 1) => Range(s) = {Head(s)}
<1>1. /\ Head(s) = s[1] /\ Len(s) \in Nat \ {0} /\ DOMAIN s = 1..Len(s)
      /\ Len(Tail(s)) = Len(s) - 1 /\ DOMAIN Tail(s) = 1..(Len(s) - 1)
      /\ \A i \in 1..(Len(s) - 1) : Tail(s)[i] = s[i + 1]
  OBVIOUS
<1>2. \A i \in 1..Len(s) : i = 1 \/ (i - 1 \in 1..(Len(s) - 1) /\ s[i] = Tail(s)[i - 1])
  BY <1>1
<1>3. Range(s) = {Head(s)} \cup Range(Tail(s))
  <2>1. \A i \in 1..Len(s) : s[i] \in {Head(s)} \cup Range(Tail(s))
    BY <1>1, <1>2 DEF Range
  <2>2. \A i \in 1..(Len(s) - 1) : Tail(s)[i] \in Range(s)
    <3>1. \A i \in 1..(Len(s) - 1) : i + 1 \in 1..Len(s)
      BY <1>1
    <3> QED
      BY <1>1, <3>1 DEF Range
  <2>3. Head(s) \in Range(s)
    BY <1>1 DEF Range
  <2>4. /\ Range(s) = {s[i] : i \in 1..Len(s)}
        /\ Range(Tail(s)) = {Tail(s)[i] : i \in 1..(Len(s) - 1)}
    BY <1>1 DEF Range
  <2> QED
    BY <2>1, <2>2, <2>3, <2>4
<1>4. IsInjective(s) => Head(s) \notin Range(Tail(s)) /\ IsInjective(Tail(s))
  BY <1>1 DEF Range, IsInjective
<1>5. ~(Len(s) > 1) => Range(s) = {Head(s)}
  BY <1>1 DEF Range
<1>6. Len(s) > 1 => Tail(s) # <<>>
  <2>1. DOMAIN <<>> = {}
    OBVIOUS
  <2>2. Len(s) > 1 => 1 \in DOMAIN Tail(s)
    BY <1>1
  <2> QED
    BY <2>1, <2>2, Zenon
<1> QED
  BY <1>1, <1>3, <1>4, <1>5, <1>6

LEMMA RangeOfAppend ==
    ASSUME NEW S, NEW s \in Seq(S), NEW e
    PROVE  Range(Append(s, e)) = Range(s) \cup {e}
<1>1. /\ DOMAIN Append(s, e) = 1..(Len(s) + 1) /\ DOMAIN s = 1..Len(s) /\ Len(s) \in Nat
      /\ Append(s, e)[Len(s) + 1] = e
      /\ \A i \in 1..Len(s) : Append(s, e)[i] = s[i]
  OBVIOUS
<1> QED
  BY <1>1 DEF Range

LEMMA RangeInSet ==
    ASSUME NEW S, NEW s \in Seq(S)
    PROVE  Range(s) \subseteq S
BY DEF Range

\* The event of a publication, as a sequence
LEMMA SequenceOfOne ==
    ASSUME NEW e
    PROVE  SetToSeq({e}) = <<e>>
<1>1. Cardinality({e}) = 1
  BY FS_Singleton
<1>2. \A f \in [1..1 -> {e}] : f = <<e>>
  OBVIOUS
<1>3. <<e>> \in [1..1 -> {e}] /\ IsInjective(<<e>>)
  BY DEF IsInjective
<1> QED
  BY <1>1, <1>2, <1>3 DEF SetToSeq

\* IsSuffix without reversal
LEMMA SuffixByIndex ==
    ASSUME NEW S, NEW s \in Seq(S), NEW t \in Seq(S)
    PROVE  IsSuffix(s, t) <=> /\ Len(s) <= Len(t)
                              /\ \A i \in 1..Len(s) : s[i] = t[Len(t) - Len(s) + i]
<1>1. /\ Reverse(s) \in Seq(S) /\ Len(Reverse(s)) = Len(s)
      /\ Reverse(t) \in Seq(S) /\ Len(Reverse(t)) = Len(t)
      /\ \A i \in 1..Len(s) : Reverse(s)[i] = s[Len(s) - i + 1]
      /\ \A i \in 1..Len(t) : Reverse(t)[i] = t[Len(t) - i + 1]
  BY DEF Reverse
<1> DEFINE n == Len(s)
<1>2. ASSUME Len(s) <= Len(t)
      PROVE  SubSeq(Reverse(s), 1, n) = SubSeq(Reverse(t), 1, n)
                <=> \A i \in 1..n : Reverse(s)[i] = Reverse(t)[i]
  <2>1. /\ SubSeq(Reverse(s), 1, n) = [i \in 1..n |-> Reverse(s)[i]]
        /\ SubSeq(Reverse(t), 1, n) = [i \in 1..n |-> Reverse(t)[i]]
    BY <1>1, <1>2
  <2> QED
    BY <2>1
<1>3. ASSUME Len(s) <= Len(t)
      PROVE  (\A i \in 1..n : Reverse(s)[i] = Reverse(t)[i])
                <=> \A i \in 1..n : s[i] = t[Len(t) - Len(s) + i]
  <2>1. \A i \in 1..n : n - i + 1 \in 1..n /\ i \in 1..Len(t) /\ n - i + 1 \in 1..Len(t)
    BY <1>3
  <2>2. \A i \in 1..n : /\ Reverse(s)[i] = s[n - i + 1]
                        /\ Reverse(t)[i] = t[Len(t) - n + (n - i + 1)]
    BY <1>1, <1>3, <2>1
  <2>3. (\A i \in 1..n : s[i] = t[Len(t) - n + i])
          => \A i \in 1..n : Reverse(s)[i] = Reverse(t)[i]
    BY <2>1, <2>2
  <2>4. ASSUME \A i \in 1..n : Reverse(s)[i] = Reverse(t)[i], NEW i \in 1..n
        PROVE  s[i] = t[Len(t) - n + i]
    <3>0. n \in Nat /\ i \in Nat /\ n - i + 1 \in 1..n /\ n - (n - i + 1) + 1 = i
      BY <2>1
    <3> HIDE DEF n
    <3>1. PICK j \in 1..n : j = n - i + 1 /\ n - j + 1 = i
      BY <3>0, Zenon
    <3>2. Reverse(s)[j] = s[n - j + 1] /\ Reverse(t)[j] = t[Len(t) - n + (n - j + 1)]
      BY <2>2
    <3>3. Reverse(s)[j] = s[i] /\ Reverse(t)[j] = t[Len(t) - n + i]
      BY <3>1, <3>2, Zenon
    <3> QED
      BY <2>4, <3>3, Zenon
  <2> QED
    BY <2>3, <2>4
<1> QED
  BY <1>1, <1>2, <1>3 DEF IsSuffix, IsPrefix

LEMMA NothingIsSuffix ==
    ASSUME NEW S, NEW t \in Seq(S)
    PROVE  IsSuffix(<<>>, t)
<1>1. ASSUME NEW s \in Seq(S), Len(s) = 0
      PROVE  IsSuffix(s, t)
  <2>1. Len(s) <= Len(t)
    BY <1>1
  <2>2. \A i \in 1..Len(s) : s[i] = t[Len(t) - Len(s) + i]
    BY <1>1
  <2> QED
    BY <2>1, <2>2, SuffixByIndex
<1>2. <<>> \in Seq(S) /\ Len(<<>>) = 0
  OBVIOUS
<1> QED
  BY <1>1, <1>2, Zenon

LEMMA SuffixOfBoth ==
    ASSUME NEW S, NEW s \in Seq(S), NEW t \in Seq(S), NEW e \in S, IsSuffix(s, t)
    PROVE  IsSuffix(Append(s, e), Append(t, e))
<1>1. /\ Len(s) <= Len(t)
      /\ \A i \in 1..Len(s) : s[i] = t[Len(t) - Len(s) + i]
  BY SuffixByIndex
<1>2. /\ Append(s, e) \in Seq(S) /\ Append(t, e) \in Seq(S)
      /\ Len(Append(s, e)) = Len(s) + 1 /\ Len(Append(t, e)) = Len(t) + 1
  OBVIOUS
<1>3. \A i \in 1..(Len(s) + 1) :
        Append(s, e)[i] = Append(t, e)[(Len(t) + 1) - (Len(s) + 1) + i]
  <2> TAKE i \in 1..(Len(s) + 1)
  <2>1. CASE i = Len(s) + 1
    BY <1>1, <2>1
  <2>2. CASE i \in 1..Len(s)
    <3>1. Len(t) - Len(s) + i \in 1..Len(t)
      BY <1>1, <2>2
    <3> QED
      BY <1>1, <2>2, <3>1
  <2>3. Len(s) \in Nat /\ (i = Len(s) + 1 \/ i \in 1..Len(s))
    OBVIOUS
  <2> QED
    BY <2>1, <2>2, <2>3
<1>4. Len(Append(s, e)) <= Len(Append(t, e))
  BY <1>1, <1>2
<1>5. \A i \in 1..Len(Append(s, e)) :
        Append(s, e)[i] = Append(t, e)[Len(Append(t, e)) - Len(Append(s, e)) + i]
  BY <1>2, <1>3
<1> QED
  BY <1>2, <1>4, <1>5, SuffixByIndex

\* What is taken from a queue and appended stays in its place.
LEMMA HeadMoves ==
    ASSUME NEW S, NEW s \in Seq(S), NEW q \in Seq(S), q # <<>>
    PROVE  Append(s, Head(q)) \o Tail(q) = s \o q
<1>1. /\ Len(q) \in Nat \ {0} /\ Head(q) = q[1] /\ q[1] \in S
      /\ Tail(q) \in Seq(S) /\ Len(Tail(q)) = Len(q) - 1
      /\ \A i \in 1..(Len(q) - 1) : Tail(q)[i] = q[i + 1]
  OBVIOUS
<1> DEFINE a == Append(s, Head(q))
<1>2. /\ a \in Seq(S) /\ Len(a) = Len(s) + 1 /\ a[Len(s) + 1] = q[1]
      /\ \A i \in 1..Len(s) : a[i] = s[i]
  BY <1>1
<1> HIDE DEF a
<1>3. /\ a \o Tail(q) \in Seq(S) /\ Len(a \o Tail(q)) = Len(s) + Len(q)
      /\ s \o q \in Seq(S) /\ Len(s \o q) = Len(s) + Len(q)
  BY <1>1, <1>2
<1>4. \A i \in 1..(Len(s) + Len(q)) : (a \o Tail(q))[i] = (s \o q)[i]
  <2> TAKE i \in 1..(Len(s) + Len(q))
  <2>1. /\ (a \o Tail(q))[i] = IF i <= Len(a) THEN a[i] ELSE Tail(q)[i - Len(a)]
        /\ (s \o q)[i] = IF i <= Len(s) THEN s[i] ELSE q[i - Len(s)]
    BY <1>1, <1>2
  <2>2. CASE i <= Len(s)
    BY <1>2, <2>1, <2>2
  <2>3. CASE i = Len(s) + 1
    <3>1. i <= Len(a) /\ ~(i <= Len(s)) /\ i - Len(s) = 1
      BY <1>2, <2>3
    <3> QED
      BY <1>2, <2>1, <2>3, <3>1
  <2>4. CASE i > Len(s) + 1
    <3>1. i - Len(a) \in 1..(Len(q) - 1) /\ (i - Len(a)) + 1 = i - Len(s)
      BY <1>1, <1>2, <2>4
    <3> QED
      BY <1>1, <1>2, <2>1, <2>4, <3>1
  <2>5. i <= Len(s) \/ i = Len(s) + 1 \/ i > Len(s) + 1
    OBVIOUS
  <2> QED
    BY <2>2, <2>3, <2>4, <2>5
<1> QED
  BY <1>3, <1>4 DEF a

LEMMA Division ==
    ASSUME NEW n \in Int
    PROVE  /\ n \div Width \in Int /\ n % Width \in 0..(Width - 1)
           /\ n = Width * (n \div Width) + (n % Width)
<1>1. Width \in Nat /\ Width > 0
  BY WidthAssumption
<1>2. n = Width * (n \div Width) + (n % Width)
  BY <1>1, Z3
<1> QED
  BY <1>1, <1>2

\* Sequence numbers go on by one and begin again.
LEMMA NextRemainder ==
    ASSUME NEW n \in Nat
    PROVE  /\ n % Width \in 0..(Width - 1)
           /\ ((n % Width) + 1) % Width = (n + 1) % Width
<1> DEFINE q == n \div Width
<1> DEFINE r == n % Width
<1>1. Width \in Nat /\ Width > 0 /\ q \in Int /\ r \in 0..(Width - 1) /\ n = Width * q + r
  BY WidthAssumption, Division
<1> HIDE DEF q, r
<1>2. CASE r + 1 < Width
  <2>1. n + 1 = Width * q + (r + 1) /\ r + 1 \in 0..(Width - 1)
    BY <1>1, <1>2
  <2>2. (Width * q + (r + 1)) % Width = r + 1 /\ (Width * 0 + (r + 1)) % Width = r + 1
    BY <1>1, <2>1
  <2> QED
    BY <1>1, <2>1, <2>2 DEF r
<1>3. CASE r + 1 = Width
  <2>1. n + 1 = Width * (q + 1) + 0
    BY <1>1, <1>3
  <2>2. (Width * (q + 1) + 0) % Width = 0 /\ (Width * 1 + 0) % Width = 0
    BY <1>1
  <2> QED
    BY <1>1, <1>3, <2>1, <2>2 DEF r
<1> QED
  BY <1>1, <1>2, <1>3 DEF r

LEMMA SameRemainder ==
    ASSUME NEW m \in Nat, NEW n \in Nat, m < n, m % Width = n % Width
    PROVE  n - m >= Width
<1> DEFINE d == (n \div Width) - (m \div Width)
<1>1. Width \in Nat /\ Width > 0 /\ d \in Int
  BY WidthAssumption, Division
<1>2. n - m = Width * d
  <2>1. PICK p \in Int, q \in Int, r \in Int :
           p = n \div Width /\ q = m \div Width /\ n = Width * p + r /\ m = Width * q + r
    BY Division
  <2>2. (Width * p + r) - (Width * q + r) = Width * (p - q)
    BY <1>1, <2>1
  <2> QED
    BY <2>1, <2>2
<1>3. d > 0
  BY <1>1, <1>2
<1> QED
  BY <1>1, <1>2, <1>3

-----------------------------------------------------------------------------
(* Types *)

LEMMA TransportsAreCarriers ==
    /\ Transports \in Seq(Carriers) /\ Transports # <<>>
    /\ Range(Transports) = Carriers /\ IsInjective(Transports)
BY TransportsAssumption DEF Carriers

LEMMA InitTypes == RoutesInit => TypeInv
<1> SUFFICES ASSUME RoutesInit PROVE TypeInv
  OBVIOUS
<1>1. 0 \in 0..(Width - 1) /\ 0 \in 0..MaxPublications
  BY WidthAssumption, PublicationsAssumption
<1>2. <<>> \in Seq(Carriers) /\ <<>> \in Seq(Publication)
  OBVIOUS
<1>3. NoPub \in PubType /\ NoRead \in ReadType
  BY <1>2 DEF NoPub, NoRead, PubType, ReadType
<1>4. RoutesTypeOK
  BY <1>1, <1>2, <1>3 DEF RoutesInit, RoutesTypeOK, Steps, Sides, PubType, ReadType
<1> QED
  BY <1>3, <1>4 DEF RoutesInit, TypeInv

\* The loop of a route keeps the types of the route's variables.
LEMMA AdvanceTypes ==
    ASSUME TypeInv, NEW r \in Sides, NEW next \in Steps, NEW ls \in Seq(Carriers),
           todo[r] # <<>>, Advance(r, next, ls)
    PROVE  step' \in [Sides -> Steps] /\ todo' \in [Sides -> Seq(Carriers)]
<1>1. Tail(todo[r]) \in Seq(Carriers)
  BY HeadAndTail DEF TypeInv, RoutesTypeOK
<1> QED
  BY <1>1 DEF Advance, TypeInv, RoutesTypeOK

\* Everything that has been sent, or is being sent, is a publication.
LEMMA EventTypes ==
    ASSUME TypeInv
    PROVE  /\ \A t \in Carriers : \A e \in Range(onBus[t]) : e \in Publication
           /\ \A o \in {"returned", "thrown"} : \A e \in outcome[o] : e \in Publication
           /\ \A p \in Publishers : \A e \in pub[p].event : e \in Publication
           /\ \A e \in Publication : e.draw \in Nat
<1>1. \A t \in Carriers : \A e \in Range(onBus[t]) : e \in Publication
  <2> TAKE t \in Carriers
  <2>1. onBus[t] \in Seq(Publication)
    BY DEF TypeInv, RoutesTypeOK
  <2> QED
    BY <2>1, RangeInSet
<1>2. \A p \in Publishers : pub[p].event \subseteq Publication
  BY DEF TypeInv, RoutesTypeOK
<1>3. \A o \in {"returned", "thrown"} : outcome[o] \subseteq Publication
  BY DEF TypeInv, RoutesTypeOK
<1>4. \A e \in Publication : e.draw \in Nat
  BY DEF Publication
<1> QED
  BY <1>1, <1>2, <1>3, <1>4

\* A publication that goes on has one event.
LEMMA OneEvent ==
    ASSUME TypeInv, SendInv, NEW p \in Publishers, pub[p] # NoPub
    PROVE  /\ pub[p] \in PubType
           /\ \E e \in Publication : pub[p].event = {e}
<1>1. pub[p] \in PubType
  BY DEF TypeInv
<1> QED
  BY <1>1 DEF SendInv, Pending, PubType

\* What Send does to the bus
LEMMA Sent ==
    ASSUME TypeInv, SendInv, NEW p \in Publishers, Send(p)
    PROVE  \E e \in Publication :
              /\ pub[p].event = {e}
              /\ onBus' = [onBus EXCEPT ![Head(pub[p].todo)] = Append(@, e)]
              /\ pub[p].todo # <<>> /\ Head(pub[p].todo) \in Carriers
<1>1. pub[p] # NoPub /\ pub[p].todo # <<>>
  BY DEF Send, NoPub
<1>2. PICK e \in Publication : pub[p].event = {e}
  BY <1>1, OneEvent
<1>3. SetToSeq(pub[p].event) = <<e>>
  BY <1>2, SequenceOfOne
<1>4. pub[p].todo \in Seq(Carriers) /\ Head(pub[p].todo) \in Carriers
  BY <1>1, HeadAndTail DEF TypeInv, PubType
<1>5. onBus[Head(pub[p].todo)] \o <<e>> = Append(onBus[Head(pub[p].todo)], e)
  BY <1>4 DEF TypeInv, RoutesTypeOK
<1>6. onBus' = [onBus EXCEPT ![Head(pub[p].todo)] = Append(@, e)]
  BY <1>3, <1>5 DEF Send
<1> QED
  BY <1>1, <1>2, <1>4, <1>6

LEMMA TypeStep ==
    ASSUME TypeInv, RouteInv, SendInv, [RoutesNext]_participantVars
    PROVE  TypeInv'
<1> USE DEF TypeInv, RoutesTypeOK
<1>1. ASSUME NEW r \in Sides, Construct(r) PROVE TypeInv'
  BY <1>1, TransportsAreCarriers DEF Construct, Steps, senderVars, receiverVars
<1>2. ASSUME NEW r \in Sides, ActivateConnector(r) PROVE TypeInv'
  <2>1. todo[r] # <<>> /\ <<>> \in Seq(Carriers) /\ {"attaching", "ready"} \subseteq Steps
    BY <1>2 DEF ActivateConnector, RouteInv, Undone, Steps
  <2>2. Head(todo[r]) \in Carriers
    BY <2>1, HeadAndTail
  <2>3. step' \in [Sides -> Steps] /\ todo' \in [Sides -> Seq(Carriers)]
    BY <1>2, <2>1, TransportsAreCarriers, AdvanceTypes DEF ActivateConnector
  <2> QED
    BY <1>2, <2>2, <2>3 DEF ActivateConnector, senderVars, receiverVars
<1>3. ASSUME NEW r \in Sides, FailToActivate(r) PROVE TypeInv'
  BY <1>3, TransportsAreCarriers DEF FailToActivate, Steps, senderVars, receiverVars
<1>4. ASSUME Attach PROVE TypeInv'
  <2>1. /\ "in" \in Sides /\ todo["in"] # <<>>
        /\ <<>> \in Seq(Carriers) /\ "ready" \in Steps
    BY <1>4 DEF Attach, RouteInv, Undone, Steps, Sides
  <2>2. Head(todo["in"]) \in Carriers
    BY <2>1, HeadAndTail
  <2>3. step' \in [Sides -> Steps] /\ todo' \in [Sides -> Seq(Carriers)]
    BY <1>4, <2>1, AdvanceTypes DEF Attach
  <2> QED
    BY <1>4, <2>2, <2>3 DEF Attach, senderVars
<1>5. ASSUME NEW r \in Sides, Destroy(r) PROVE TypeInv'
  BY <1>5, TransportsAreCarriers DEF Destroy, Steps, senderVars, receiverVars
<1>6. ASSUME NEW r \in Sides, DeactivateConnector(r) PROVE TypeInv'
  <2>1. todo[r] # <<>> /\ <<>> \in Seq(Carriers) /\ {"failed", "gone"} \subseteq Steps
    BY <1>6 DEF DeactivateConnector, RouteInv, Undone, Steps
  <2>2. step' \in [Sides -> Steps] /\ todo' \in [Sides -> Seq(Carriers)]
    BY <1>6, <2>1, AdvanceTypes DEF DeactivateConnector
  <2> QED
    BY <1>6, <2>2 DEF DeactivateConnector, senderVars, receiverVars
<1>7. ASSUME NEW p \in Publishers, Draw(p) PROVE TypeInv'
  <2>1. drawn \in Nat /\ drawn + 1 \in 0..MaxPublications /\ (seqNo + 1) % Width \in 0..(Width - 1)
    BY <1>7, WidthAssumption, PublicationsAssumption DEF Draw
  <2>2. [thread |-> p, draw |-> drawn, seq |-> seqNo] \in Publication
    BY <2>1 DEF Publication
  <2>3. pub' \in [Publishers -> PubType]
    BY <1>7, <2>2, TransportsAreCarriers DEF Draw, PubType
  <2> QED
    BY <1>7, <2>1, <2>3 DEF Draw, routeVars, receiverVars, PubType
<1>8. ASSUME NEW p \in Publishers, Send(p) PROVE TypeInv'
  <2> DEFINE u == Head(pub[p].todo)
  <2>1. /\ pub[p] \in PubType /\ pub[p].todo # <<>>
        /\ u \in Carriers /\ Tail(pub[p].todo) \in Seq(Carriers)
    BY <1>8, HeadAndTail DEF Send, PubType
  <2>2. onBus' \in [Carriers -> Seq(Publication)]
    <3>1. PICK e \in Publication : onBus' = [onBus EXCEPT ![u] = Append(@, e)]
      BY <1>8, Sent
    <3>2. Append(onBus[u], e) \in Seq(Publication)
      BY <2>1
    <3> QED
      BY <2>1, <3>1, <3>2
  <2>3. pub' \in [Publishers -> PubType]
    BY <1>8, <2>1 DEF Send, PubType
  <2> QED
    BY <1>8, <2>2, <2>3 DEF Send, routeVars, receiverVars, PubType
<1>9. ASSUME NEW p \in Publishers, FailToSend(p) PROVE TypeInv'
  <2>1. NoPub \in PubType
    BY DEF NoPub, PubType
  <2>2. pub' \in [Publishers -> PubType] /\ pub[p] \in PubType
    BY <1>9, <2>1 DEF FailToSend
  <2> QED
    BY <1>9, <2>2 DEF FailToSend, routeVars, receiverVars, PubType
<1>10. ASSUME NEW p \in Publishers, Published(p) PROVE TypeInv'
  <2>1. NoPub \in PubType
    BY DEF NoPub, PubType
  <2>2. pub' \in [Publishers -> PubType] /\ pub[p] \in PubType
    BY <1>10, <2>1 DEF Published
  <2> QED
    BY <1>10, <2>2 DEF Published, routeVars, receiverVars, PubType
<1>11. ASSUME NEW t \in Carriers, Deliver(t) PROVE TypeInv'
  <2>1. onBus[t][arrived[t] + 1] \in Publication
    BY <1>11 DEF Deliver
  <2>2. \A s \in Seq(Publication) : Append(s, onBus[t][arrived[t] + 1]) \in Seq(Publication)
    BY <2>1
  <2>3. /\ got' \in [Carriers -> Seq(Publication)] /\ queue' \in [Carriers -> Seq(Publication)]
        /\ due' \in [Carriers -> Seq(Publication)] /\ arrived' \in [Carriers -> Nat]
    BY <1>11, <2>2 DEF Deliver
  <2>4. UNCHANGED <<step, todo, activated, seqNo, drawn, pub, outcome, onBus, receiver, attached, read>>
    BY <1>11 DEF Deliver, routeVars, senderVars
  <2> QED
    BY <2>3, <2>4
<1>12. ASSUME NEW block \in BOOLEAN, BeginRead(block) PROVE TypeInv'
  BY <1>12, TransportsAreCarriers DEF BeginRead, ReadType, routeVars, senderVars
<1>13. ASSUME Pop PROVE TypeInv'
  <2>1. /\ read.todo # <<>> /\ Head(read.todo) \in Carriers
        /\ queue[Head(read.todo)] # <<>> /\ queue[Head(read.todo)] \in Seq(Publication)
    BY <1>13, HeadAndTail DEF Pop, Waiting
  <2>2. /\ Head(queue[Head(read.todo)]) \in Publication
        /\ Tail(queue[Head(read.todo)]) \in Seq(Publication)
    BY <2>1, HeadAndTail
  <2>3. NoRead \in ReadType
    BY DEF NoRead, ReadType
  <2>4. /\ got' \in [Carriers -> Seq(Publication)] /\ queue' \in [Carriers -> Seq(Publication)]
        /\ read' \in ReadType /\ read'.todo \in Seq(Carriers)
    <3>1. /\ got' = [got EXCEPT ![Head(read.todo)] = Append(@, Head(queue[Head(read.todo)]))]
          /\ queue' = [queue EXCEPT ![Head(read.todo)] = Tail(@)]
          /\ read' = NoRead
      BY <1>13 DEF Pop
    <3>2. \A e \in Publication : Append(got[Head(read.todo)], e) \in Seq(Publication)
      BY <2>1
    <3>3. NoRead.todo \in Seq(Carriers)
      BY <2>3 DEF ReadType
    <3> QED
      BY <2>1, <2>2, <2>3, <3>1, <3>2, <3>3
  <2>5. UNCHANGED <<receiver, attached, arrived, due, step, todo, activated, seqNo, drawn, pub, outcome, onBus>>
    BY <1>13 DEF Pop, routeVars, senderVars
  <2> QED
    BY <2>4, <2>5
<1>14. ASSUME PopNothing PROVE TypeInv'
  <2>1. Tail(read.todo) \in Seq(Carriers)
    BY <1>14, HeadAndTail DEF PopNothing
  <2> QED
    BY <1>14, <2>1 DEF PopNothing, ReadType, routeVars, senderVars
<1>15. ASSUME ReadEmpty PROVE TypeInv'
  <2>1. NoRead \in ReadType
    BY DEF NoRead, ReadType
  <2> QED
    BY <1>15, <2>1 DEF ReadEmpty, ReadType, routeVars, senderVars
<1>16. CASE UNCHANGED participantVars
  BY <1>16 DEF participantVars
<1> QED
  BY <1>1, <1>2, <1>3, <1>4, <1>5, <1>6, <1>7, <1>8, <1>9, <1>10, <1>11, <1>12, <1>13,
     <1>14, <1>15, <1>16 DEF RoutesNext, RouteStep, PublishStep, ReadStep

-----------------------------------------------------------------------------
(* Activation and deactivation *)

\* A loop that goes on drops its head; one that ends goes on with ls.
LEMMA Loops ==
    ASSUME TypeInv, NEW r \in Sides, NEW next, NEW ls, todo[r] # <<>>, Advance(r, next, ls)
    PROVE  /\ \A q \in Sides : q # r => todo'[q] = todo[q] /\ step'[q] = step[q]
           /\ \/ /\ step'[r] = step[r] /\ todo'[r] = Tail(todo[r]) /\ todo'[r] # <<>>
                 /\ Range(todo[r]) = {Head(todo[r])} \cup Range(todo'[r])
              \/ /\ step'[r] = next /\ todo'[r] = ls
                 /\ Range(todo[r]) = {Head(todo[r])}
<1>1. todo[r] \in Seq(Carriers) /\ todo \in [Sides -> Seq(Carriers)] /\ step \in [Sides -> Steps]
  BY DEF TypeInv, RoutesTypeOK
<1>2. /\ Range(todo[r]) = {Head(todo[r])} \cup Range(Tail(todo[r]))
      /\ Len(todo[r]) > 1 => Tail(todo[r]) # <<>>
      /\ ~(Len(todo[r]) > 1) => Range(todo[r]) = {Head(todo[r])}
  BY <1>1, HeadAndTail
<1>3. CASE Len(todo[r]) > 1
  BY <1>1, <1>2, <1>3 DEF Advance
<1>4. CASE ~(Len(todo[r]) > 1)
  BY <1>1, <1>2, <1>4 DEF Advance
<1> QED
  BY <1>3, <1>4

LEMMA RouteStepInv ==
    ASSUME TypeInv, RouteInv, [RoutesNext]_participantVars
    PROVE  RouteInv'
<1> USE DEF RouteInv
<1>0. /\ todo \in [Sides -> Seq(Carriers)] /\ step \in [Sides -> Steps]
      /\ activated \in [Sides -> SUBSET Carriers]
  BY DEF TypeInv, RoutesTypeOK
<1>1. ASSUME NEW r \in Sides, Construct(r) PROVE RouteInv'
  BY <1>0, <1>1, TransportsAreCarriers DEF Construct, Undone
<1>2. ASSUME NEW r \in Sides, ActivateConnector(r) PROVE RouteInv'
  <2>1. todo[r] # <<>>
    BY <1>2 DEF ActivateConnector, Undone
  <2>2. \/ Advance(r, "attaching", Transports)
        \/ Advance(r, "ready", <<>>)
    BY <1>2 DEF ActivateConnector
  <2>3. \A q \in Sides : q # r => Undone(q)'
    BY <1>0, <1>2, <2>1, <2>2, Loops DEF ActivateConnector, Undone
  <2>4. Undone(r)'
    BY <1>2, <2>1, <2>2, Loops, TransportsAreCarriers DEF ActivateConnector, Undone
  <2> QED
    BY <2>3, <2>4
<1>3. ASSUME NEW r \in Sides, FailToActivate(r) PROVE RouteInv'
  BY <1>0, <1>3, TransportsAreCarriers DEF FailToActivate, Undone
<1>4. ASSUME Attach PROVE RouteInv'
  <2>1. "in" \in Sides /\ todo["in"] # <<>> /\ Advance("in", "ready", <<>>)
    BY <1>4 DEF Attach, Undone, Sides
  <2>2. \A q \in Sides : q # "in" => Undone(q)'
    BY <1>4, <2>1, Loops DEF Attach, Undone
  <2>3. Undone("in")'
    BY <1>4, <2>1, Loops DEF Attach, Undone
  <2> QED
    BY <2>2, <2>3
<1>5. ASSUME NEW r \in Sides, Destroy(r) PROVE RouteInv'
  BY <1>0, <1>5, TransportsAreCarriers DEF Destroy, Undone
<1>6. ASSUME NEW r \in Sides, DeactivateConnector(r) PROVE RouteInv'
  <2>1. /\ todo[r] # <<>> /\ activated[r] \subseteq Range(todo[r])
        /\ activated'[r] = activated[r] \ {Head(todo[r])}
        /\ \A q \in Sides : q # r => activated'[q] = activated[q]
    BY <1>0, <1>6 DEF DeactivateConnector, Undone
  <2>2. \/ Advance(r, "failed", <<>>) /\ step[r] = "undoing"
        \/ Advance(r, "gone", <<>>) /\ step[r] = "deactivating"
    BY <1>6 DEF DeactivateConnector
  <2>3. \A q \in Sides : q # r => Undone(q)'
    BY <2>1, <2>2, Loops DEF Undone
  <2>4. Undone(r)'
    BY <2>1, <2>2, Loops DEF Undone
  <2> QED
    BY <2>3, <2>4
<1>7. CASE UNCHANGED routeVars
  BY <1>7 DEF routeVars, Undone
<1>8. /\ \A p \in Publishers : Draw(p) \/ PublishStep(p) => UNCHANGED routeVars
      /\ \A t \in Carriers : Deliver(t) => UNCHANGED routeVars
      /\ \A block \in BOOLEAN : BeginRead(block) => UNCHANGED routeVars
      /\ ReadStep => UNCHANGED routeVars
      /\ UNCHANGED participantVars => UNCHANGED routeVars
  BY DEF Draw, PublishStep, Send, FailToSend, Published, Deliver, BeginRead, ReadStep, Pop,
         PopNothing, ReadEmpty, participantVars, routeVars
<1> QED
  BY <1>1, <1>2, <1>3, <1>4, <1>5, <1>6, <1>7, <1>8 DEF RoutesNext, RouteStep

-----------------------------------------------------------------------------
(* Sequence numbers *)

\* Only a publication changes what belongs to the informer.
LEMMA OthersKeepSenders ==
    /\ \A r \in Sides : Construct(r) \/ Destroy(r) \/ RouteStep(r) => UNCHANGED senderVars
    /\ Attach => UNCHANGED senderVars
    /\ \A t \in Carriers : Deliver(t) => UNCHANGED senderVars
    /\ \A block \in BOOLEAN : BeginRead(block) => UNCHANGED senderVars
    /\ ReadStep => UNCHANGED senderVars
    /\ UNCHANGED participantVars => UNCHANGED senderVars
BY DEF Construct, Destroy, RouteStep, ActivateConnector, FailToActivate, DeactivateConnector, Attach,
       Deliver, BeginRead, ReadStep, Pop, PopNothing, ReadEmpty, participantVars, senderVars

\* What is numbered stays so while the counter grows.
LEMMA NumberStep ==
    ASSUME TypeInv, NumberInv, SendInv, [RoutesNext]_participantVars
    PROVE  NumberInv'
<1>0. drawn \in Nat
  BY PublicationsAssumption DEF TypeInv, RoutesTypeOK
<1>1. ASSUME NEW p \in Publishers, Draw(p) PROVE NumberInv'
  <2>0. PICK e : e = [thread |-> p, draw |-> drawn, seq |-> seqNo]
    OBVIOUS
  <2>1. drawn' = drawn + 1 /\ seqNo' = drawn' % Width
    BY <1>0, <1>1, NextRemainder DEF Draw, NumberInv
  <2>2. \A f \in Publication : Numbered(f) => Numbered(f)'
    BY <1>0, <2>1 DEF Numbered, Publication
  <2>3. Numbered(e)'
    BY <1>0, <2>0, <2>1 DEF Numbered, NumberInv
  <2>4. \A q \in Publishers : \A f \in pub'[q].event : f = e \/ f \in pub[q].event
    BY <1>1, <2>0 DEF Draw, TypeInv
  <2>5. \A q \in Publishers : \A f \in pub'[q].event : Numbered(f)'
    BY <2>2, <2>3, <2>4, EventTypes DEF NumberInv
  <2>6. UNCHANGED <<onBus, outcome>>
    BY <1>1 DEF Draw
  <2> QED
    <3>1. /\ \A t \in Carriers : \A f \in Range(onBus[t]) : Numbered(f)'
          /\ \A o \in {"returned", "thrown"} : \A f \in outcome[o] : Numbered(f)'
      BY <2>2, EventTypes DEF NumberInv
    <3> QED
      BY <2>1, <2>5, <2>6, <3>1 DEF NumberInv
<1>2. ASSUME NEW p \in Publishers, Send(p) PROVE NumberInv'
  <2>1. PICK e \in Publication : /\ pub[p].event = {e}
                                /\ onBus' = [onBus EXCEPT ![Head(pub[p].todo)] = Append(@, e)]
                                /\ Head(pub[p].todo) \in Carriers
    BY <1>2, Sent
  <2>2. \A t \in Carriers : Range(onBus'[t]) \subseteq Range(onBus[t]) \cup {e}
    BY <2>1, RangeOfAppend DEF TypeInv, RoutesTypeOK
  <2>3. \A q \in Publishers : pub'[q].event = pub[q].event
    BY <1>2 DEF Send, TypeInv, PubType
  <2>4. UNCHANGED <<seqNo, drawn, outcome>>
    BY <1>2 DEF Send
  <2> QED
    BY <2>1, <2>2, <2>3, <2>4 DEF NumberInv, Numbered
<1>3. ASSUME NEW p \in Publishers, FailToSend(p) \/ Published(p) PROVE NumberInv'
  <2>1. \A q \in Publishers : pub'[q].event \subseteq pub[q].event
    BY <1>3 DEF FailToSend, Published, NoPub, TypeInv
  <2>2. \A o \in {"returned", "thrown"} : outcome'[o] \subseteq outcome[o] \cup pub[p].event
    BY <1>3 DEF FailToSend, Published, TypeInv, RoutesTypeOK
  <2>3. UNCHANGED <<seqNo, drawn, onBus>>
    BY <1>3 DEF FailToSend, Published
  <2> QED
    BY <2>1, <2>2, <2>3 DEF NumberInv, Numbered
<1>4. CASE UNCHANGED senderVars
  BY <1>4 DEF senderVars, NumberInv, Numbered
<1> QED
  BY <1>1, <1>2, <1>3, <1>4, OthersKeepSenders DEF RoutesNext, PublishStep

LEMMA NumbersAreApart == TypeInv /\ NumberInv => IdsAreApart
<1> SUFFICES ASSUME TypeInv, NumberInv, NEW s \in Carriers, NEW t \in Carriers,
                    NEW e \in Range(onBus[s]), NEW f \in Range(onBus[t]),
                    e.seq = f.seq, e.draw < f.draw
             PROVE  f.draw - e.draw >= Width
  BY DEF IdsAreApart
<1>1. e.draw \in Nat /\ f.draw \in Nat
  BY EventTypes
<1>2. e.draw % Width = f.draw % Width
  BY DEF NumberInv, Numbered
<1> QED
  BY <1>1, <1>2, SameRemainder
-----------------------------------------------------------------------------
(* Publications *)

\* The end of a loop, and a thread that publishes nothing
LEMMA NothingLeft ==
    /\ Range(<<>>) = {} /\ IsInjective(<<>>)
    /\ NoPub.event = {} /\ NoPub.todo = <<>>
<1>1. DOMAIN <<>> = {}
  OBVIOUS
<1>2. Range(<<>>) = {} /\ IsInjective(<<>>)
  BY <1>1, Zenon DEF Range, IsInjective
<1> QED
  BY <1>2 DEF NoPub

LEMMA PublicationStep ==
    ASSUME TypeInv, NumberInv, SendInv, [RoutesNext]_participantVars
    PROVE  SendInv'
<1>0. /\ pub \in [Publishers -> PubType] /\ drawn \in Nat
      /\ outcome \in [{"returned", "thrown"} -> SUBSET Publication]
      /\ \A p \in Publishers : Pending(p)
  BY PublicationsAssumption DEF TypeInv, RoutesTypeOK, SendInv
<1>1. ASSUME NEW p \in Publishers, Draw(p) PROVE SendInv'
  <2>0. PICK e : e = [thread |-> p, draw |-> drawn, seq |-> seqNo]
    OBVIOUS
  <2>1. /\ e.draw = drawn
        /\ pub' = [pub EXCEPT ![p] = [event |-> {e}, todo |-> Transports]]
        /\ UNCHANGED <<outcome, onBus>>
    BY <1>1, <2>0 DEF Draw
  <2>2. /\ \A t \in Carriers : e \notin Range(onBus[t])
        /\ e \notin outcome["thrown"]
        /\ \A q \in Publishers : \A f \in pub[q].event : f.draw # e.draw
    BY <1>0, <2>1, EventTypes DEF NumberInv, Numbered
  <2>3. /\ pub'[p].event = {e} /\ pub'[p].todo = Transports
        /\ \A q \in Publishers \ {p} : pub'[q] = pub[q]
    BY <1>0, <2>1
  <2>4. Pending(p)'
    BY <2>1, <2>2, <2>3, TransportsAreCarriers DEF Pending
  <2>5. ASSUME NEW q \in Publishers \ {p} PROVE Pending(q)'
    BY <1>0, <2>1, <2>2, <2>3 DEF Pending
  <2>6. ReturnMeansSent'
    BY <2>1 DEF SendInv, ReturnMeansSent
  <2> QED
    BY <2>4, <2>5, <2>6 DEF SendInv
<1>2. ASSUME NEW p \in Publishers, Send(p) PROVE SendInv'
  <2> DEFINE u == Head(pub[p].todo)
  <2>1. PICK e \in Publication : /\ pub[p].event = {e} /\ pub[p].todo # <<>> /\ u \in Carriers
                                /\ onBus' = [onBus EXCEPT ![u] = Append(@, e)]
    BY <1>2, Sent
  <2>2. /\ pub[p].todo \in Seq(Carriers) /\ u \notin Range(Tail(pub[p].todo))
        /\ Range(pub[p].todo) = {u} \cup Range(Tail(pub[p].todo))
        /\ IsInjective(Tail(pub[p].todo))
    <3>1. pub[p].todo \in Seq(Carriers) /\ pub[p].todo # <<>> /\ IsInjective(pub[p].todo)
      BY <1>0, <2>1 DEF Pending, PubType
    <3> QED
      BY <3>1, HeadAndTail
  <2>3. /\ Range(onBus'[u]) = Range(onBus[u]) \cup {e}
        /\ \A t \in Carriers \ {u} : onBus'[t] = onBus[t]
    <3>1. onBus \in [Carriers -> Seq(Publication)] /\ onBus[u] \in Seq(Publication)
      BY <2>1 DEF TypeInv, RoutesTypeOK
    <3>2. onBus'[u] = Append(onBus[u], e) /\ \A t \in Carriers \ {u} : onBus'[t] = onBus[t]
      BY <2>1, <3>1
    <3>3. Range(Append(onBus[u], e)) = Range(onBus[u]) \cup {e}
      BY <3>1, RangeOfAppend
    <3> QED
      BY <3>2, <3>3
  <2>4. /\ pub'[p].event = {e} /\ pub'[p].todo = Tail(pub[p].todo)
        /\ \A q \in Publishers \ {p} : pub'[q] = pub[q]
        /\ \A q \in Publishers : pub'[q].event = pub[q].event
        /\ UNCHANGED outcome
    BY <1>0, <1>2, <2>1 DEF Send, PubType
  <2>5. Pending(p)'
    BY <1>0, <2>1, <2>2, <2>3, <2>4 DEF Pending
  <2>6. ASSUME NEW q \in Publishers \ {p} PROVE Pending(q)'
    <3>1. \A f \in pub[q].event : f # e
      BY <1>0, <2>1 DEF Pending
    <3>2. \A f \in pub[q].event : \A t \in Carriers : f \in Range(onBus'[t]) <=> f \in Range(onBus[t])
      BY <2>3, <3>1
    <3> QED
      BY <1>0, <2>4, <3>2 DEF Pending
  <2>7. ReturnMeansSent'
    <3>1. e \notin outcome["thrown"]
      BY <1>0, <2>1 DEF Pending
    <3>2. \A t \in Carriers : \A f : f # e => (f \in Range(onBus'[t]) <=> f \in Range(onBus[t]))
      BY <2>3
    <3>3. \A t \in Carriers : Range(onBus[t]) \subseteq Range(onBus'[t])
      BY <2>3
    <3> QED
      BY <2>4, <3>1, <3>2, <3>3 DEF SendInv, ReturnMeansSent
  <2> QED
    BY <2>5, <2>6, <2>7 DEF SendInv
<1>3. ASSUME NEW p \in Publishers, FailToSend(p) \/ Published(p) PROVE SendInv'
  <2>1. pub[p] # NoPub
    BY <1>3, NothingLeft DEF FailToSend, Published
  <2>2. PICK e \in Publication : pub[p].event = {e}
    BY <2>1, OneEvent
  <2>3. /\ pub'[p] = NoPub /\ onBus' = onBus
        /\ \A q \in Publishers \ {p} : pub'[q] = pub[q]
        /\ \A q \in Publishers : pub'[q].event \subseteq pub[q].event
    BY <1>0, <1>3, NothingLeft DEF FailToSend, Published
  <2>4. \/ /\ pub[p].todo # <<>>
           /\ outcome'["thrown"] = outcome["thrown"] \cup {e}
           /\ outcome'["returned"] = outcome["returned"]
        \/ /\ pub[p].todo = <<>>
           /\ outcome'["returned"] = outcome["returned"] \cup {e}
           /\ outcome'["thrown"] = outcome["thrown"]
    BY <1>0, <1>3, <2>2 DEF FailToSend, Published
  <2>5. Pending(p)'
    BY <2>3, NothingLeft DEF Pending
  <2>6. ASSUME NEW q \in Publishers \ {p} PROVE Pending(q)'
    <3>1. \A f \in pub[q].event : f # e
      BY <1>0, <2>2 DEF Pending
    <3>2. outcome'["thrown"] \subseteq outcome["thrown"] \cup {e}
      BY <2>4
    <3> QED
      BY <1>0, <2>3, <3>1, <3>2 DEF Pending
  <2>7. pub[p].todo # <<>> => \E t \in Carriers : e \notin Range(onBus[t])
    <3> SUFFICES ASSUME pub[p].todo # <<>> PROVE \E t \in Carriers : e \notin Range(onBus[t])
      OBVIOUS
    <3>1. pub[p].todo \in Seq(Carriers)
      BY <1>0 DEF PubType
    <3>2. Head(pub[p].todo) \in Carriers /\ Head(pub[p].todo) \in Range(pub[p].todo)
      BY <3>1, HeadAndTail
    <3> QED
      BY <1>0, <2>2, <3>2 DEF Pending
  <2>8. pub[p].todo = <<>> => \A t \in Carriers : e \in Range(onBus[t])
    BY <1>0, <2>2, NothingLeft DEF Pending
  <2>9. ReturnMeansSent'
    BY <2>3, <2>4, <2>7, <2>8 DEF SendInv, ReturnMeansSent
  <2> QED
    BY <2>5, <2>6, <2>9 DEF SendInv
<1>4. CASE UNCHANGED senderVars
  BY <1>4 DEF senderVars, SendInv, Pending, ReturnMeansSent
<1> QED
  BY <1>1, <1>2, <1>3, <1>4, OthersKeepSenders DEF RoutesNext, PublishStep

-----------------------------------------------------------------------------
(* The receiver *)

LifeStep == Attach \/ \E r \in Sides : Construct(r) \/ Destroy(r) \/ RouteStep(r)

\* How the receiver's route and its handlers may go on
Prepared ==
    /\ step["in"] \in {"new", "activating", "undoing"} /\ attached' = attached
    /\ step'["in"] \in {"activating", "undoing", "failed"}
Activated ==
    /\ step["in"] = "activating" /\ attached' = attached
    /\ IF receiver = "listener" THEN step'["in"] = "attaching" /\ todo'["in"] = Transports
                                ELSE step'["in"] = "ready"
Attached ==
    /\ step["in"] = "attaching"
    /\ attached' = attached \cup {Head(todo["in"])}
    /\ \/ step'["in"] = "attaching" /\ Range(todo["in"]) = {Head(todo["in"])} \cup Range(todo'["in"])
       \/ step'["in"] = "ready" /\ Range(todo["in"]) = {Head(todo["in"])}
Destroyed ==
    /\ step["in"] \in {"ready", "deactivating"} /\ attached' = attached
    /\ step'["in"] \in {"deactivating", "gone"}
Untouched ==
    step'["in"] = step["in"] /\ todo'["in"] = todo["in"] /\ attached' = attached

LEMMA LifeOfReceiver ==
    ASSUME TypeInv, RouteInv, LifeStep
    PROVE  /\ UNCHANGED <<receiver, queue, got, due, read>>
           /\ Prepared \/ Activated \/ Attached \/ Destroyed \/ Untouched
<1>0. /\ todo \in [Sides -> Seq(Carriers)] /\ step \in [Sides -> Steps]
      /\ "in" \in Sides /\ "out" \in Sides /\ \A r \in Sides : r = "in" \/ r = "out"
  BY DEF TypeInv, RoutesTypeOK, Sides
<1>1. UNCHANGED <<receiver, queue, got, due, read>>
  BY DEF LifeStep, Construct, Destroy, RouteStep, ActivateConnector, FailToActivate, DeactivateConnector,
         Attach, receiverVars
<1>2. ASSUME NEW r \in Sides, Construct(r) \/ Destroy(r) \/ FailToActivate(r)
      PROVE  Prepared \/ Destroyed \/ Untouched
  BY <1>0, <1>2 DEF Construct, Destroy, FailToActivate, receiverVars, Prepared, Destroyed, Untouched
<1>3. ASSUME NEW r \in Sides, ActivateConnector(r)
      PROVE  Prepared \/ Activated \/ Untouched
  <2>1. todo[r] # <<>> /\ step[r] = "activating" /\ attached' = attached
    BY <1>3 DEF ActivateConnector, RouteInv, Undone, receiverVars
  <2>2. IF r = "in" /\ receiver = "listener" THEN Advance(r, "attaching", Transports)
                                            ELSE Advance(r, "ready", <<>>)
    BY <1>3 DEF ActivateConnector
  <2>3. CASE r = "in"
    <3>1. CASE receiver = "listener"
      BY <1>0, <2>1, <2>2, <2>3, <3>1, Loops DEF Prepared, Activated
    <3>2. CASE receiver # "listener"
      BY <1>0, <2>1, <2>2, <2>3, <3>2, Loops DEF Prepared, Activated
    <3> QED
      BY <3>1, <3>2
  <2>4. CASE r = "out"
    BY <1>0, <2>1, <2>2, <2>4, Loops DEF Untouched
  <2> QED
    BY <1>0, <2>3, <2>4
<1>4. ASSUME NEW r \in Sides, DeactivateConnector(r)
      PROVE  Prepared \/ Destroyed \/ Untouched
  <2>1. todo[r] # <<>> /\ attached' = attached
    BY <1>4 DEF DeactivateConnector, RouteInv, Undone, receiverVars
  <2>2. \/ Advance(r, "failed", <<>>) /\ step[r] = "undoing"
        \/ Advance(r, "gone", <<>>) /\ step[r] = "deactivating"
    BY <1>4 DEF DeactivateConnector
  <2>3. CASE r = "in"
    BY <1>0, <2>1, <2>2, <2>3, Loops DEF Prepared, Destroyed
  <2>4. CASE r = "out"
    BY <1>0, <2>1, <2>2, <2>4, Loops DEF Untouched
  <2> QED
    BY <1>0, <2>3, <2>4
<1>5. ASSUME Attach PROVE Attached
  <2>1. /\ todo["in"] # <<>> /\ step["in"] = "attaching"
        /\ Advance("in", "ready", <<>>) /\ attached' = attached \cup {Head(todo["in"])}
    BY <1>0, <1>5 DEF Attach, RouteInv, Undone
  <2> QED
    BY <1>0, <2>1, Loops DEF Attached
<1> QED
  BY <1>1, <1>2, <1>3, <1>4, <1>5 DEF LifeStep, RouteStep

\* Only the life of the route, a delivery and a read change what belongs to
\* the receiver.
LEMMA OthersKeepReceiver ==
    ASSUME NEW p \in Publishers, Draw(p) \/ PublishStep(p)
    PROVE  UNCHANGED <<routeVars, receiverVars>>
BY DEF Draw, PublishStep, Send, FailToSend, Published

LEMMA HandlerStep ==
    ASSUME TypeInv, RouteInv, ListenerInv, ReaderInv, [RoutesNext]_participantVars
    PROVE  ListenerInv' /\ ReaderInv'
<1>1. CASE LifeStep
  <2>1. UNCHANGED <<receiver, queue, read>>
    BY <1>1, LifeOfReceiver
  <2>2. CASE Prepared
    BY <2>1, <2>2 DEF Prepared, ListenerInv, ReaderInv
  <2>3. CASE Activated
    BY <2>1, <2>3, TransportsAreCarriers DEF Activated, ListenerInv, ReaderInv
  <2>4. CASE Attached
    BY <2>1, <2>4 DEF Attached, ListenerInv, ReaderInv
  <2>5. CASE Destroyed
    BY <2>1, <2>5 DEF Destroyed, ListenerInv, ReaderInv
  <2>6. CASE Untouched
    BY <2>1, <2>6 DEF Untouched, ListenerInv, ReaderInv
  <2> QED
    BY <1>1, <2>2, <2>3, <2>4, <2>5, <2>6, LifeOfReceiver
<1>2. ASSUME NEW p \in Publishers, Draw(p) \/ PublishStep(p) PROVE ListenerInv' /\ ReaderInv'
  BY <1>2, OthersKeepReceiver DEF routeVars, receiverVars, ListenerInv, ReaderInv
<1>3. ASSUME NEW t \in Carriers, Deliver(t) PROVE ListenerInv' /\ ReaderInv'
  <2>1. UNCHANGED <<step, todo, receiver, attached, read>> /\ (receiver = "listener" => queue' = queue)
    BY <1>3 DEF Deliver, routeVars
  <2> QED
    BY <2>1 DEF ListenerInv, ReaderInv
<1>4. ASSUME NEW block \in BOOLEAN, BeginRead(block) PROVE ListenerInv' /\ ReaderInv'
  BY <1>4 DEF BeginRead, routeVars, ListenerInv, ReaderInv
<1>5. CASE ReadStep
  <2>1. read.on /\ UNCHANGED <<step, todo, receiver, attached>>
    BY <1>5 DEF ReadStep, Pop, PopNothing, ReadEmpty, routeVars
  <2> QED
    BY <2>1 DEF ListenerInv, ReaderInv
<1>6. CASE UNCHANGED participantVars
  BY <1>6 DEF participantVars, ListenerInv, ReaderInv
<1> QED
  BY <1>1, <1>2, <1>3, <1>4, <1>5, <1>6 DEF RoutesNext, LifeStep

\* A delivery appends its event to what the receiver has, or changes nothing
\* that matters.
LEMMA DeliverySuffix ==
    ASSUME TypeInv, RouteInv, ListenerInv, ReaderInv, DueInv, NEW t \in Carriers, Deliver(t)
    PROVE  NothingMissed'
<1>1. PICK e \in Publication : e = onBus[t][arrived[t] + 1]
  BY DEF Deliver, TypeInv, RoutesTypeOK
<1>2. /\ got \in [Carriers -> Seq(Publication)] /\ queue \in [Carriers -> Seq(Publication)]
      /\ due \in [Carriers -> Seq(Publication)]
      /\ receiver = "listener" \/ receiver = "reader"
  BY KindsAssumption DEF TypeInv, RoutesTypeOK
<1>3. \A u \in Carriers \ {t} : got'[u] = got[u] /\ queue'[u] = queue[u] /\ due'[u] = due[u]
  BY <1>2 DEF Deliver
<1>4. CASE ~(t \in activated["in"])
  <2>1. got' = got /\ queue' = queue /\ due' = due
    BY <1>4 DEF Deliver
  <2> QED
    BY <2>1 DEF DueInv, NothingMissed
<1>5. CASE t \in activated["in"] /\ step["in"] \in {"ready", "deactivating"}
  <2>1. /\ due'[t] = Append(due[t], e) /\ Append(due[t], e) \in Seq(Publication)
        /\ due[t] \in Seq(Publication) /\ got[t] \o queue[t] \in Seq(Publication)
    BY <1>1, <1>2, <1>5 DEF Deliver
  <2>2. got'[t] \o queue'[t] = Append(got[t] \o queue[t], e)
    <3>1. CASE receiver = "listener"
      <4>1. got'[t] = Append(got[t], e) /\ queue'[t] = <<>> /\ queue[t] = <<>>
        BY <1>1, <1>2, <1>5, <3>1 DEF Deliver, ListenerInv
      <4>2. got[t] \o <<>> = got[t] /\ Append(got[t], e) \o <<>> = Append(got[t], e)
        BY <1>2
      <4> QED
        BY <4>1, <4>2
    <3>2. CASE receiver = "reader"
      <4>1. got'[t] = got[t] /\ queue'[t] = Append(queue[t], e)
        BY <1>1, <1>2, <1>5, <3>2 DEF Deliver, ReaderInv
      <4>2. got[t] \o Append(queue[t], e) = Append(got[t] \o queue[t], e)
        BY <1>2
      <4> QED
        BY <4>1, <4>2
    <3> QED
      BY <1>2, <3>1, <3>2
  <2>3. IsSuffix(due'[t], got'[t] \o queue'[t])
    BY <2>1, <2>2, SuffixOfBoth DEF DueInv, NothingMissed
  <2> QED
    BY <1>3, <2>3 DEF DueInv, NothingMissed
<1>6. CASE t \in activated["in"] /\ step["in"] \notin {"ready", "deactivating"}
  <2>1. due'[t] = <<>>
    <3>1. step["in"] # "gone"
      BY <1>6 DEF RouteInv, Undone, Sides
    <3>2. step["in"] \in Steps
      BY DEF TypeInv, RoutesTypeOK, Sides
    <3>3. due[t] = <<>> /\ due' = due
      BY <1>6, <3>1, <3>2 DEF Deliver, DueInv, Steps
    <3> QED
      BY <3>3
  <2>2. got'[t] \in Seq(Publication) /\ queue'[t] \in Seq(Publication)
    BY <1>1, <1>2 DEF Deliver
  <2>3. got'[t] \o queue'[t] \in Seq(Publication)
    BY <2>2
  <2>4. IsSuffix(<<>>, got'[t] \o queue'[t])
    BY <2>3, NothingIsSuffix
  <2>5. IsSuffix(due'[t], got'[t] \o queue'[t])
    BY <2>1, <2>4
  <2> QED
    BY <1>3, <2>5 DEF DueInv, NothingMissed
<1> QED
  BY <1>4, <1>5, <1>6

LEMMA DueStep ==
    ASSUME TypeInv, RouteInv, ListenerInv, ReaderInv, DueInv, [RoutesNext]_participantVars
    PROVE  DueInv'
<1> DEFINE Early(s) == s \in {"new", "activating", "attaching", "undoing", "failed"}
<1>1. CASE LifeStep
  <2>1. UNCHANGED <<queue, got, due>>
    BY <1>1, LifeOfReceiver
  <2>2. Early(step'["in"]) => Early(step["in"])
    BY <1>1, LifeOfReceiver DEF Prepared, Activated, Attached, Destroyed, Untouched
  <2> QED
    BY <2>1, <2>2 DEF DueInv, NothingMissed
<1>2. ASSUME NEW p \in Publishers, Draw(p) \/ PublishStep(p) PROVE DueInv'
  BY <1>2, OthersKeepReceiver DEF routeVars, receiverVars, DueInv, NothingMissed
<1>3. ASSUME NEW t \in Carriers, Deliver(t) PROVE DueInv'
  <2>1. step' = step /\ (Early(step["in"]) => due' = due)
    BY <1>3 DEF Deliver, routeVars
  <2>2. NothingMissed'
    BY <1>3, DeliverySuffix
  <2> QED
    BY <2>1, <2>2 DEF DueInv
<1>4. ASSUME NEW block \in BOOLEAN, BeginRead(block) PROVE DueInv'
  BY <1>4 DEF BeginRead, routeVars, DueInv, NothingMissed
<1>5. CASE Pop
  <2> DEFINE t == Head(read.todo)
  <2>1. /\ got \in [Carriers -> Seq(Publication)] /\ queue \in [Carriers -> Seq(Publication)]
        /\ t \in Carriers /\ queue[t] # <<>>
    BY <1>5 DEF Pop, Waiting, TypeInv, RoutesTypeOK
  <2>2. /\ got'[t] = Append(got[t], Head(queue[t])) /\ queue'[t] = Tail(queue[t])
        /\ \A u \in Carriers \ {t} : got'[u] = got[u] /\ queue'[u] = queue[u]
        /\ step' = step /\ due' = due
    BY <1>5, <2>1 DEF Pop, routeVars
  <2>3. Append(got[t], Head(queue[t])) \o Tail(queue[t]) = got[t] \o queue[t]
    BY <2>1, HeadMoves
  <2>4. \A u \in Carriers : got'[u] \o queue'[u] = got[u] \o queue[u]
    BY <2>2, <2>3
  <2> QED
    BY <2>2, <2>4 DEF DueInv, NothingMissed
<1>6. CASE PopNothing \/ ReadEmpty \/ UNCHANGED participantVars
  <2>1. UNCHANGED <<step, queue, got, due>>
    BY <1>6 DEF PopNothing, ReadEmpty, participantVars, routeVars
  <2> QED
    BY <2>1 DEF DueInv, NothingMissed
<1> QED
  BY <1>1, <1>2, <1>3, <1>4, <1>5, <1>6 DEF RoutesNext, LifeStep, ReadStep

\* A queue that is not empty stays so until a read pops from it.
LEMMA ReadInvStep ==
    ASSUME TypeInv, RouteInv, ReadInv, [RoutesNext]_participantVars
    PROVE  ReadInv'
<1>1. CASE LifeStep
  <2>1. UNCHANGED <<queue, read>>
    BY <1>1, LifeOfReceiver
  <2> QED
    BY <2>1 DEF ReadInv
<1>2. ASSUME NEW p \in Publishers, Draw(p) \/ PublishStep(p) PROVE ReadInv'
  BY <1>2, OthersKeepReceiver DEF receiverVars, ReadInv
<1>3. ASSUME NEW t \in Carriers, Deliver(t) PROVE ReadInv'
  <2>1. \A s \in Seq(Publication) : \A e : Append(s, e) # <<>>
    <3>1. \A s \in Seq(Publication) : \A e : Len(Append(s, e)) # 0
      OBVIOUS
    <3>2. Len(<<>>) = 0
      OBVIOUS
    <3> QED
      BY <3>1, <3>2, Zenon
  <2>2. queue \in [Carriers -> Seq(Publication)]
    BY DEF TypeInv, RoutesTypeOK
  <2>3. \A u \in Carriers : queue[u] # <<>> => queue'[u] # <<>>
    BY <1>3, <2>1, <2>2 DEF Deliver
  <2>4. read' = read
    BY <1>3 DEF Deliver
  <2> QED
    BY <2>3, <2>4 DEF ReadInv
<1>4. ASSUME NEW block \in BOOLEAN, BeginRead(block) PROVE ReadInv'
  <2>1. read'.todo = Transports /\ read'.there = (Waiting # {}) /\ queue' = queue
    BY <1>4 DEF BeginRead
  <2> QED
    BY <2>1, TransportsAreCarriers DEF ReadInv, Waiting
<1>5. CASE Pop \/ ReadEmpty
  <2>1. read' = NoRead
    BY <1>5 DEF Pop, ReadEmpty
  <2> QED
    BY <2>1 DEF ReadInv, NoRead
<1>6. CASE PopNothing
  <2>1. /\ read \in ReadType /\ read.todo \in Seq(Carriers) /\ read.todo # <<>> /\ read.on
        /\ queue' = queue /\ read' = [read EXCEPT !.todo = Tail(@)]
        /\ Head(read.todo) \notin Waiting
    BY <1>6 DEF PopNothing, TypeInv, RoutesTypeOK
  <2>2. read'.todo = Tail(read.todo) /\ read'.there = read.there
    BY <2>1 DEF ReadType
  <2>3. Range(read.todo) = {Head(read.todo)} \cup Range(Tail(read.todo))
    BY <2>1, HeadAndTail
  <2>4. \A t \in Carriers : t \in Range(read.todo) /\ queue[t] # <<>> => t \in Range(Tail(read.todo))
    BY <2>1, <2>3 DEF Waiting
  <2> QED
    BY <2>1, <2>2, <2>4 DEF ReadInv
<1>7. CASE UNCHANGED participantVars
  BY <1>7 DEF participantVars, ReadInv
<1> QED
  BY <1>1, <1>2, <1>3, <1>4, <1>5, <1>6, <1>7 DEF RoutesNext, LifeStep, ReadStep

-----------------------------------------------------------------------------
(* The theorems *)

LEMMA InitInv == RoutesInit => RoutesInv
<1> SUFFICES ASSUME RoutesInit PROVE RoutesInv
  OBVIOUS
<1>1. TypeInv
  BY InitTypes
<1>2. RouteInv /\ ListenerInv /\ ReaderInv /\ ReadInv
  BY DEF RoutesInit, RouteInv, Undone, ListenerInv, ReaderInv, ReadInv, NoRead, Sides
<1>3. NumberInv
  <2>1. 0 % Width = 0
    BY WidthAssumption
  <2> QED
    BY <2>1, NothingLeft DEF RoutesInit, NumberInv
<1>4. SendInv
  <2>1. \A p \in Publishers : pub[p] = NoPub
    BY DEF RoutesInit
  <2>2. \A p \in Publishers : Pending(p)
    BY <2>1, NothingLeft DEF Pending
  <2> QED
    BY <2>2 DEF RoutesInit, SendInv, ReturnMeansSent
<1>5. DueInv
  <2>1. <<>> \in Seq(Publication) /\ <<>> \o <<>> \in Seq(Publication)
    OBVIOUS
  <2>2. IsSuffix(<<>>, <<>> \o <<>>)
    BY <2>1, NothingIsSuffix
  <2> QED
    BY <2>2 DEF RoutesInit, DueInv, NothingMissed
<1> QED
  BY <1>1, <1>2, <1>3, <1>4, <1>5 DEF RoutesInv

LEMMA InvStep == RoutesInv /\ [RoutesNext]_participantVars => RoutesInv'
BY TypeStep, RouteStepInv, NumberStep, PublicationStep, HandlerStep, DueStep, ReadInvStep DEF RoutesInv

\* The routes, publications and reads are what their types say (Informer.cpp,
\* OutRouteConfigurator.cpp, InRouteConfigurator.cpp, Reader.cpp).
THEOREM RoutesTypeCorrect == RoutesSpec => []RoutesTypeOK
<1>1. RoutesInv => RoutesTypeOK
  BY DEF RoutesInv, TypeInv
<1> QED
  BY <1>1, InitInv, InvStep, PTL DEF RoutesSpec

\* A participant whose constructor threw, at whichever connector, or whose
\* destructor returned, leaves no connector active (InRouteConfigurator.cpp:71
\* and :103, OutRouteConfigurator.cpp:70 and :101).
THEOREM NothingStaysActive == RoutesSpec => []NoneLeftActive
<1>1. RoutesInv => NoneLeftActive
  BY DEF RoutesInv, RouteInv, Undone, NoneLeftActive
<1> QED
  BY <1>1, InitInv, InvStep, PTL DEF RoutesSpec

\* With any number of threads and any width of the counter, two events with one
\* identifier are a whole round apart (Informer.cpp:142).
THEOREM NumbersApart == RoutesSpec => []IdsAreApart
<1>1. RoutesInv => IdsAreApart
  BY NumbersAreApart DEF RoutesInv
<1> QED
  BY <1>1, InitInv, InvStep, PTL DEF RoutesSpec

\* What publish() says of an event is true of every transport, and what a
\* transport hands to a participant that has been constructed it gets, or finds
\* (DirectEventSendingStrategy.cpp:56, PushInRouteConfigurator.cpp:64,
\* PullEventReceivingStrategy.cpp:69).
THEOREM EventsFlow == RoutesSpec => []EventsArrive
<1>1. RoutesInv => EventsArrive
  BY NothingLeft DEF RoutesInv, SendInv, DueInv, ReadInv, FindsWhatIsThere, EventsArrive
<1> QED
  BY <1>1, InitInv, InvStep, PTL DEF RoutesSpec
===============================================================================
