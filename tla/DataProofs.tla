------------------------------ MODULE DataProofs ------------------------------
(***************************************************************************)
(* Proofs about the modules of the run Data: the configuration of a process,  *)
(* its description, the times of an event, the calls of a method, the         *)
(* conversion of collections of events, the way of an event from the informer *)
(* to those who hear it, and the strings of scopes.                           *)
(***************************************************************************)
EXTENDS ScopeSyntax, DataPath, EventsByScope, TypedCalls, ProcessDescription, TimeStamps,
        TLAPS, WellFoundedInduction

\* Induction, as far as the provers can instantiate it
LEMMA LeastNatural ==
    ASSUME NEW T \in SUBSET Nat, T # {}
    PROVE  \E x \in T : \A y \in T : x <= y
<1> DEFINE R == OpToRel(<, Nat)
<1>1. R = {ss \in Nat \X Nat : ss[1] < ss[2]}
  BY DEF OpToRel
<1>2. IsWellFoundedOn(R, Nat)
  BY NatLessThanWellFounded
<1> HIDE DEF R
<1>3. PICK x \in T : \A y \in T : ~ (<<y, x>> \in R)
  BY <1>2, WFMin
<1>4. \A y \in T : ~ (y < x)
  BY <1>1, <1>3
<1> QED
  BY <1>4

-----------------------------------------------------------------------------
(* What was given last *)

\* What keys and values are made of: the provers do not know of a literal that
\* it is a string.
Words == STRING \cup {"transport", "enabled", "0", "1", "inprocess", "socket",
                      "qualityofservice", "ordering", "UNORDERED", "ORDERED",
                      "errorhandling", "onhandlererror", "LOG", "PRINT", "EXIT",
                      "eventprocessing", "receivingstrategy", "direct", "parallel",
                      "introspection"}

OptionRecord == [key : Seq(Words), value : Words]

\* The parts of an option
LEMMA AnOption ==
    ASSUME NEW o \in Options
    PROVE  o \in OptionRecord /\ o.key \in Seq(Words) /\ o.value \in Words /\ Len(o.key) >= 1
<1>1. o \in [key : Seq(STRING), value : STRING] /\ Len(o.key) >= 1
  BY OptionsAssumption
<1>2. o.key \in Seq(Words) /\ o.value \in Words
  <2>1. STRING \subseteq Words
    BY DEF Words
  <2>2. \A n \in Nat : \A f \in [1..n -> Words] : f \in Seq(Words)
    OBVIOUS
  <2>3. PICK n \in Nat : o.key \in [1..n -> STRING]
    BY <1>1
  <2>4. o.key \in [1..n -> Words]
    BY <2>1, <2>3
  <2>5. o.key \in Seq(Words)
    BY <2>2, <2>4
  <2>6. QED
    BY <1>1, <2>1, <2>5
<1>3. o = [key |-> o.key, value |-> o.value]
  BY <1>1
<1>4. QED
  BY <1>1, <1>2, <1>3 DEF OptionRecord

\* A place in a list that comes last among some
LEMMA LastPlace ==
    ASSUME NEW n \in Nat, NEW P \in SUBSET (1..n), P # {}
    PROVE  \E i \in P : \A j \in P : j <= i
<1> DEFINE T == {n - i : i \in P}
<1>1. T \in SUBSET Nat /\ T # {}
  <2>1. \A i \in P : n - i \in Nat
    OBVIOUS
  <2>2. QED
    BY <2>1
<1>2. PICK x \in T : \A y \in T : x <= y
  BY <1>1, LeastNatural
<1>3. PICK i \in P : x = n - i
  BY <1>2
<1>4. ASSUME NEW j \in P PROVE j <= i
  <2>1. x <= n - j
    BY <1>2
  <2>2. QED
    BY <1>3, <2>1
<1>5. QED
  BY <1>4

\* An option that comes last is the last word on what it is about, and says
\* nothing about anything else.
LEMMA LastAtAppend ==
    ASSUME NEW options \in Seq(OptionRecord), NEW o \in OptionRecord,
           NEW P \in SUBSET (DOMAIN options), NEW default
    PROVE  /\ LastAt(Append(options, o), P, default) = LastAt(options, P, default)
           /\ LastAt(Append(options, o), P \cup {Len(options) + 1}, default) = o.value
<1> DEFINE n == Len(options)
           more == Append(options, o)
           Q == P \cup {n + 1}
<1>1. /\ n \in Nat /\ DOMAIN options = 1..n /\ more[n + 1] = o
      /\ \A i \in 1..n : more[i] = options[i]
  OBVIOUS
<1>2. LastAt(more, P, default) = LastAt(options, P, default)
  <2>1. CASE P = {}
    BY <2>1 DEF LastAt
  <2>2. CASE P # {}
    <3> DEFINE last == CHOOSE i \in P : \A j \in P : j <= i
    <3>1. \E i \in P : \A j \in P : j <= i
      BY <1>1, <2>2, LastPlace
    <3>2. last \in P
      BY <3>1
    <3> HIDE DEF last
    <3>3. more[last] = options[last]
      BY <1>1, <3>2
    <3>4. QED
      BY <2>2, <3>3 DEF LastAt, last
  <2>3. QED
    BY <2>1, <2>2
<1>3. LastAt(more, Q, default) = o.value
  <2> DEFINE last == CHOOSE i \in Q : \A j \in Q : j <= i
  <2>1. n + 1 \in Q /\ \A j \in Q : j \in Nat /\ j <= n + 1
    BY <1>1
  <2>2. last \in Q /\ \A j \in Q : j <= last
    BY <2>1
  <2> HIDE DEF last
  <2>3. last = n + 1
    BY <1>1, <2>1, <2>2
  <2>4. LastAt(more, Q, default) = more[last].value
    BY <2>1 DEF LastAt, last
  <2>5. QED
    BY <1>1, <2>3, <2>4
<1>4. QED
  BY <1>2, <1>3

\* Does an option set a setting?
Sets(o, section, key) ==
    /\ o.key[1] = section /\ o.key[2] = key
    /\ Len(o.key) = 2 \/ section = "errorhandling"

\* What giving one more option does to the last words
LEMMA OneMore ==
    ASSUME given \in Seq(OptionRecord), NEW o \in OptionRecord, given' = Append(given, o)
    PROVE  /\ given' \in Seq(OptionRecord)
           /\ \A key : (GivenAt(key))' = IF o.key = key THEN GivenAt(key) \cup {Len(given) + 1}
                                         ELSE GivenAt(key)
           /\ \A key, default : LastAt(given', (GivenAt(key))', default)
                     = IF o.key = key THEN o.value ELSE LastAt(given, GivenAt(key), default)
           /\ \A section, key, default : LastAt(given', (SettingAt(section, key))', default)
                     = IF Sets(o, section, key) THEN o.value
                       ELSE LastAt(given, SettingAt(section, key), default)
<1> DEFINE n == Len(given)
<1>1. /\ n \in Nat /\ DOMAIN given = 1..n /\ DOMAIN given' = (1..n) \cup {n + 1}
      /\ given'[n + 1] = o /\ \A i \in 1..n : given'[i] = given[i]
      /\ given' \in Seq(OptionRecord)
  OBVIOUS
<1>2. ASSUME NEW key
      PROVE  (GivenAt(key))' = IF o.key = key THEN GivenAt(key) \cup {n + 1} ELSE GivenAt(key)
  BY <1>1 DEF GivenAt
<1>3. ASSUME NEW section, NEW key
      PROVE  (SettingAt(section, key))' = IF Sets(o, section, key)
                                          THEN SettingAt(section, key) \cup {n + 1}
                                          ELSE SettingAt(section, key)
  BY <1>1 DEF SettingAt, Sets
<1>4. ASSUME NEW P \in SUBSET (DOMAIN given), NEW default
      PROVE  /\ LastAt(given', P, default) = LastAt(given, P, default)
             /\ LastAt(given', P \cup {n + 1}, default) = o.value
  BY LastAtAppend
<1>5. ASSUME NEW key, NEW default
      PROVE  LastAt(given', (GivenAt(key))', default)
                 = IF o.key = key THEN o.value ELSE LastAt(given, GivenAt(key), default)
  <2>1. GivenAt(key) \in SUBSET (DOMAIN given)
    BY DEF GivenAt
  <2>2. QED
    BY <1>2, <1>4, <2>1
<1>6. ASSUME NEW section, NEW key, NEW default
      PROVE  LastAt(given', (SettingAt(section, key))', default)
                 = IF Sets(o, section, key) THEN o.value
                   ELSE LastAt(given, SettingAt(section, key), default)
  <2>1. SettingAt(section, key) \in SUBSET (DOMAIN given)
    BY DEF SettingAt
  <2>2. QED
    BY <1>3, <1>4, <2>1
<1>7. QED
  BY <1>1, <1>2, <1>5, <1>6

\* Keys are told apart component by component.
LEMMA KeyIs ==
    ASSUME NEW k \in Seq(Words)
    PROVE  /\ \A a : k = <<a>> <=> Len(k) = 1 /\ k[1] = a
           /\ \A a, b : k = <<a, b>> <=> Len(k) = 2 /\ k[1] = a /\ k[2] = b
           /\ \A a, b, c : k = <<a, b, c>> <=> Len(k) = 3 /\ k[1] = a /\ k[2] = b /\ k[3] = c
<1>1. ASSUME NEW a, Len(k) = 1, k[1] = a PROVE k = <<a>>
  BY <1>1
<1>2. ASSUME NEW a, NEW b, Len(k) = 2, k[1] = a, k[2] = b PROVE k = <<a, b>>
  BY <1>2
<1>3. ASSUME NEW a, NEW b, NEW c, Len(k) = 3, k[1] = a, k[2] = b, k[3] = c PROVE k = <<a, b, c>>
  BY <1>3
<1>4. QED
  BY <1>1, <1>2, <1>3

\* The three sections of settings and the keys of each
LEMMA SettingsAre ==
    /\ DOMAIN Settings = {"qualityofservice", "errorhandling", "eventprocessing"}
    /\ DOMAIN Settings["qualityofservice"] = {"reliability", "ordering"}
    /\ DOMAIN Settings["errorhandling"] = {"onhandlererror"}
    /\ DOMAIN Settings["eventprocessing"] = Strategies
    /\ Settings["qualityofservice"]["reliability"] = QualityOfService.reliability
    /\ Settings["qualityofservice"]["ordering"] = QualityOfService.ordering
    /\ Settings["errorhandling"]["onhandlererror"] = ErrorStrategies
<1>1. /\ Settings["qualityofservice"] = QualityOfService
      /\ Settings["errorhandling"] = [onhandlererror |-> ErrorStrategies]
      /\ Settings["eventprocessing"] = [s \in Strategies |-> STRING]
      /\ DOMAIN Settings = {"qualityofservice", "errorhandling", "eventprocessing"}
  BY DEF Settings
<1>2. DOMAIN QualityOfService = {"reliability", "ordering"}
  BY DEF QualityOfService
<1>3. QED
  BY <1>1, <1>2

ConfigFields == {"reliability", "ordering", "onhandlererror", "receivingstrategy",
                 "sendingstrategy", "strategyOptions", "introspection", "options", "transports"}

IsFields(c) == c = [f \in ConfigFields |-> c[f]]

\* What a configuration is before any option has been handled
LEMMA Fresh ==
    /\ IsFields(FreshConfig) /\ FreshConfig.transports = <<>>
    /\ FreshConfig.introspection = "1" /\ FreshConfig.options = <<>>
    /\ FreshConfig.strategyOptions = [s \in Strategies |-> <<>>]
BY DEF IsFields, FreshConfig, ConfigFields

-----------------------------------------------------------------------------
(* What one option does to a configuration *)

About(o, t) == o.key[1] = "transport" /\ o.key[2] = t
Switches(o, t) == o.key = <<"transport", t, "enabled">>
There(c, t) == t \in DOMAIN c.transports
Switched(c, t) == There(c, t) /\ "enabled" \in DOMAIN c.transports[t].options

SettingsSaid(o) ==
    \A section \in DOMAIN Settings : \A key \in DOMAIN Settings[section] :
        config'[key] = IF Sets(o, section, key) THEN o.value ELSE config[key]

OptionsSaid(o) ==
    /\ \A s \in Strategies : \A key \in DOMAIN config'.strategyOptions[s] :
          IF o.key = <<"eventprocessing", s, key>> THEN config'.strategyOptions[s][key] = o.value
          ELSE /\ key \in DOMAIN config.strategyOptions[s]
               /\ config'.strategyOptions[s][key] = config.strategyOptions[s][key]
    /\ config'.introspection = IF o.key = <<"introspection", "enabled">> THEN o.value
                               ELSE config.introspection
    /\ \A key \in DOMAIN config'.options :
          IF o.key = <<key>> THEN config'.options[key] = o.value
          ELSE key \in DOMAIN config.options /\ config'.options[key] = config.options[key]

EntriesSaid(o) ==
    \A t \in DOMAIN config'.transports : \A key \in DOMAIN config'.transports[t].options :
        IF o.key = <<"transport", t, key>> THEN config'.transports[t].options[key] = o.value
        ELSE /\ t \in DOMAIN config.transports /\ key \in DOMAIN config.transports[t].options
             /\ config'.transports[t].options[key] = config.transports[t].options[key]

TransportSaid(o, t) ==
    /\ ~About(o, t) => /\ There(config', t) <=> There(config, t)
                       /\ Switched(config', t) <=> Switched(config, t)
    /\ About(o, t) /\ stage = "options" =>
           There(config', t) /\ (Switched(config', t) <=> Switched(config, t) \/ Switches(o, t))
    /\ About(o, t) /\ stage = "ready" =>
           Switches(o, t) /\ (Switched(config', t) \/ (There(config', t) <=> o.value = "1"))

TypedConfig(c) ==
    IsFields(c) /\ IsConfig(c) /\ "introspection" \notin DOMAIN c.options

Said(o) ==
    /\ o \in OptionRecord /\ Len(o.key) >= 1
    /\ TypedConfig(config')
    /\ SettingsSaid(o) /\ OptionsSaid(o) /\ EntriesSaid(o) /\ \A t : TransportSaid(o, t)

\* An option of another section leaves the transports alone, and the settings.
LEMMA NoTransport ==
    ASSUME NEW o \in OptionRecord, Len(o.key) >= 1, o.key[1] # "transport",
           config'.transports = config.transports
    PROVE  EntriesSaid(o) /\ \A t : TransportSaid(o, t)
<1>1. o.key \in Seq(Words)
  BY DEF OptionRecord
<1>2. \A t, key : o.key # <<"transport", t, key>>
  BY <1>1, KeyIs
<1>3. QED
  BY <1>2 DEF EntriesSaid, TransportSaid, About, There, Switched

\* An option of a section that has no settings sets none.
LEMMA NoSetting ==
    ASSUME NEW o \in OptionRecord, o.key[1] \notin DOMAIN Settings,
           \A section \in DOMAIN Settings : \A key \in DOMAIN Settings[section] :
               config'[key] = config[key]
    PROVE  SettingsSaid(o)
BY DEF SettingsSaid, Sets

\* The options of the strategies, of the introspection and of all participants
LEMMA NoOption ==
    ASSUME NEW o \in OptionRecord,
           config'.strategyOptions = config.strategyOptions,
           config'.introspection = config.introspection,
           config'.options = config.options,
           Len(o.key) # 1, o.key # <<"introspection", "enabled">>,
           \A s \in Strategies : \A key : o.key # <<"eventprocessing", s, key>>
    PROVE  OptionsSaid(o)
<1>1. \A key : o.key # <<key>>
  OBVIOUS
<1>2. QED
  BY <1>1 DEF OptionsSaid

\* A setting is set, by an option or by the program.
LEMMA OneSetting ==
    ASSUME TypedConfig(config), NEW o \in OptionRecord,
           Len(o.key) >= 1, Len(o.key) # 1, o.key[1] \in DOMAIN Settings,
           Len(o.key) = 2 \/ o.key[1] = "errorhandling",
           o.key[2] \in DOMAIN Settings[o.key[1]],
           o.key[1] # "eventprocessing" => o.value \in Settings[o.key[1]][o.key[2]],
           config' = [config EXCEPT ![o.key[2]] = o.value]
    PROVE  Said(o)
<1> DEFINE k == o.key[2]
<1>1. o.key[1] \in {"qualityofservice", "errorhandling", "eventprocessing"}
  BY SettingsAre
<1>2. IsFields(config) /\ IsConfig(config) /\ "introspection" \notin DOMAIN config.options
  BY DEF TypedConfig
<1>3. /\ k \in ConfigFields \ {"strategyOptions", "introspection", "options", "transports"}
      /\ k = "reliability" => o.value \in QualityOfService.reliability
      /\ k = "ordering" => o.value \in QualityOfService.ordering
      /\ k = "onhandlererror" => o.value \in ErrorStrategies
  BY <1>1, SettingsAre DEF ConfigFields, Strategies
<1>4. /\ IsFields(config') /\ config'[k] = o.value
      /\ \A g \in ConfigFields \ {k} : config'[g] = config[g]
  BY <1>2, <1>3 DEF IsFields
<1>5. EntriesSaid(o) /\ \A t : TransportSaid(o, t)
  BY <1>1, <1>3, <1>4, NoTransport DEF ConfigFields
<1>6. TypedConfig(config')
  BY <1>2, <1>3, <1>4 DEF TypedConfig, IsConfig, ConfigFields
<1>7. ASSUME NEW section \in DOMAIN Settings, NEW key \in DOMAIN Settings[section]
      PROVE  config'[key] = IF Sets(o, section, key) THEN o.value ELSE config[key]
  <2>1. key \in ConfigFields /\ (key = k => section = o.key[1])
    BY <1>1, <1>7, SettingsAre DEF ConfigFields, Strategies
  <2>2. Sets(o, section, key) <=> key = k
    BY <2>1 DEF Sets
  <2>3. QED
    BY <1>4, <2>1, <2>2
<1>8. SettingsSaid(o)
  BY <1>7 DEF SettingsSaid
<1>9. OptionsSaid(o)
  <2>1. ASSUME NEW s, NEW key, o.key = <<"eventprocessing", s, key>> PROVE FALSE
    <3>1. Len(o.key) = 3 /\ o.key[1] = "eventprocessing"
      BY <2>1
    <3>2. QED
      BY <3>1
  <2>2. o.key # <<"introspection", "enabled">>
    BY <1>1
  <2>3. QED
    BY <1>3, <1>4, <2>1, <2>2, NoOption DEF ConfigFields
<1>10. QED
  BY <1>5, <1>6, <1>8, <1>9 DEF Said

\* An option of one of the three sections of settings (ParticipantConfig.cpp:293)
LEMMA SettingHandled ==
    ASSUME TypedConfig(config), NEW o \in Options, HandleSetting(o)
    PROVE  Said(o)
<1>1. /\ o \in OptionRecord /\ o.key \in Seq(Words) /\ Len(o.key) >= 1
      /\ o.key[1] \in DOMAIN Settings
      /\ o.key[1] \in {"errorhandling", "eventprocessing"} => Len(o.key) >= 2
  BY AnOption, OptionsAssumption DEF HandleSetting
<1>2. o.key[1] \in {"qualityofservice", "errorhandling", "eventprocessing"}
  BY <1>1, SettingsAre
<1>3. /\ o.key[1] = "qualityofservice" => Len(o.key) = 2
      /\ HasSetting(o) => o.value \in Settings[o.key[1]][o.key[2]]
      /\ o.key[1] = "eventprocessing" => HasSetting(o) /\ Len(o.key) \in {2, 3}
  <2>1. ~Invalid(o) /\ Len(o.key) \in Nat
    BY <1>1 DEF HandleSetting, Handle
  <2>2. /\ ~(o.key[1] = "qualityofservice" /\ Len(o.key) # 2)
        /\ ~(HasSetting(o) /\ o.value \notin Settings[o.key[1]][o.key[2]])
        /\ ~(o.key[1] = "eventprocessing" /\ (~HasSetting(o) \/ Len(o.key) > 3))
    BY <2>1, Zenon DEF Invalid
  <2>3. o.key[1] = "eventprocessing" => Len(o.key) \in {2, 3}
    <3>1. ASSUME o.key[1] = "eventprocessing" PROVE Len(o.key) \in {2, 3}
      <4>1. ~(Len(o.key) > 3) /\ Len(o.key) >= 2
        BY <1>1, <2>2, <3>1, Zenon
      <4>2. \A n \in Nat : ~(n > 3) /\ n >= 2 => n \in {2, 3}
        OBVIOUS
      <4>3. QED
        BY <2>1, <4>1, <4>2, Zenon
    <3>2. QED
      BY <3>1
  <2>4. o.key[1] = "qualityofservice" => Len(o.key) = 2
    BY <2>2
  <2>5. HasSetting(o) => o.value \in Settings[o.key[1]][o.key[2]]
    BY <2>2, Zenon
  <2>6. o.key[1] = "eventprocessing" => HasSetting(o)
    BY <2>2, Zenon
  <2>7. QED
    BY <2>3, <2>4, <2>5, <2>6, Zenon
<1>4. Len(o.key) # 1 /\ o.key # <<"introspection", "enabled">>
  <2>1. Len(o.key) \in Nat /\ Len(o.key) >= 2
    <3>1. Len(o.key) \in Nat
      BY <1>1
    <3>2. o.key[1] = "qualityofservice" => Len(o.key) >= 2
      BY <1>3
    <3>3. QED
      BY <1>1, <1>2, <3>1, <3>2
  <2>2. Len(o.key) # 1
    <3>1. \A n \in Nat : n >= 2 => n # 1
      OBVIOUS
    <3>2. QED
      BY <2>1, <3>1, Zenon
  <2>3. o.key # <<"introspection", "enabled">>
    BY <1>2
  <2>4. QED
    BY <2>2, <2>3, Zenon
<1>5. IsFields(config) /\ IsConfig(config) /\ "introspection" \notin DOMAIN config.options
  BY DEF TypedConfig
<1>6. CASE ~HasSetting(o)
  <2>1. config' = config
    <3>1. ~(o.key[1] = "eventprocessing" /\ Len(o.key) = 3)
      BY <1>3, <1>6, Zenon
    <3>2. QED
      BY <1>6, <3>1 DEF HandleSetting, HasSetting
  <2>2. \A s \in Strategies : \A key : o.key # <<"eventprocessing", s, key>>
    BY <1>1, <1>3, <1>6, KeyIs
  <2>3. OptionsSaid(o)
    BY <1>1, <1>4, <2>1, <2>2, NoOption
  <2>4. EntriesSaid(o) /\ \A t : TransportSaid(o, t)
    BY <1>1, <1>2, <2>1, NoTransport
  <2>5. SettingsSaid(o)
    BY <1>6, <2>1 DEF SettingsSaid, Sets, HasSetting
  <2>6. QED
    BY <1>1, <2>1, <2>3, <2>4, <2>5 DEF Said
<1>7. CASE o.key[1] = "eventprocessing" /\ Len(o.key) = 3
  <2> DEFINE s == o.key[2]
             x == With(config.strategyOptions[s], o.key[3], o.value)
             y == [config.strategyOptions EXCEPT ![s] = x]
  <2>1. HasSetting(o) /\ s \in Strategies
    BY <1>3, <1>7, SettingsAre DEF HasSetting
  <2>2. config' = [config EXCEPT !["strategyOptions"] = y]
    BY <1>7, <2>1 DEF HandleSetting
  <2>3. DOMAIN config.strategyOptions = Strategies
    BY <1>5 DEF IsConfig
  <2>4. /\ DOMAIN y = Strategies /\ y[s] = x
        /\ \A r \in Strategies \ {s} : y[r] = config.strategyOptions[r]
    BY <2>1, <2>3
  <2> HIDE DEF y
  <2>5. /\ IsFields(config') /\ config'.strategyOptions = y
        /\ \A g \in ConfigFields \ {"strategyOptions"} : config'[g] = config[g]
    BY <1>5, <2>2 DEF IsFields, ConfigFields
  <2>6. EntriesSaid(o) /\ \A t : TransportSaid(o, t)
    BY <1>1, <1>2, <2>5, NoTransport DEF ConfigFields
  <2>7. TypedConfig(config')
    BY <1>5, <2>4, <2>5 DEF TypedConfig, IsConfig, ConfigFields
  <2>8. SettingsSaid(o)
    <3>1. \A section \in DOMAIN Settings : \A key \in DOMAIN Settings[section] :
              key \in ConfigFields \ {"strategyOptions"}
      BY SettingsAre DEF ConfigFields, Strategies
    <3>2. \A section, key : ~Sets(o, section, key)
      BY <1>7 DEF Sets
    <3>3. QED
      BY <2>5, <3>1, <3>2 DEF SettingsSaid
  <2>9. OptionsSaid(o)
    <3>1. ASSUME NEW r \in Strategies, NEW key \in DOMAIN y[r]
          PROVE  IF o.key = <<"eventprocessing", r, key>> THEN y[r][key] = o.value
                 ELSE /\ key \in DOMAIN config.strategyOptions[r]
                      /\ y[r][key] = config.strategyOptions[r][key]
      <4>1. o.key = <<"eventprocessing", r, key>> <=> r = s /\ key = o.key[3]
        BY <1>1, <1>7, KeyIs
      <4>2. CASE r = s
        <5>1. key \in DOMAIN x /\ y[r] = x
          BY <2>4, <3>1, <4>2
        <5>2. key # o.key[3] => key \in DOMAIN config.strategyOptions[s]
          BY <5>1 DEF With
        <5>3. QED
          BY <4>1, <4>2, <5>1, <5>2 DEF With
      <4>3. CASE r # s
        BY <2>4, <3>1, <4>1, <4>3
      <4>4. QED
        BY <4>2, <4>3
    <3>2. \A key : o.key # <<key>>
      BY <1>4
    <3>3. QED
      BY <1>4, <2>5, <3>1, <3>2 DEF OptionsSaid, ConfigFields
  <2>10. QED
    BY <1>1, <2>6, <2>7, <2>8, <2>9 DEF Said
<1>8. CASE HasSetting(o) /\ ~(o.key[1] = "eventprocessing" /\ Len(o.key) = 3)
  <2>1. config' = [config EXCEPT ![o.key[2]] = o.value]
    BY <1>8 DEF HandleSetting
  <2>2. o.key[2] \in DOMAIN Settings[o.key[1]] /\ o.value \in Settings[o.key[1]][o.key[2]]
    BY <1>3, <1>8 DEF HasSetting
  <2>3. Len(o.key) = 2 \/ o.key[1] = "errorhandling"
    BY <1>2, <1>3, <1>8
  <2>4. QED
    BY <1>1, <1>4, <2>1, <2>2, <2>3, OneSetting
<1>9. QED
  BY <1>6, <1>7, <1>8

\* The switch of the introspection
LEMMA OneSwitch ==
    ASSUME TypedConfig(config), NEW o \in OptionRecord,
           Len(o.key) >= 1, o.key[1] = "introspection",
           config' = IF o.key = <<"introspection", "enabled">>
                     THEN [config EXCEPT !.introspection = o.value] ELSE config
    PROVE  Said(o)
<1>1. o.key \in Seq(Words)
  BY DEF OptionRecord
<1>2. IsFields(config) /\ IsConfig(config) /\ "introspection" \notin DOMAIN config.options
  BY DEF TypedConfig
<1>4. /\ IsFields(config')
      /\ config'.introspection = IF o.key = <<"introspection", "enabled">> THEN o.value
                                 ELSE config.introspection
      /\ \A g \in ConfigFields \ {"introspection"} : config'[g] = config[g]
  BY <1>2 DEF IsFields, ConfigFields
<1>5. EntriesSaid(o) /\ \A t : TransportSaid(o, t)
  BY <1>4, NoTransport DEF ConfigFields
<1>6. SettingsSaid(o)
  <2>1. \A section \in DOMAIN Settings : \A key \in DOMAIN Settings[section] :
            key \in ConfigFields \ {"introspection"}
    BY SettingsAre DEF ConfigFields, Strategies
  <2>2. o.key[1] \notin DOMAIN Settings
    BY SettingsAre
  <2>3. QED
    BY <1>4, <2>1, <2>2, NoSetting
<1>7. OptionsSaid(o)
  <2>1. \A s \in Strategies : \A key : o.key # <<"eventprocessing", s, key>>
    OBVIOUS
  <2>2. \A key : o.key = <<key>> => key = "introspection"
    OBVIOUS
  <2>3. config'.strategyOptions = config.strategyOptions /\ config'.options = config.options
    BY <1>4 DEF ConfigFields
  <2>4. QED
    BY <1>2, <1>4, <2>1, <2>2, <2>3 DEF OptionsSaid
<1>8. TypedConfig(config')
  BY <1>2, <1>4 DEF TypedConfig, IsConfig, ConfigFields
<1>9. QED
  BY <1>5, <1>6, <1>7, <1>8 DEF Said

\* An option of the introspection (ParticipantConfig.cpp:356)
LEMMA IntrospectionHandled ==
    ASSUME TypedConfig(config), NEW o \in Options, HandleIntrospection(o)
    PROVE  Said(o)
<1>1. o \in OptionRecord /\ Len(o.key) >= 1
  BY AnOption DEF OptionRecord
<1>2. QED
  BY <1>1, OneSwitch DEF HandleIntrospection

\* An option of no section of the library's, for all participants
\* (ParticipantConfig.cpp:380)
LEMMA GlobalHandled ==
    ASSUME TypedConfig(config), NEW o \in Options, HandleGlobal(o)
    PROVE  Said(o)
<1>1. o \in OptionRecord /\ o.key \in Seq(Words) /\ Len(o.key) >= 1
  BY AnOption DEF OptionRecord
<1>2. o.key[1] \notin DOMAIN Settings \cup {"introspection", "transport"}
  BY DEF HandleGlobal
<1>3. IsFields(config) /\ IsConfig(config) /\ "introspection" \notin DOMAIN config.options
  BY DEF TypedConfig
<1> DEFINE x == IF Len(o.key) = 1 THEN With(config.options, o.key[1], o.value) ELSE config.options
<1>4. /\ IsFields(config') /\ config'.options = x
      /\ \A g \in ConfigFields \ {"options"} : config'[g] = config[g]
  <2>1. config' = IF Len(o.key) = 1 THEN [config EXCEPT !.options = x] ELSE config
    BY DEF HandleGlobal
  <2>2. QED
    BY <1>3, <2>1 DEF IsFields, ConfigFields
<1>5. EntriesSaid(o) /\ \A t : TransportSaid(o, t)
  BY <1>1, <1>2, <1>4, NoTransport DEF ConfigFields
<1>6. SettingsSaid(o)
  <2>1. \A section \in DOMAIN Settings : \A key \in DOMAIN Settings[section] :
            key \in ConfigFields \ {"options"}
    BY SettingsAre DEF ConfigFields, Strategies
  <2>2. QED
    BY <1>1, <1>2, <1>4, <2>1, NoSetting
<1>7. OptionsSaid(o)
  <2>1. \A s \in Strategies : \A key : o.key # <<"eventprocessing", s, key>>
    BY <1>2, SettingsAre
  <2>2. o.key # <<"introspection", "enabled">>
    BY <1>2
  <2>3. /\ config'.strategyOptions = config.strategyOptions
        /\ config'.introspection = config.introspection
    BY <1>4 DEF ConfigFields
  <2>4. ASSUME NEW key \in DOMAIN x
        PROVE  IF o.key = <<key>> THEN x[key] = o.value
               ELSE key \in DOMAIN config.options /\ x[key] = config.options[key]
    <3>1. CASE Len(o.key) = 1
      <4>1. o.key = <<key>> <=> o.key[1] = key
        BY <1>1, <3>1
      <4>2. QED
        BY <2>4, <3>1, <4>1 DEF With
    <3>2. CASE Len(o.key) # 1
      <4>1. o.key # <<key>>
        BY <3>2
      <4>2. QED
        BY <2>4, <3>2, <4>1
    <3>3. QED
      BY <3>1, <3>2
  <2>5. QED
    BY <1>4, <2>1, <2>2, <2>3, <2>4 DEF OptionsSaid
<1>8. TypedConfig(config')
  <2>1. "introspection" \notin DOMAIN x
    BY <1>2, <1>3 DEF With
  <2>2. QED
    BY <1>3, <1>4, <2>1 DEF TypedConfig, IsConfig, ConfigFields
<1>9. QED
  BY <1>1, <1>5, <1>6, <1>7, <1>8 DEF Said

\* What becomes of the transports, nothing else does.
LEMMA OnlyTransports ==
    ASSUME TypedConfig(config), NEW o \in OptionRecord, NEW T,
           Len(o.key) >= 3, Len(o.key) # 1, o.key[1] = "transport",
           config' = [config EXCEPT !.transports = T],
           \A t \in DOMAIN T : IsTransport(T[t])
    PROVE  /\ config'.transports = T
           /\ TypedConfig(config') /\ SettingsSaid(o) /\ OptionsSaid(o)
<1>1. IsFields(config) /\ IsConfig(config) /\ "introspection" \notin DOMAIN config.options
  BY DEF TypedConfig
<1>2. /\ IsFields(config') /\ config'.transports = T
      /\ \A g \in ConfigFields \ {"transports"} : config'[g] = config[g]
  BY <1>1 DEF IsFields, ConfigFields
<1>3. TypedConfig(config')
  BY <1>1, <1>2 DEF TypedConfig, IsConfig, ConfigFields
<1>4. SettingsSaid(o)
  <2>1. \A section \in DOMAIN Settings : \A key \in DOMAIN Settings[section] :
            key \in ConfigFields \ {"transports"}
    BY SettingsAre DEF ConfigFields, Strategies
  <2>2. o.key[1] \notin DOMAIN Settings
    BY SettingsAre
  <2>3. QED
    BY <1>2, <2>1, <2>2, NoSetting
<1>5. OptionsSaid(o)
  <2>1. /\ \A s \in Strategies : \A key : o.key # <<"eventprocessing", s, key>>
        /\ o.key # <<"introspection", "enabled">>
    OBVIOUS
  <2>2. /\ config'.strategyOptions = config.strategyOptions
        /\ config'.introspection = config.introspection /\ config'.options = config.options
    BY <1>2 DEF ConfigFields
  <2>3. QED
    BY <2>1, <2>2, NoOption
<1>6. QED
  BY <1>2, <1>3, <1>4, <1>5

\* A transport nobody has said anything about (ParticipantConfig.cpp:48)
LEMMA New ==
    ASSUME NEW enabled \in BOOLEAN
    PROVE  /\ IsTransport(NewTransport(enabled))
           /\ DOMAIN NewTransport(enabled).options = IF enabled THEN {} ELSE {"enabled"}
           /\ ~enabled => NewTransport(enabled).options["enabled"] = "0"
<1>1. DOMAIN <<>> = {}
  OBVIOUS
<1>2. NewTransport(enabled).options = IF enabled THEN <<>> ELSE With(<<>>, "enabled", "0")
  BY DEF NewTransport
<1>3. IsTransport(NewTransport(enabled))
  BY DEF NewTransport, IsTransport
<1>4. QED
  BY <1>1, <1>2, <1>3 DEF With

\* Transport::handleOption, of a key the section does not refuse
LEMMA TransportHandles ==
    ASSUME NEW k \in Seq(Words), NEW value \in Words, NEW transport, IsTransport(transport),
           Len(k) >= 3, Len(k) > 3 => k[3] = "converter" /\ (k[4] = "cpp" => Len(k) = 5)
    PROVE  LET w == WithOption(transport, SubSeq(k, 3, Len(k)), value)
           IN  /\ IsTransport(w)
               /\ w.options = IF Len(k) = 3 THEN With(transport.options, k[3], value)
                              ELSE transport.options
               /\ w.converters = IF Len(k) = 5 /\ k[4] = "cpp"
                                 THEN transport.converters \cup {<<k[5], value>>}
                                 ELSE transport.converters
<1> DEFINE key == SubSeq(k, 3, Len(k))
           w == WithOption(transport, key, value)
<1>1. /\ key \in Seq(Words) /\ Len(key) = Len(k) - 2 /\ Len(k) \in Nat
      /\ key[1] = k[3] /\ (Len(k) > 3 => key[2] = k[4]) /\ (Len(k) = 5 => key[3] = k[5])
  OBVIOUS
<1> HIDE DEF key
<1>2. CASE key[1] = "converter" /\ Len(key) = 3 /\ key[2] = "cpp"
  <2>1. w = [transport EXCEPT !.converters = @ \cup {<<key[3], value>>}]
    BY <1>2 DEF WithOption
  <2>2. /\ IsTransport(w) /\ w.options = transport.options
        /\ w.converters = transport.converters \cup {<<key[3], value>>}
    BY <2>1 DEF IsTransport
  <2>3. Len(k) # 3 /\ Len(k) = 5 /\ k[4] = "cpp" /\ k[5] = key[3]
    BY <1>1, <1>2
  <2>4. QED
    BY <2>2, <2>3 DEF key
<1>3. CASE key[1] = "converter" /\ Len(key) >= 2 /\ key[2] # "cpp"
  <2>1. w = transport
    BY <1>3 DEF WithOption
  <2>2. Len(k) # 3 /\ ~(Len(k) = 5 /\ k[4] = "cpp")
    BY <1>1, <1>3
  <2>3. QED
    BY <2>1, <2>2 DEF key
<1>4. CASE /\ ~(key[1] = "converter" /\ Len(key) = 3 /\ key[2] = "cpp")
           /\ ~(key[1] = "converter" /\ Len(key) >= 2 /\ key[2] # "cpp")
  <2>1. w = [transport EXCEPT !.options = With(@, key[1], value)]
    BY <1>4 DEF WithOption
  <2>2. /\ IsTransport(w) /\ w.options = With(transport.options, key[1], value)
        /\ w.converters = transport.converters
    BY <2>1 DEF IsTransport
  <2>3. Len(k) = 3
    BY <1>1, <1>4
  <2>4. QED
    BY <1>1, <2>2, <2>3 DEF key
<1>5. QED
  BY <1>2, <1>3, <1>4

\* An option of a transport (ParticipantConfig.cpp:362)
LEMMA TransportHandled ==
    ASSUME TypedConfig(config), NEW o \in Options, HandleTransport(o)
    PROVE  Said(o)
<1>1. /\ o \in OptionRecord /\ o.key \in Seq(Words) /\ o.value \in Words /\ Len(o.key) >= 1
      /\ Len(o.key) \in Nat /\ o.key[1] = "transport" /\ stage = "options" /\ ~Invalid(o)
  BY AnOption DEF OptionRecord, HandleTransport, Handle
<1>2. /\ ~(Len(o.key) < 3)
      /\ Len(o.key) > 3 => o.key[3] = "converter" /\ (o.key[4] = "cpp" => ~(Len(o.key) # 5))
  BY <1>1, Zenon DEF Invalid
<1>3. Len(o.key) >= 3 /\ Len(o.key) # 1
  <2>1. \A n \in Nat : ~(n < 3) => n >= 3 /\ n # 1
    OBVIOUS
  <2>2. QED
    BY <1>1, <1>2, <2>1, Zenon
<1>4. IsConfig(config)
  BY DEF TypedConfig
<1> DEFINE s == o.key[2]
<1>5. \A t, key : o.key = <<"transport", t, key>> <=> Len(o.key) = 3 /\ s = t /\ o.key[3] = key
  <2>1. ASSUME NEW t, NEW key, Len(o.key) = 3, s = t, o.key[3] = key
        PROVE  o.key = <<"transport", t, key>>
    BY <1>1, <2>1
  <2>2. ASSUME NEW t, NEW key, o.key = <<"transport", t, key>>
        PROVE  Len(o.key) = 3 /\ s = t /\ o.key[3] = key
    BY <2>2
  <2>3. QED
    BY <2>1, <2>2, Zenon
<1> DEFINE transport == IF s \in DOMAIN config.transports THEN config.transports[s]
                        ELSE NewTransport(TRUE)
           w == WithOption(transport, SubSeq(o.key, 3, Len(o.key)), o.value)
           T == With(config.transports, s, w)
<1>6. /\ IsTransport(transport)
      /\ s \notin DOMAIN config.transports => DOMAIN transport.options = {}
  BY <1>4, New DEF IsConfig
<1>7. /\ IsTransport(w)
      /\ w.options = IF Len(o.key) = 3 THEN With(transport.options, o.key[3], o.value)
                     ELSE transport.options
  <2> HIDE DEF transport
  <2>1. QED
    BY <1>1, <1>2, <1>3, <1>6, TransportHandles
<1>8. config' = [config EXCEPT !.transports = T]
  BY <1>1, Zenon DEF HandleTransport
<1> HIDE DEF w
<1>9. /\ DOMAIN T = DOMAIN config.transports \cup {s} /\ T[s] = w
      /\ \A t \in DOMAIN config.transports \ {s} : T[t] = config.transports[t]
  BY DEF With
<1>10. \A t \in DOMAIN T : IsTransport(T[t])
  BY <1>4, <1>7, <1>9 DEF IsConfig
<1> HIDE DEF T
<1>11. /\ config'.transports = T
       /\ TypedConfig(config') /\ SettingsSaid(o) /\ OptionsSaid(o)
  BY <1>1, <1>3, <1>8, <1>10, OnlyTransports
<1>12. s \in DOMAIN config.transports => transport = config.transports[s]
  OBVIOUS
<1> HIDE DEF transport
<1>13. EntriesSaid(o)
  <2>1. ASSUME NEW t \in DOMAIN T, NEW key \in DOMAIN T[t].options
        PROVE  IF o.key = <<"transport", t, key>> THEN T[t].options[key] = o.value
               ELSE /\ t \in DOMAIN config.transports /\ key \in DOMAIN config.transports[t].options
                    /\ T[t].options[key] = config.transports[t].options[key]
    <3>1. o.key = <<"transport", t, key>> <=> Len(o.key) = 3 /\ s = t /\ o.key[3] = key
      BY <1>5, Zenon
    <3>2. CASE t # s
      BY <1>9, <2>1, <3>1, <3>2
    <3>3. CASE t = s /\ Len(o.key) = 3
      <4>1. w.options = With(transport.options, o.key[3], o.value)
        BY <1>7, <3>3
      <4>2. key \in DOMAIN w.options /\ T[t] = w
        BY <1>9, <2>1, <3>3
      <4>3. key = o.key[3] => w.options[key] = o.value
        BY <4>1 DEF With
      <4>4. key # o.key[3] => /\ key \in DOMAIN transport.options
                              /\ w.options[key] = transport.options[key]
        BY <4>1, <4>2 DEF With
      <4>5. QED
        BY <1>6, <1>12, <3>1, <3>3, <4>2, <4>3, <4>4
    <3>4. CASE t = s /\ Len(o.key) # 3
      <4>1. w.options = transport.options /\ T[t] = w
        BY <1>7, <1>9, <3>4
      <4>2. QED
        BY <1>6, <1>12, <2>1, <3>1, <3>4, <4>1
    <3>5. QED
      BY <3>2, <3>3, <3>4
  <2>2. QED
    BY <1>11, <2>1 DEF EntriesSaid
<1>14. ASSUME NEW t PROVE TransportSaid(o, t)
  <2>1. CASE t # s
    BY <1>9, <1>11, <2>1 DEF TransportSaid, About, There, Switched
  <2>2. CASE t = s
    <3>1. Switches(o, t) <=> Len(o.key) = 3 /\ o.key[3] = "enabled"
      BY <1>5, <2>2, Zenon DEF Switches
    <3>2. There(config', t) /\ (Switched(config', t) <=> "enabled" \in DOMAIN w.options)
      BY <1>9, <1>11, <2>2 DEF There, Switched
    <3>3. Switched(config, t) <=> "enabled" \in DOMAIN transport.options
      BY <1>6, <1>12, <2>2 DEF There, Switched
    <3>4. "enabled" \in DOMAIN w.options
               <=> "enabled" \in DOMAIN transport.options \/ Switches(o, t)
      BY <1>7, <3>1 DEF With
    <3>5. About(o, t)
      BY <1>1, <2>2 DEF About
    <3>6. stage # "ready"
      BY <1>1
    <3>7. QED
      BY <3>2, <3>3, <3>4, <3>5, <3>6, Zenon DEF TransportSaid
  <2>3. QED
    BY <2>1, <2>2
<1>15. QED
  BY <1>1, <1>11, <1>13, <1>14 DEF Said

\* A key of three words
LEMMA TripleIs ==
    ASSUME NEW S, NEW a \in S, NEW b \in S, NEW c \in S, NEW k, k = <<a, b, c>>
    PROVE  k \in Seq(S) /\ Len(k) = 3 /\ k[1] = a /\ k[2] = b /\ k[3] = c
<1>1. k \in [1..3 -> S]
  OBVIOUS
<1>2. \A n \in Nat : \A f \in [1..n -> S] : f \in Seq(S)
  OBVIOUS
<1>3. k \in Seq(S)
  BY <1>1, <1>2
<1>4. QED
  BY <1>3

\* The program switches a transport, by whatever method.
LEMMA OneTransport ==
    ASSUME TypedConfig(config), stage = "ready", NEW t \in Words, NEW value \in Words, NEW T,
           config' = [config EXCEPT !.transports = T],
           DOMAIN T \ {t} = DOMAIN config.transports \ {t},
           \A u \in DOMAIN T \ {t} : T[u] = config.transports[u],
           t \in DOMAIN T => /\ IsTransport(T[t])
                             /\ \A key \in DOMAIN T[t].options :
                                   IF key = "enabled" THEN T[t].options[key] = value
                                   ELSE /\ t \in DOMAIN config.transports
                                        /\ key \in DOMAIN config.transports[t].options
                                        /\ T[t].options[key] = config.transports[t].options[key],
           (t \in DOMAIN T /\ "enabled" \in DOMAIN T[t].options) \/ (t \in DOMAIN T <=> value = "1")
    PROVE  Said([key |-> <<"transport", t, "enabled">>, value |-> value])
<1> DEFINE k == <<"transport", t, "enabled">>
           o == [key |-> k, value |-> value]
<1>1. /\ k \in Seq(Words) /\ Len(k) = 3 /\ k[1] = "transport" /\ k[2] = t /\ k[3] = "enabled"
      /\ o \in OptionRecord /\ o.key = k /\ o.value = value
  <2>1. k \in Seq(Words) /\ Len(k) = 3 /\ k[1] = "transport" /\ k[2] = t /\ k[3] = "enabled"
    <3>1. "transport" \in Words /\ "enabled" \in Words
      BY DEF Words
    <3>2. QED
      BY <3>1, TripleIs
  <2> HIDE DEF k
  <2>2. QED
    BY <2>1 DEF OptionRecord
<1> HIDE DEF k, o
<1>2. Len(o.key) = 3 /\ Len(o.key) >= 3 /\ Len(o.key) >= 1 /\ Len(o.key) # 1
  <2>1. Len(o.key) = 3
    BY <1>1, Zenon
  <2>2. QED
    BY <2>1
<1>3. IsConfig(config)
  BY DEF TypedConfig
<1>4. \A u \in DOMAIN T : IsTransport(T[u])
  BY <1>3 DEF IsConfig
<1>5. /\ config'.transports = T
      /\ TypedConfig(config') /\ SettingsSaid(o) /\ OptionsSaid(o)
  BY <1>1, <1>2, <1>4, OnlyTransports
<1>6. EntriesSaid(o)
  <2>1. \A u, key : o.key = <<"transport", u, key>> <=> u = t /\ key = "enabled"
    BY <1>1, KeyIs
  <2>2. QED
    BY <1>1, <1>5, <2>1 DEF EntriesSaid
<1>7. ASSUME NEW u PROVE TransportSaid(o, u)
  <2>1. CASE u # t
    BY <1>1, <1>5, <2>1 DEF TransportSaid, About, There, Switched
  <2>2. CASE u = t
    <3>1. Switches(o, u)
      BY <1>1, <2>2 DEF Switches, k
    <3>2. QED
      BY <1>1, <1>5, <2>2, <3>1 DEF TransportSaid, About, There, Switched
  <2>3. QED
    BY <2>1, <2>2
<1>8. QED
  BY <1>1, <1>2, <1>5, <1>6, <1>7 DEF Said, k, o

-----------------------------------------------------------------------------
(* What is known of the configuration at any time *)

AskedFor(t) == GivenAt(<<"transport", t, "enabled">>) # {}
LastWord(t) == LastGiven(<<"transport", t, "enabled">>, "")
Mentioned(t) == \E i \in DOMAIN given : About(given[i], t)

\* A transport nobody has asked for is as the constructor or its first mention
\* has made it; one somebody has asked for carries the answer with it, unless the
\* program has added or removed it.
TransportHeld(t) ==
    /\ ~AskedFor(t) =>
           /\ There(config, t) <=> t \in AvailableTransports \/ Mentioned(t)
           /\ There(config, t) =>
                  (Switched(config, t) <=> t \in AvailableTransports /\ t # "socket")
    /\ AskedFor(t) => Switched(config, t) \/ (There(config, t) <=> LastWord(t) = "1")
    /\ AskedFor(t) /\ stage = "options" => Switched(config, t)

ConfigInv ==
    /\ stage \in {"plugins", "options", "ready", "failed"}
    /\ DOMAIN registry \subseteq Words
    /\ given \in Seq(OptionRecord)
    /\ stage = "plugins" => given = <<>>
    /\ TypedConfig(config)
    /\ LastOneWins
    /\ stage \in {"options", "ready"} => \A t : TransportHeld(t)

NewWord(o) ==
    /\ stage \in {"options", "ready"}
    /\ given' = Append(given, o)
    /\ UNCHANGED <<stage, registry>>

\* One more word on the configuration, of whatever source
LEMMA WordKept ==
    ASSUME ConfigInv, NEW o, NewWord(o), Said(o)
    PROVE  ConfigInv'
<1> USE DEF NewWord
<1>1. /\ o \in OptionRecord /\ given \in Seq(OptionRecord) /\ given' = Append(given, o)
      /\ stage \in {"options", "ready"} /\ stage' = stage /\ registry' = registry
  BY DEF Said, ConfigInv
<1>2. /\ given' \in Seq(OptionRecord)
      /\ \A key : (GivenAt(key))' = IF o.key = key THEN GivenAt(key) \cup {Len(given) + 1}
                                    ELSE GivenAt(key)
      /\ \A key, default : LastAt(given', (GivenAt(key))', default)
                = IF o.key = key THEN o.value ELSE LastAt(given, GivenAt(key), default)
      /\ \A section, key, default : LastAt(given', (SettingAt(section, key))', default)
                = IF Sets(o, section, key) THEN o.value
                  ELSE LastAt(given, SettingAt(section, key), default)
  BY <1>1, OneMore
<1>3. \A key, default : (LastGiven(key, default))'
                = IF o.key = key THEN o.value ELSE LastGiven(key, default)
  BY <1>2 DEF LastGiven
<1>4. LastOneWins'
  <2>1. ASSUME NEW section \in DOMAIN Settings, NEW key \in DOMAIN Settings[section]
        PROVE  config'[key] = (LastAt(given, SettingAt(section, key), FreshConfig[key]))'
    <3>1. config[key] = LastAt(given, SettingAt(section, key), FreshConfig[key])
      BY <1>1 DEF ConfigInv, LastOneWins
    <3>2. config'[key] = IF Sets(o, section, key) THEN o.value ELSE config[key]
      BY DEF Said, SettingsSaid
    <3>3. QED
      BY <1>2, <3>1, <3>2
  <2>2. ASSUME NEW s \in Strategies, NEW key \in DOMAIN config'.strategyOptions[s]
        PROVE  config'.strategyOptions[s][key]
                   = (LastGiven(<<"eventprocessing", s, key>>, ""))'
    <3>1. key \in DOMAIN config.strategyOptions[s]
              => config.strategyOptions[s][key] = LastGiven(<<"eventprocessing", s, key>>, "")
      BY <1>1 DEF ConfigInv, LastOneWins
    <3>2. QED
      BY <1>3, <3>1 DEF Said, OptionsSaid
  <2>3. config'.introspection = (LastGiven(<<"introspection", "enabled">>, "1"))'
    <3>1. config.introspection = LastGiven(<<"introspection", "enabled">>, "1")
      BY <1>1 DEF ConfigInv, LastOneWins
    <3>2. QED
      BY <1>3, <3>1 DEF Said, OptionsSaid
  <2>4. ASSUME NEW key \in DOMAIN config'.options
        PROVE  config'.options[key] = (LastGiven(<<key>>, ""))'
    <3>1. key \in DOMAIN config.options => config.options[key] = LastGiven(<<key>>, "")
      BY <1>1 DEF ConfigInv, LastOneWins
    <3>2. QED
      BY <1>3, <3>1 DEF Said, OptionsSaid
  <2>5. ASSUME NEW t \in DOMAIN config'.transports, NEW key \in DOMAIN config'.transports[t].options
        PROVE  config'.transports[t].options[key]
                   = (LastGiven(<<"transport", t, key>>, IF t = "socket" THEN "1" ELSE "0"))'
    <3>1. t \in DOMAIN config.transports /\ key \in DOMAIN config.transports[t].options
              => config.transports[t].options[key]
                     = LastGiven(<<"transport", t, key>>, IF t = "socket" THEN "1" ELSE "0")
      BY <1>1 DEF ConfigInv, LastOneWins
    <3>2. QED
      BY <1>3, <3>1 DEF Said, EntriesSaid
  <2>6. QED
    BY <2>1, <2>2, <2>3, <2>4, <2>5 DEF LastOneWins
<1>5. ASSUME NEW t PROVE TransportHeld(t)'
  <2>1. /\ AskedFor(t)' <=> AskedFor(t) \/ Switches(o, t)
        /\ Switches(o, t) => LastWord(t)' = o.value
        /\ ~Switches(o, t) => LastWord(t)' = LastWord(t)
    BY <1>2, <1>3 DEF AskedFor, LastWord, Switches
  <2>2. Mentioned(t)' <=> Mentioned(t) \/ About(o, t)
    <3>1. /\ DOMAIN given = 1..Len(given) /\ DOMAIN given' = 1..(Len(given) + 1)
          /\ Len(given) \in Nat /\ given'[Len(given) + 1] = o
          /\ \A i \in 1..Len(given) : given'[i] = given[i]
      BY <1>1
    <3>2. QED
      BY <3>1 DEF Mentioned, About
  <2>3. AvailableTransports' = AvailableTransports
    BY <1>1 DEF AvailableTransports
  <2>4. Switches(o, t) => About(o, t)
    BY DEF Switches, About
  <2>5. TransportHeld(t) /\ TransportSaid(o, t)
    BY <1>1 DEF ConfigInv, Said
  <2>6. /\ There(config, t)' <=> There(config', t)
        /\ Switched(config, t)' <=> Switched(config', t)
        /\ Switched(config, t) => There(config, t)
    BY DEF There, Switched
  <2>7. CASE stage = "options"
    BY <1>1, <2>1, <2>2, <2>3, <2>4, <2>5, <2>6, <2>7 DEF TransportHeld, TransportSaid
  <2>8. CASE stage = "ready"
    BY <1>1, <2>1, <2>2, <2>3, <2>4, <2>5, <2>6, <2>8 DEF TransportHeld, TransportSaid
  <2>9. QED
    BY <1>1, <2>7, <2>8
<1>6. QED
  BY <1>1, <1>2, <1>4, <1>5 DEF ConfigInv, Said

\* What the program sets, it says as an option would.
LEMMA Reconfigured ==
    ASSUME ConfigInv, Reconfigure
    PROVE  \E o : NewWord(o) /\ Said(o)
<1>1. /\ stage = "ready" /\ UNCHANGED <<stage, registry>>
  BY DEF Reconfigure, SetEnabled, AddTransport, RemoveTransport, SetSetting,
         SetIsIntrospectionEnabled, SetDefaultConfig
<1>2. /\ TypedConfig(config) /\ IsFields(config) /\ IsConfig(config)
      /\ DOMAIN registry \subseteq Words
      /\ "0" \in Words /\ "1" \in Words
  BY DEF ConfigInv, TypedConfig, Words
<1>3. ASSUME NEW t \in DOMAIN registry, NEW value \in {"0", "1"}, SetEnabled(t, value)
      PROVE  \E o : NewWord(o) /\ Said(o)
  <2> DEFINE x == [config.transports[t] EXCEPT !.options = With(@, "enabled", value)]
             T == [config.transports EXCEPT ![t] = x]
  <2>1. /\ t \in DOMAIN config.transports /\ config' = [config EXCEPT !.transports = T]
        /\ given' = Append(given, [key |-> <<"transport", t, "enabled">>, value |-> value])
    BY <1>3 DEF SetEnabled, SetDefaultConfig
  <2>2. IsTransport(config.transports[t])
    BY <1>2, <2>1 DEF IsConfig
  <2>3. IsTransport(x) /\ x.options = With(config.transports[t].options, "enabled", value)
    BY <2>2 DEF IsTransport
  <2> HIDE DEF x
  <2>4. /\ DOMAIN T = DOMAIN config.transports /\ T[t] = x
        /\ \A u \in DOMAIN T \ {t} : T[u] = config.transports[u]
    BY <2>1
  <2> HIDE DEF T
  <2>5. \A key \in DOMAIN x.options :
            IF key = "enabled" THEN x.options[key] = value
            ELSE /\ key \in DOMAIN config.transports[t].options
                 /\ x.options[key] = config.transports[t].options[key]
    BY <2>3 DEF With
  <2>6. "enabled" \in DOMAIN x.options
    BY <2>3 DEF With
  <2>7. Said([key |-> <<"transport", t, "enabled">>, value |-> value])
    BY <1>1, <1>2, <2>1, <2>3, <2>4, <2>5, <2>6, OneTransport
  <2>8. QED
    BY <1>1, <2>1, <2>7 DEF NewWord
<1>4. ASSUME NEW t \in DOMAIN registry, NEW enabled \in BOOLEAN, AddTransport(t, enabled)
      PROVE  \E o : NewWord(o) /\ Said(o)
  <2> DEFINE value == IF enabled THEN "1" ELSE "0"
             x == NewTransport(enabled)
             T == With(config.transports, t, x)
  <2>1. /\ config' = [config EXCEPT !.transports = T]
        /\ given' = Append(given, [key |-> <<"transport", t, "enabled">>, value |-> value])
    BY <1>4 DEF AddTransport, SetDefaultConfig
  <2>2. /\ IsTransport(x)
        /\ DOMAIN x.options = IF enabled THEN {} ELSE {"enabled"}
        /\ ~enabled => x.options["enabled"] = "0"
    BY New
  <2> HIDE DEF x
  <2>3. /\ DOMAIN T = DOMAIN config.transports \cup {t} /\ T[t] = x
        /\ \A u \in DOMAIN T \ {t} : T[u] = config.transports[u]
    BY DEF With
  <2> HIDE DEF T
  <2>4. value \in Words /\ (enabled => value = "1") /\ (~enabled => value = "0")
    BY <1>2
  <2> HIDE DEF value
  <2>5. \A key \in DOMAIN x.options : key = "enabled" /\ x.options[key] = value
    BY <2>2, <2>4
  <2>6. (t \in DOMAIN T /\ "enabled" \in DOMAIN T[t].options) \/ (t \in DOMAIN T <=> value = "1")
    BY <2>2, <2>3, <2>4
  <2>7. Said([key |-> <<"transport", t, "enabled">>, value |-> value])
    BY <1>1, <1>2, <2>1, <2>2, <2>3, <2>4, <2>5, <2>6, OneTransport
  <2>8. QED
    BY <1>1, <2>1, <2>7 DEF NewWord
<1>5. ASSUME NEW t \in DOMAIN registry, RemoveTransport(t)
      PROVE  \E o : NewWord(o) /\ Said(o)
  <2> DEFINE T == [u \in DOMAIN config.transports \ {t} |-> config.transports[u]]
  <2>1. /\ config' = [config EXCEPT !.transports = T]
        /\ given' = Append(given, [key |-> <<"transport", t, "enabled">>, value |-> "0"])
    BY <1>5 DEF RemoveTransport, SetDefaultConfig
  <2>2. /\ DOMAIN T = DOMAIN config.transports \ {t} /\ t \notin DOMAIN T
        /\ \A u \in DOMAIN T \ {t} : T[u] = config.transports[u]
    OBVIOUS
  <2> HIDE DEF T
  <2>3. Said([key |-> <<"transport", t, "enabled">>, value |-> "0"])
    BY <1>1, <1>2, <2>1, <2>2, OneTransport
  <2>4. QED
    BY <1>1, <2>1, <2>3 DEF NewWord
<1>6. ASSUME NEW section \in DOMAIN Settings, section \in Words,
             NEW key \in DOMAIN Settings[section], key \in Words, NEW value \in Words,
             section # "eventprocessing" => value \in Settings[section][key],
             SetSetting(section, key, value)
      PROVE  \E o : NewWord(o) /\ Said(o)
  <2> DEFINE k == <<section, key>>
             o == [key |-> k, value |-> value]
  <2>1. k \in Seq(Words) /\ Len(k) = 2 /\ k[1] = section /\ k[2] = key
    BY <1>6
  <2>2. config' = [config EXCEPT ![key] = value] /\ given' = Append(given, o)
    BY <1>6 DEF SetSetting, SetDefaultConfig
  <2> HIDE DEF k
  <2>3. o \in OptionRecord /\ o.key = k /\ o.value = value
    BY <1>6, <2>1 DEF OptionRecord
  <2> HIDE DEF o
  <2>4. Len(o.key) = 2 /\ o.key[1] = section /\ o.key[2] = key
    BY <2>1, <2>3, Zenon
  <2>5. Len(o.key) >= 1 /\ Len(o.key) # 1
    BY <2>4
  <2>6. Said(o)
    BY <1>2, <1>6, <2>2, <2>3, <2>4, <2>5, OneSetting
  <2>7. QED
    BY <1>1, <2>2, <2>6 DEF NewWord
<1>7. ASSUME NEW value \in {"0", "1"}, SetIsIntrospectionEnabled(value)
      PROVE  \E o : NewWord(o) /\ Said(o)
  <2> DEFINE k == <<"introspection", "enabled">>
             o == [key |-> k, value |-> value]
  <2>1. "introspection" \in Words /\ "enabled" \in Words
    BY DEF Words
  <2>2. k \in Seq(Words) /\ Len(k) = 2 /\ k[1] = "introspection"
    BY <2>1
  <2>3. /\ config' = [config EXCEPT !.introspection = value] /\ given' = Append(given, o)
    BY <1>7 DEF SetIsIntrospectionEnabled, SetDefaultConfig
  <2>4. o.key = <<"introspection", "enabled">>
    OBVIOUS
  <2> HIDE DEF k
  <2>5. o \in OptionRecord /\ o.key = k /\ o.value = value
    BY <1>2, <2>2 DEF OptionRecord
  <2> HIDE DEF o
  <2>6. Len(o.key) = 2 /\ o.key[1] = "introspection"
    BY <2>2, <2>5, Zenon
  <2>7. Len(o.key) >= 1
    BY <2>6
  <2>8. Said(o)
    BY <1>2, <2>3, <2>4, <2>5, <2>6, <2>7, OneSwitch
  <2>9. QED
    BY <1>1, <2>3, <2>8 DEF NewWord
<1>8. ASSUME NEW s \in QualityOfService.ordering, SetSetting("qualityofservice", "ordering", s)
      PROVE  \E o : NewWord(o) /\ Said(o)
  <2>1. s \in Words /\ "qualityofservice" \in Words /\ "ordering" \in Words
    BY DEF QualityOfService, Words
  <2>2. QED
    BY <1>6, <1>8, <2>1, SettingsAre
<1>9. ASSUME NEW s \in ErrorStrategies, SetSetting("errorhandling", "onhandlererror", s)
      PROVE  \E o : NewWord(o) /\ Said(o)
  <2>1. s \in Words /\ "errorhandling" \in Words /\ "onhandlererror" \in Words
    BY DEF ErrorStrategies, Words
  <2>2. QED
    BY <1>6, <1>9, <2>1, SettingsAre
<1>10. ASSUME NEW s \in {"direct", "parallel"},
              SetSetting("eventprocessing", "receivingstrategy", s)
       PROVE  \E o : NewWord(o) /\ Said(o)
  <2>1. s \in Words /\ "eventprocessing" \in Words /\ "receivingstrategy" \in Words
    BY DEF Words
  <2>2. QED
    BY <1>6, <1>10, <2>1, SettingsAre DEF Strategies
<1>11. QED
  BY <1>3, <1>4, <1>5, <1>7, <1>8, <1>9, <1>10 DEF Reconfigure

\* Before the first option, and of whatever plugins there are
LEMMA Started == ConfigInit => ConfigInv
<1> SUFFICES ASSUME ConfigInit PROVE ConfigInv
  OBVIOUS
<1>1. /\ stage = "plugins" /\ registry = DefaultTransports /\ config = FreshConfig /\ given = <<>>
  BY DEF ConfigInit
<1>2. DOMAIN registry \subseteq Words
  BY <1>1 DEF DefaultTransports, Words
<1>3. TypedConfig(config)
  BY <1>1, Fresh DEF TypedConfig, IsConfig, FreshConfig, QualityOfService, ErrorStrategies
<1>4. QED
  BY <1>1, <1>2, <1>3 DEF ConfigInv, LastOneWins

\* The factory's own settings, with no word on anything
LEMMA SetUpHolds ==
    ASSUME ConfigInv, SetUp
    PROVE  ConfigInv'
<1> DEFINE T == [t \in AvailableTransports |-> NewTransport(t = "socket")]
<1>1. /\ stage' = "options" /\ registry' = registry /\ given' = <<>>
      /\ config' = [FreshConfig EXCEPT !.transports = T]
  BY DEF SetUp, ConfigInv
<1>2. /\ IsFields(config') /\ config'.transports = T
      /\ \A g \in ConfigFields \ {"transports"} : config'[g] = FreshConfig[g]
  BY <1>1, Fresh DEF IsFields, ConfigFields
<1>3. /\ DOMAIN T = AvailableTransports
      /\ \A t \in AvailableTransports :
            /\ IsTransport(T[t])
            /\ DOMAIN T[t].options = IF t = "socket" THEN {} ELSE {"enabled"}
            /\ t # "socket" => T[t].options["enabled"] = "0"
  BY New
<1> HIDE DEF T
<1>4. TypedConfig(config')
  <2>1. /\ config'.reliability = "RELIABLE" /\ config'.ordering = "UNORDERED"
        /\ config'.onhandlererror = "LOG" /\ DOMAIN config'.strategyOptions = Strategies
        /\ config'.options = <<>>
    BY <1>2 DEF ConfigFields, FreshConfig
  <2>2. QED
    BY <1>2, <1>3, <2>1 DEF TypedConfig, IsConfig, QualityOfService, ErrorStrategies
<1>5. /\ \A key : (GivenAt(key))' = {}
      /\ \A section, key : (SettingAt(section, key))' = {}
  BY <1>1 DEF GivenAt, SettingAt
<1>6. /\ \A key, default : (LastGiven(key, default))' = default
      /\ \A section, key, default : LastAt(given', (SettingAt(section, key))', default) = default
  BY <1>5 DEF LastGiven, LastAt
<1>7. LastOneWins'
  <2>1. ASSUME NEW section \in DOMAIN Settings, NEW key \in DOMAIN Settings[section]
        PROVE  config'[key] = (LastAt(given, SettingAt(section, key), FreshConfig[key]))'
    <3>1. key \in ConfigFields \ {"transports"}
      BY SettingsAre DEF ConfigFields, Strategies
    <3>2. QED
      BY <1>2, <1>6, <3>1
  <2>2. /\ config'.strategyOptions = [s \in Strategies |-> <<>>] /\ config'.introspection = "1"
        /\ config'.options = <<>>
    BY <1>2, Fresh DEF ConfigFields
  <2>3. config'.introspection = (LastGiven(<<"introspection", "enabled">>, "1"))'
    BY <1>6, <2>2
  <2>4. \A t \in DOMAIN config'.transports : \A key \in DOMAIN config'.transports[t].options :
            config'.transports[t].options[key]
                = (LastGiven(<<"transport", t, key>>, IF t = "socket" THEN "1" ELSE "0"))'
    BY <1>2, <1>3, <1>6
  <2>5. QED
    BY <2>1, <2>2, <2>3, <2>4 DEF LastOneWins
<1>8. ASSUME NEW t PROVE TransportHeld(t)'
  <2>1. ~AskedFor(t)' /\ ~Mentioned(t)'
    BY <1>1, <1>5 DEF AskedFor, Mentioned
  <2>2. AvailableTransports' = AvailableTransports
    BY <1>1 DEF AvailableTransports
  <2>3. QED
    BY <1>2, <1>3, <2>1, <2>2 DEF TransportHeld, There, Switched
<1>9. QED
  BY <1>1, <1>4, <1>7, <1>8 DEF ConfigInv

\* The words are kept, whatever the sources and the program say.
LEMMA ConfigKept ==
    ASSUME ConfigInv, [ConfigNext]_configVars
    PROVE  ConfigInv'
<1>1. ASSUME NEW p \in Plugins, LoadPlugin(p) PROVE ConfigInv'
  <2>1. /\ stage = "plugins" /\ UNCHANGED <<stage, config, given>>
        /\ DOMAIN registry' = DOMAIN registry \cup {p.name}
    BY <1>1 DEF LoadPlugin, With
  <2>2. p.name \in Words
    BY PluginsAssumption DEF Words
  <2>3. LastOneWins'
    BY <2>1 DEF LastOneWins
  <2>4. QED
    BY <2>1, <2>2, <2>3 DEF ConfigInv
<1>2. ASSUME UNCHANGED <<registry, config, given>>, stage' = stage PROVE ConfigInv'
  <2>1. /\ LastOneWins' = LastOneWins
        /\ \A t : TransportHeld(t)' = TransportHeld(t)
    BY <1>2 DEF LastOneWins, TransportHeld, LastGiven, LastAt, GivenAt, SettingAt, AskedFor,
                LastWord, Mentioned, AvailableTransports
  <2>2. QED
    BY <1>2, <2>1 DEF ConfigInv
<1>3. CASE SetUp
  BY <1>3, SetUpHolds
<1>4. ASSUME NEW o \in Options,
             HandleSetting(o) \/ HandleIntrospection(o) \/ HandleTransport(o) \/ HandleGlobal(o)
      PROVE  ConfigInv'
  <2>1. NewWord(o)
    BY <1>4 DEF HandleSetting, HandleIntrospection, HandleTransport, HandleGlobal, Handle, NewWord
  <2>2. Said(o)
    BY <1>4, SettingHandled, IntrospectionHandled, TransportHandled, GlobalHandled
       DEF ConfigInv
  <2>3. QED
    BY <2>1, <2>2, WordKept
<1>5. ASSUME NEW o \in Options, Refuse(o) PROVE ConfigInv'
  <2>1. stage' = "failed" /\ UNCHANGED <<registry, config, given>>
    BY <1>5 DEF Refuse
  <2>2. QED
    BY <2>1 DEF ConfigInv, LastOneWins
<1>6. CASE Complete
  <2>1. stage = "options" /\ stage' = "ready" /\ UNCHANGED <<registry, config, given>>
    BY <1>6 DEF Complete
  <2>2. LastOneWins'
    <3>1. /\ \A key, default : (LastGiven(key, default))' = LastGiven(key, default)
          /\ \A section, key : (SettingAt(section, key))' = SettingAt(section, key)
      BY <2>1 DEF LastGiven, LastAt, GivenAt, SettingAt
    <3>2. \A section, key, default : (LastAt(given, SettingAt(section, key), default))'
                                         = LastAt(given, SettingAt(section, key), default)
      BY <2>1, <3>1
    <3>3. LastOneWins /\ stage \in {"options", "ready"}
      BY <2>1 DEF ConfigInv
    <3>4. QED
      BY <2>1, <3>1, <3>2, <3>3 DEF LastOneWins
  <2>3. \A t : TransportHeld(t)'
    BY <2>1 DEF ConfigInv, TransportHeld, LastGiven, LastAt, GivenAt, AskedFor, LastWord,
                      Mentioned, AvailableTransports
  <2>4. QED
    BY <2>1, <2>2, <2>3 DEF ConfigInv
<1>7. CASE Reconfigure
  BY <1>7, Reconfigured, WordKept
<1>8. ASSUME NEW s \in OtherConverters, RegisterConverter(s) PROVE ConfigInv'
  BY <1>2, <1>8 DEF RegisterConverter
<1>9. CASE UNCHANGED configVars
  BY <1>2, <1>9 DEF configVars
<1>10. QED
  BY <1>1, <1>3, <1>4, <1>5, <1>6, <1>7, <1>8, <1>9 DEF ConfigNext

-----------------------------------------------------------------------------
(* No option is lost *)

Threads(o, s) == o.key[1] = "eventprocessing" /\ Len(o.key) = 3 /\ o.key[2] = s
IsGlobal(o) == Len(o.key) = 1 /\ o.key[1] # "introspection"
AddsConverter(o) == Len(o.key) = 5 /\ o.key[4] = "cpp"

\* What there is of a strategy's options, of those of all participants, and of a
\* transport's options and converters
StrategyHolds(s) ==
    DOMAIN config.strategyOptions[s] = {o.key[3] : o \in {g \in AllGiven : Threads(g, s)}}
GlobalsHold == DOMAIN config.options = {o.key[1] : o \in {g \in AllGiven : IsGlobal(g)}}
OptionsHold(t) ==
    DOMAIN config.transports[t].options \ {"enabled"}
        = {o.key[3] : o \in {g \in WordsOn(t) : Len(g.key) = 3}} \ {"enabled"}
ConvertersHold(t) ==
    config.transports[t].converters
        = {<<o.key[5], o.value>> : o \in {g \in WordsOn(t) : AddsConverter(g)}}
NoneGone ==
    \A o \in AllGiven :
        o.key[1] = "transport" /\ o.key[2] \notin anew => o.key[2] \in DOMAIN config.transports

LEMMA LostParts ==
    /\ NothingIsLost <=>
            (stage \in {"options", "ready"} =>
                /\ \A s \in Strategies : StrategyHolds(s)
                /\ GlobalsHold
                /\ \A t \in DOMAIN config.transports : OptionsHold(t) /\ ConvertersHold(t)
                /\ NoneGone)
    /\ NothingIsLost' <=>
            (stage' \in {"options", "ready"} =>
                /\ \A s \in Strategies : StrategyHolds(s)'
                /\ GlobalsHold'
                /\ \A t \in DOMAIN config'.transports : OptionsHold(t)' /\ ConvertersHold(t)'
                /\ NoneGone')
BY DEF NothingIsLost, StrategyHolds, GlobalsHold, OptionsHold, ConvertersHold, NoneGone, Threads,
       IsGlobal, AddsConverter

\* One more word among the words
LEMMA WordsGrow ==
    ASSUME given \in Seq(OptionRecord), NEW o \in OptionRecord, given' = Append(given, o)
    PROVE  /\ AllGiven' = AllGiven \cup {o}
           /\ \A t : t \in anew' => WordsOn(t)' = {}
           /\ \A t : t \notin anew' /\ t \notin anew =>
                  WordsOn(t)' = IF About(o, t) THEN WordsOn(t) \cup {o} ELSE WordsOn(t)
<1>1. /\ DOMAIN given = 1..Len(given) /\ DOMAIN given' = 1..(Len(given) + 1)
      /\ Len(given) \in Nat /\ given'[Len(given) + 1] = o
      /\ \A i \in 1..Len(given) : given'[i] = given[i]
  OBVIOUS
<1>2. AllGiven' = AllGiven \cup {o}
  <2>1. \A x : x \in AllGiven' <=> x \in AllGiven \/ x = o
    BY <1>1 DEF AllGiven
  <2>2. QED
    BY <2>1
<1>3. \A t : t \in anew' => WordsOn(t)' = {}
  BY DEF WordsOn
<1>4. ASSUME NEW t, t \notin anew', t \notin anew
      PROVE  WordsOn(t)' = IF About(o, t) THEN WordsOn(t) \cup {o} ELSE WordsOn(t)
  BY <1>2, <1>4 DEF WordsOn, About
<1>5. QED
  BY <1>2, <1>3, <1>4

\* A word that is none of a strategy's and none for all participants
LEMMA OthersHold ==
    ASSUME given \in Seq(OptionRecord), NEW o \in OptionRecord, given' = Append(given, o),
           \A s \in Strategies : StrategyHolds(s), GlobalsHold,
           config'.strategyOptions = config.strategyOptions, config'.options = config.options,
           ~IsGlobal(o), \A s \in Strategies : ~Threads(o, s)
    PROVE  (\A s \in Strategies : StrategyHolds(s)') /\ GlobalsHold'
<1>1. AllGiven' = AllGiven \cup {o}
  BY WordsGrow
<1>2. ASSUME NEW s \in Strategies PROVE StrategyHolds(s)'
  <2>1. {g \in AllGiven' : Threads(g, s)} = {g \in AllGiven : Threads(g, s)}
    BY <1>1
  <2>2. StrategyHolds(s)
    OBVIOUS
  <2>3. QED
    BY <2>1, <2>2 DEF StrategyHolds
<1>3. GlobalsHold'
  <2>1. {g \in AllGiven' : IsGlobal(g)} = {g \in AllGiven : IsGlobal(g)}
    BY <1>1
  <2>2. QED
    BY <2>1 DEF GlobalsHold
<1>4. QED
  BY <1>2, <1>3

\* A word that is about no transport
LEMMA TransportsHold ==
    ASSUME given \in Seq(OptionRecord), NEW o \in OptionRecord, given' = Append(given, o),
           \A t \in DOMAIN config.transports : OptionsHold(t) /\ ConvertersHold(t), NoneGone,
           config'.transports = config.transports, anew' = anew, o.key[1] # "transport"
    PROVE  /\ \A t \in DOMAIN config'.transports : OptionsHold(t)' /\ ConvertersHold(t)'
           /\ NoneGone'
<1>1. AllGiven' = AllGiven \cup {o} /\ \A t : WordsOn(t)' = WordsOn(t)
  <2>1. \A t : ~About(o, t)
    BY DEF About
  <2>2. \A t : t \in anew => WordsOn(t) = {}
    BY DEF WordsOn
  <2>3. QED
    BY <2>1, <2>2, WordsGrow
<1>2. ASSUME NEW t \in DOMAIN config'.transports PROVE OptionsHold(t)' /\ ConvertersHold(t)'
  <2>1. t \in DOMAIN config.transports /\ OptionsHold(t) /\ ConvertersHold(t)
    OBVIOUS
  <2>2. QED
    BY <1>1, <2>1 DEF OptionsHold, ConvertersHold
<1>3. NoneGone'
  BY <1>1 DEF NoneGone
<1>4. QED
  BY <1>2, <1>3

\* A word about one transport, which it changes
LEMMA OneHolds ==
    ASSUME given \in Seq(OptionRecord), NEW o \in OptionRecord, given' = Append(given, o),
           \A t \in DOMAIN config.transports : OptionsHold(t) /\ ConvertersHold(t), NoneGone,
           NEW s, About(o, s),
           DOMAIN config'.transports \ {s} = DOMAIN config.transports \ {s},
           \A u \in DOMAIN config'.transports \ {s} : config'.transports[u] = config.transports[u],
           anew' = anew \/ anew' = anew \cup {s},
           s \in DOMAIN config'.transports => OptionsHold(s)' /\ ConvertersHold(s)',
           s \in DOMAIN config'.transports \/ s \in anew'
    PROVE  /\ \A t \in DOMAIN config'.transports : OptionsHold(t)' /\ ConvertersHold(t)'
           /\ NoneGone'
<1>1. AllGiven' = AllGiven \cup {o}
  BY WordsGrow
<1>2. ASSUME NEW t \in DOMAIN config'.transports, t # s PROVE OptionsHold(t)' /\ ConvertersHold(t)'
  <2>1. /\ t \in DOMAIN config.transports /\ OptionsHold(t) /\ ConvertersHold(t)
        /\ config'.transports[t] = config.transports[t]
    BY <1>2
  <2>2. WordsOn(t)' = WordsOn(t)
    <3>1. ~About(o, t)
      BY <1>2 DEF About
    <3>2. t \in anew' <=> t \in anew
      BY <1>2
    <3>3. t \in anew => WordsOn(t) = {}
      BY DEF WordsOn
    <3>4. QED
      BY <3>1, <3>2, <3>3, WordsGrow
  <2>3. QED
    BY <2>1, <2>2 DEF OptionsHold, ConvertersHold
<1>3. NoneGone'
  BY <1>1 DEF NoneGone, About
<1>4. QED
  BY <1>2, <1>3

\* An option of a transport is there, and a converter beside the others.
LEMMA TransportKeeps ==
    ASSUME ConfigInv, anew = {},
           \A t \in DOMAIN config.transports : OptionsHold(t) /\ ConvertersHold(t), NoneGone,
           NEW o \in Options, HandleTransport(o)
    PROVE  /\ \A t \in DOMAIN config'.transports : OptionsHold(t)' /\ ConvertersHold(t)'
           /\ NoneGone'
<1>1. /\ o \in OptionRecord /\ o.key \in Seq(Words) /\ o.value \in Words /\ Len(o.key) >= 1
      /\ Len(o.key) \in Nat /\ o.key[1] = "transport" /\ ~Invalid(o)
      /\ given \in Seq(OptionRecord) /\ given' = Append(given, o) /\ anew' = anew
  BY AnOption DEF OptionRecord, HandleTransport, Handle, ConfigInv
<1>2. /\ Len(o.key) >= 3
      /\ Len(o.key) > 3 => o.key[3] = "converter" /\ (o.key[4] = "cpp" => Len(o.key) = 5)
  <2>1. /\ ~(Len(o.key) < 3)
        /\ Len(o.key) > 3 => o.key[3] = "converter" /\ (o.key[4] = "cpp" => ~(Len(o.key) # 5))
    BY <1>1, Zenon DEF Invalid
  <2>2. \A n \in Nat : ~(n < 3) => n >= 3
    OBVIOUS
  <2>3. QED
    BY <1>1, <2>1, <2>2, Zenon
<1>3. IsFields(config) /\ IsConfig(config)
  BY DEF ConfigInv, TypedConfig
<1> DEFINE s == o.key[2]
           before == IF s \in DOMAIN config.transports THEN config.transports[s]
                     ELSE NewTransport(TRUE)
           w == WithOption(before, SubSeq(o.key, 3, Len(o.key)), o.value)
           T == With(config.transports, s, w)
<1>4. config' = [config EXCEPT !.transports = T]
  BY <1>1, Zenon DEF HandleTransport
<1>5. IsTransport(before)
  BY <1>3, New DEF IsConfig
<1>6. /\ DOMAIN before.options \ {"enabled"}
             = {g.key[3] : g \in {h \in WordsOn(s) : Len(h.key) = 3}} \ {"enabled"}
      /\ before.converters = {<<g.key[5], g.value>> : g \in {h \in WordsOn(s) : AddsConverter(h)}}
  <2>1. CASE s \in DOMAIN config.transports
    BY <2>1 DEF OptionsHold, ConvertersHold
  <2>2. CASE s \notin DOMAIN config.transports
    <3>1. before.converters = {} /\ DOMAIN before.options = {}
      BY <2>2, New DEF NewTransport
    <3>2. WordsOn(s) = {}
      BY <2>2 DEF WordsOn, NoneGone
    <3> HIDE DEF before, s
    <3>3. QED
      BY <3>1, <3>2
  <2>3. QED
    BY <2>1, <2>2
<1>7. /\ w.options = IF Len(o.key) = 3 THEN With(before.options, o.key[3], o.value)
                     ELSE before.options
      /\ w.converters = IF Len(o.key) = 5 /\ o.key[4] = "cpp"
                        THEN before.converters \cup {<<o.key[5], o.value>>} ELSE before.converters
  <2> HIDE DEF before
  <2>1. QED
    BY <1>1, <1>2, <1>5, TransportHandles
<1> HIDE DEF w
<1>8. /\ DOMAIN T = DOMAIN config.transports \cup {s} /\ T[s] = w
      /\ \A t \in DOMAIN config.transports \ {s} : T[t] = config.transports[t]
  BY DEF With
<1> HIDE DEF T
<1>9. config'.transports = T
  BY <1>3, <1>4 DEF IsFields, ConfigFields
<1> HIDE DEF before
<1>10. About(o, s)
  BY <1>1 DEF About
<1>11. WordsOn(s)' = WordsOn(s) \cup {o}
  BY <1>1, <1>10, WordsGrow
<1>12. OptionsHold(s)'
  <2>1. DOMAIN w.options = IF Len(o.key) = 3 THEN DOMAIN before.options \cup {o.key[3]}
                           ELSE DOMAIN before.options
    BY <1>7 DEF With
  <2>2. {g.key[3] : g \in {h \in WordsOn(s)' : Len(h.key) = 3}}
            = {g.key[3] : g \in {h \in WordsOn(s) : Len(h.key) = 3}}
                  \cup IF Len(o.key) = 3 THEN {o.key[3]} ELSE {}
    BY <1>11
  <2> HIDE DEF s
  <2>3. QED
    BY <1>6, <1>8, <1>9, <2>1, <2>2 DEF OptionsHold
<1>13. ConvertersHold(s)'
  <2>1. {<<g.key[5], g.value>> : g \in {h \in WordsOn(s)' : AddsConverter(h)}}
            = {<<g.key[5], g.value>> : g \in {h \in WordsOn(s) : AddsConverter(h)}}
                  \cup IF AddsConverter(o) THEN {<<o.key[5], o.value>>} ELSE {}
    BY <1>11
  <2> HIDE DEF s
  <2>2. w.converters = before.converters
                           \cup IF AddsConverter(o) THEN {<<o.key[5], o.value>>} ELSE {}
    BY <1>7 DEF AddsConverter
  <2>3. QED
    BY <1>6, <1>8, <1>9, <2>1, <2>2 DEF ConvertersHold
<1>14. QED
  BY <1>1, <1>8, <1>9, <1>10, <1>12, <1>13, OneHolds

\* What the program does to a transport: it says no more of it than whether it is
\* enabled.
LEMMA ProgramKeeps ==
    ASSUME ConfigInv, NEW t \in Words, NEW value \in Words,
           \A u \in DOMAIN config.transports : OptionsHold(u) /\ ConvertersHold(u), NoneGone,
           given' = Append(given, [key |-> <<"transport", t, "enabled">>, value |-> value]),
           DOMAIN config'.transports \ {t} = DOMAIN config.transports \ {t},
           \A u \in DOMAIN config'.transports \ {t} : config'.transports[u] = config.transports[u],
           \/ /\ anew' = anew /\ t \in DOMAIN config.transports /\ t \in DOMAIN config'.transports
              /\ DOMAIN config'.transports[t].options
                     = DOMAIN config.transports[t].options \cup {"enabled"}
              /\ config'.transports[t].converters = config.transports[t].converters
           \/ /\ anew' = anew \cup {t}
              /\ t \in DOMAIN config'.transports =>
                     /\ DOMAIN config'.transports[t].options \subseteq {"enabled"}
                     /\ config'.transports[t].converters = {}
    PROVE  /\ \A u \in DOMAIN config'.transports : OptionsHold(u)' /\ ConvertersHold(u)'
           /\ NoneGone'
<1> DEFINE k == <<"transport", t, "enabled">>
           o == [key |-> k, value |-> value]
<1>1. /\ k \in Seq(Words) /\ Len(k) = 3 /\ k[1] = "transport" /\ k[2] = t /\ k[3] = "enabled"
  <2>1. "transport" \in Words /\ "enabled" \in Words
    BY DEF Words
  <2>2. QED
    BY <2>1, TripleIs
<1> HIDE DEF k
<1>2. o \in OptionRecord /\ o.key = k /\ o.value = value
  BY <1>1 DEF OptionRecord
<1>3. given \in Seq(OptionRecord) /\ given' = Append(given, o)
  BY DEF ConfigInv, k
<1> HIDE DEF o
<1>4. /\ About(o, t) /\ ~AddsConverter(o) /\ Len(o.key) = 3 /\ o.key[3] = "enabled"
  <2>1. Len(o.key) = 3 /\ o.key[1] = "transport" /\ o.key[2] = t /\ o.key[3] = "enabled"
    BY <1>1, <1>2, Zenon
  <2>2. Len(o.key) # 5
    BY <2>1
  <2>3. QED
    BY <2>1, <2>2, Zenon DEF About, AddsConverter
<1>5. CASE anew' = anew \cup {t}
  <2>1. WordsOn(t)' = {}
    BY <1>5 DEF WordsOn
  <2>2. t \in DOMAIN config'.transports => OptionsHold(t)' /\ ConvertersHold(t)'
    <3>1. ASSUME t \in DOMAIN config'.transports
          PROVE  /\ DOMAIN config'.transports[t].options \ {"enabled"} = {}
                 /\ config'.transports[t].converters = {}
      <4>1. CASE anew' = anew /\ t \in DOMAIN config.transports
        <5>1. t \in anew
          BY <1>5, <4>1
        <5>2. WordsOn(t) = {} /\ OptionsHold(t) /\ ConvertersHold(t)
          BY <4>1, <5>1 DEF WordsOn
        <5>3. /\ DOMAIN config.transports[t].options \ {"enabled"} = {}
              /\ config.transports[t].converters = {}
          BY <5>2 DEF OptionsHold, ConvertersHold
        <5>4. QED
          BY <3>1, <5>3
      <4>2. QED
        BY <3>1, <4>1
    <3>2. QED
      BY <2>1, <3>1 DEF OptionsHold, ConvertersHold
  <2>3. t \in anew'
    BY <1>5
  <2>4. QED
    BY <1>2, <1>3, <1>4, <1>5, <2>2, <2>3, OneHolds
<1>6. CASE anew' = anew /\ t \notin anew
  <2>1. /\ t \in DOMAIN config.transports /\ t \in DOMAIN config'.transports
        /\ DOMAIN config'.transports[t].options
               = DOMAIN config.transports[t].options \cup {"enabled"}
        /\ config'.transports[t].converters = config.transports[t].converters
        /\ OptionsHold(t) /\ ConvertersHold(t)
    BY <1>6
  <2>2. WordsOn(t)' = WordsOn(t) \cup {o}
    BY <1>2, <1>3, <1>4, <1>6, WordsGrow
  <2>3. {g.key[3] : g \in {h \in WordsOn(t)' : Len(h.key) = 3}}
            = {g.key[3] : g \in {h \in WordsOn(t) : Len(h.key) = 3}} \cup {"enabled"}
    BY <1>4, <2>2
  <2>4. {h \in WordsOn(t)' : AddsConverter(h)} = {h \in WordsOn(t) : AddsConverter(h)}
    BY <1>4, <2>2
  <2>5. OptionsHold(t)' /\ ConvertersHold(t)'
    BY <2>1, <2>3, <2>4 DEF OptionsHold, ConvertersHold
  <2>6. QED
    BY <1>2, <1>3, <1>4, <1>6, <2>1, <2>5, OneHolds
<1>7. CASE anew' = anew /\ t \in anew
  <2>1. anew \cup {t} = anew
    BY <1>7
  <2>2. anew' = anew \cup {t}
    BY <1>7, <2>1
  <2>3. QED
    BY <1>5, <2>2
<1>8. QED
  BY <1>5, <1>6, <1>7

\* Neither the other sections nor the other settings of the program are about
\* transports.
LEMMA SettingsLeave ==
    ASSUME IsFields(config)
    PROVE  /\ \A o \in Options : HandleSetting(o) \/ HandleIntrospection(o) \/ HandleGlobal(o) =>
                  config'.transports = config.transports
           /\ \A section, key, value : SetSetting(section, key, value) /\ key # "transports" =>
                  config'.transports = config.transports
           /\ \A value : SetIsIntrospectionEnabled(value) =>
                  config'.transports = config.transports
<1>1. IsFields(config)
  OBVIOUS
<1>2. \A key, value : key # "transports" =>
          [config EXCEPT ![key] = value].transports = config.transports
  BY <1>1 DEF IsFields, ConfigFields
<1>3. ASSUME NEW o \in Options, HandleSetting(o) PROVE config'.transports = config.transports
  <2>1. \/ config' = config
        \/ config' = [config EXCEPT !.strategyOptions[o.key[2]] = With(@, o.key[3], o.value)]
        \/ HasSetting(o) /\ config' = [config EXCEPT ![o.key[2]] = o.value]
    BY <1>3 DEF HandleSetting
  <2>2. HasSetting(o) => o.key[2] # "transports"
    BY SettingsAre DEF HasSetting, Strategies
  <2>3. [config EXCEPT !.strategyOptions[o.key[2]] = With(@, o.key[3], o.value)].transports
            = config.transports
    BY <1>1 DEF IsFields, ConfigFields
  <2>4. HasSetting(o) => [config EXCEPT ![o.key[2]] = o.value].transports = config.transports
    BY <1>2, <2>2
  <2>5. QED
    BY <2>1, <2>3, <2>4, Zenon
<1>4. ASSUME NEW o \in Options, HandleIntrospection(o) PROVE config'.transports = config.transports
  BY <1>2, <1>4 DEF HandleIntrospection
<1>5. ASSUME NEW o \in Options, HandleGlobal(o) PROVE config'.transports = config.transports
  <2>1. [config EXCEPT !.options = With(@, o.key[1], o.value)].transports = config.transports
    BY <1>1 DEF IsFields, ConfigFields
  <2>2. QED
    BY <1>5, <2>1 DEF HandleGlobal
<1>6. ASSUME NEW section, NEW key, NEW value, SetSetting(section, key, value), key # "transports"
      PROVE  config'.transports = config.transports
  BY <1>2, <1>6 DEF SetSetting, SetDefaultConfig
<1>7. ASSUME NEW value, SetIsIntrospectionEnabled(value)
      PROVE  config'.transports = config.transports
  BY <1>2, <1>7 DEF SetIsIntrospectionEnabled, SetDefaultConfig
<1>8. QED
  BY <1>3, <1>4, <1>5, <1>6, <1>7, Zenon

\* An option of another section is there among those of its strategy or of all
\* participants.
LEMMA SectionsKeep ==
    ASSUME ConfigInv, NEW o \in Options,
           HandleSetting(o) \/ HandleIntrospection(o) \/ HandleGlobal(o),
           \A s \in Strategies : StrategyHolds(s), GlobalsHold
    PROVE  (\A s \in Strategies : StrategyHolds(s)') /\ GlobalsHold'
<1>1. /\ o \in OptionRecord /\ o.key \in Seq(Words) /\ Len(o.key) >= 1 /\ Len(o.key) \in Nat
      /\ o.key[1] \in {"errorhandling", "eventprocessing"} => Len(o.key) >= 2
  BY AnOption, OptionsAssumption DEF OptionRecord
<1>2. /\ given \in Seq(OptionRecord) /\ given' = Append(given, o) /\ ~Invalid(o)
  BY DEF HandleSetting, HandleIntrospection, HandleGlobal, Handle, ConfigInv
<1>3. IsFields(config) /\ DOMAIN config.strategyOptions = Strategies
  BY DEF ConfigInv, TypedConfig, IsConfig
<1>4. AllGiven' = AllGiven \cup {o}
  BY <1>1, <1>2, WordsGrow
<1>5. o.key[1] = "qualityofservice" => Len(o.key) = 2
  BY <1>2, Zenon DEF Invalid
<1>6. CASE HandleSetting(o) /\ o.key[1] = "eventprocessing" /\ Len(o.key) = 3
  <2> DEFINE s == o.key[2]
             x == With(config.strategyOptions[s], o.key[3], o.value)
             y == [config.strategyOptions EXCEPT ![s] = x]
  <2>1. HasSetting(o) /\ s \in Strategies
    <3>1. HasSetting(o)
      BY <1>2, <1>6, Zenon DEF Invalid
    <3>2. QED
      BY <1>6, <3>1, SettingsAre DEF HasSetting
  <2>2. config' = [config EXCEPT !["strategyOptions"] = y]
    BY <1>6, <2>1 DEF HandleSetting
  <2>3. /\ config'.strategyOptions = y /\ config'.options = config.options
    BY <1>3, <2>2 DEF IsFields, ConfigFields
  <2>4. /\ \A r \in Strategies \ {s} : y[r] = config.strategyOptions[r]
        /\ DOMAIN y[s] = DOMAIN config.strategyOptions[s] \cup {o.key[3]}
    BY <1>3, <2>1 DEF With
  <2> HIDE DEF y
  <2>5. ASSUME NEW r \in Strategies PROVE StrategyHolds(r)'
    <3>1. CASE r = s
      <4>1. Threads(o, r)
        BY <1>6, <3>1 DEF Threads
      <4>2. {g.key[3] : g \in {h \in AllGiven' : Threads(h, r)}}
                = {g.key[3] : g \in {h \in AllGiven : Threads(h, r)}} \cup {o.key[3]}
        BY <1>4, <4>1
      <4>3. StrategyHolds(r)
        OBVIOUS
      <4>4. QED
        BY <2>3, <2>4, <3>1, <4>2, <4>3 DEF StrategyHolds
    <3>2. CASE r # s
      <4>1. {h \in AllGiven' : Threads(h, r)} = {h \in AllGiven : Threads(h, r)}
        BY <1>4, <3>2 DEF Threads
      <4>2. StrategyHolds(r)
        OBVIOUS
      <4>3. QED
        BY <2>3, <2>4, <3>2, <4>1, <4>2 DEF StrategyHolds
    <3>3. QED
      BY <3>1, <3>2
  <2>6. GlobalsHold'
    <3>1. {h \in AllGiven' : IsGlobal(h)} = {h \in AllGiven : IsGlobal(h)}
      BY <1>4, <1>6 DEF IsGlobal
    <3>2. QED
      BY <2>3, <3>1 DEF GlobalsHold
  <2>7. QED
    BY <2>5, <2>6
<1>7. CASE HandleGlobal(o) /\ Len(o.key) = 1
  <2>1. config' = [config EXCEPT !.options = With(config.options, o.key[1], o.value)]
    BY <1>7 DEF HandleGlobal
  <2>2. /\ config'.strategyOptions = config.strategyOptions
        /\ DOMAIN config'.options = DOMAIN config.options \cup {o.key[1]}
    BY <1>3, <2>1 DEF IsFields, ConfigFields, With
  <2>3. IsGlobal(o) /\ \A s \in Strategies : ~Threads(o, s)
    BY <1>7 DEF HandleGlobal, IsGlobal, Threads
  <2>4. ASSUME NEW s \in Strategies PROVE StrategyHolds(s)'
    <3>1. {h \in AllGiven' : Threads(h, s)} = {h \in AllGiven : Threads(h, s)}
      BY <1>4, <2>3
    <3>2. StrategyHolds(s)
      OBVIOUS
    <3>3. QED
      BY <2>2, <3>1, <3>2 DEF StrategyHolds
  <2>5. GlobalsHold'
    <3>1. {g.key[1] : g \in {h \in AllGiven' : IsGlobal(h)}}
              = {g.key[1] : g \in {h \in AllGiven : IsGlobal(h)}} \cup {o.key[1]}
      BY <1>4, <2>3
    <3>2. QED
      BY <2>2, <3>1 DEF GlobalsHold
  <2>6. QED
    BY <2>4, <2>5
<1>8. CASE /\ ~(HandleSetting(o) /\ o.key[1] = "eventprocessing" /\ Len(o.key) = 3)
           /\ ~(HandleGlobal(o) /\ Len(o.key) = 1)
  <2>1. ~IsGlobal(o) /\ \A s \in Strategies : ~Threads(o, s)
    <3>1. CASE HandleSetting(o)
      <4>1. o.key[1] \in {"qualityofservice", "errorhandling", "eventprocessing"}
        BY <3>1, SettingsAre DEF HandleSetting
      <4>2. Len(o.key) # 1
        <5>1. CASE o.key[1] = "qualityofservice"
          BY <1>5, <5>1
        <5>2. CASE o.key[1] \in {"errorhandling", "eventprocessing"}
          <6>1. Len(o.key) \in Nat /\ Len(o.key) >= 2
            BY <1>1, <5>2, Zenon
          <6>2. \A n \in Nat : n >= 2 => n # 1
            OBVIOUS
          <6>3. QED
            BY <6>1, <6>2, Zenon
        <5>3. QED
          BY <4>1, <5>1, <5>2
      <4>3. QED
        BY <1>8, <3>1, <4>2 DEF IsGlobal, Threads
    <3>2. CASE HandleIntrospection(o)
      BY <3>2 DEF HandleIntrospection, IsGlobal, Threads
    <3>3. CASE HandleGlobal(o)
      BY <1>8, <3>3, SettingsAre DEF HandleGlobal, IsGlobal, Threads
    <3>4. QED
      BY <3>1, <3>2, <3>3
  <2>2. config'.strategyOptions = config.strategyOptions /\ config'.options = config.options
    <3>1. CASE HandleSetting(o)
      <4>1. \/ config' = config
            \/ HasSetting(o) /\ config' = [config EXCEPT ![o.key[2]] = o.value]
        <5>1. ~(o.key[1] = "eventprocessing" /\ Len(o.key) = 3)
          BY <1>8, <3>1
        <5>2. QED
          BY <3>1, <5>1 DEF HandleSetting
      <4>2. HasSetting(o) => o.key[2] \notin {"strategyOptions", "options"}
        BY SettingsAre DEF HasSetting, Strategies
      <4>3. \A k, v : k \notin {"strategyOptions", "options"} =>
                /\ [config EXCEPT ![k] = v].strategyOptions = config.strategyOptions
                /\ [config EXCEPT ![k] = v].options = config.options
        BY <1>3 DEF IsFields, ConfigFields
      <4>4. HasSetting(o) =>
                /\ [config EXCEPT ![o.key[2]] = o.value].strategyOptions = config.strategyOptions
                /\ [config EXCEPT ![o.key[2]] = o.value].options = config.options
        BY <4>2, <4>3
      <4>5. QED
        BY <4>1, <4>4, Zenon
    <3>2. CASE HandleIntrospection(o)
      BY <1>3, <3>2 DEF HandleIntrospection, IsFields, ConfigFields
    <3>3. CASE HandleGlobal(o)
      BY <1>8, <3>3 DEF HandleGlobal
    <3>4. QED
      BY <3>1, <3>2, <3>3
  <2>3. QED
    BY <1>1, <1>2, <2>1, <2>2, OthersHold
<1>9. QED
  BY <1>6, <1>7, <1>8

\* Until there is a factory, the program has not changed a thing.
KeepsInv == NothingIsLost /\ (stage # "ready" => anew = {})

\* A word of two components, whatever the program means by it
LEMMA PairKeeps ==
    ASSUME given \in Seq(OptionRecord), stage' = "ready",
           \A s \in Strategies : StrategyHolds(s), GlobalsHold,
           \A t \in DOMAIN config.transports : OptionsHold(t) /\ ConvertersHold(t), NoneGone,
           NEW section \in Words, NEW key \in Words, NEW value \in Words, section # "transport",
           given' = Append(given, [key |-> <<section, key>>, value |-> value]),
           config'.transports = config.transports, config'.options = config.options,
           config'.strategyOptions = config.strategyOptions, anew' = anew
    PROVE  KeepsInv'
<1> DEFINE k == <<section, key>>
           o == [key |-> k, value |-> value]
<1>1. k \in Seq(Words) /\ Len(k) = 2 /\ k[1] = section
  OBVIOUS
<1>2. given' = Append(given, o)
  OBVIOUS
<1> HIDE DEF k
<1>3. o \in OptionRecord /\ o.key = k
  BY <1>1 DEF OptionRecord
<1> HIDE DEF o
<1>4. ~IsGlobal(o) /\ (\A s \in Strategies : ~Threads(o, s)) /\ o.key[1] # "transport"
  <2>1. Len(o.key) = 2 /\ o.key[1] = section
    BY <1>1, <1>3, Zenon
  <2>2. Len(o.key) # 1 /\ Len(o.key) # 3
    BY <2>1
  <2>3. QED
    BY <2>1, <2>2 DEF IsGlobal, Threads
<1>5. (\A s \in Strategies : StrategyHolds(s)') /\ GlobalsHold'
  BY <1>2, <1>3, <1>4, OthersHold
<1>6. /\ \A t \in DOMAIN config'.transports : OptionsHold(t)' /\ ConvertersHold(t)'
      /\ NoneGone'
  BY <1>2, <1>3, <1>4, TransportsHold
<1>7. QED
  BY <1>5, <1>6, LostParts DEF KeepsInv

\* Nor is an option lost by what the program sets.
LEMMA ProgramLosesNothing ==
    ASSUME ConfigInv, KeepsInv, Reconfigure
    PROVE  KeepsInv'
<1>1. stage = "ready" /\ stage' = "ready" /\ given \in Seq(OptionRecord)
  BY DEF Reconfigure, SetEnabled, AddTransport, RemoveTransport, SetSetting,
         SetIsIntrospectionEnabled, SetDefaultConfig, ConfigInv
<1>2. /\ IsFields(config) /\ DOMAIN registry \subseteq Words
      /\ \A t \in DOMAIN config.transports : IsTransport(config.transports[t])
  BY DEF ConfigInv, TypedConfig, IsConfig
<1>3. /\ \A s \in Strategies : StrategyHolds(s)
      /\ GlobalsHold
      /\ \A t \in DOMAIN config.transports : OptionsHold(t) /\ ConvertersHold(t)
      /\ NoneGone
  BY <1>1, LostParts DEF KeepsInv
<1>4. "transport" \in Words /\ "enabled" \in Words /\ "0" \in Words /\ "1" \in Words
  BY DEF Words
<1>5. \A T : /\ [config EXCEPT !.transports = T].transports = T
             /\ [config EXCEPT !.transports = T].strategyOptions = config.strategyOptions
             /\ [config EXCEPT !.transports = T].options = config.options
  BY <1>2 DEF IsFields, ConfigFields
<1>6. ASSUME NEW t \in DOMAIN registry, NEW value \in {"0", "1"}, NEW T,
             config' = [config EXCEPT !.transports = T],
             given' = Append(given, [key |-> <<"transport", t, "enabled">>, value |-> value]),
             DOMAIN T \ {t} = DOMAIN config.transports \ {t},
             \A u \in DOMAIN T \ {t} : T[u] = config.transports[u],
             \/ /\ anew' = anew /\ t \in DOMAIN config.transports /\ t \in DOMAIN T
                /\ DOMAIN T[t].options = DOMAIN config.transports[t].options \cup {"enabled"}
                /\ T[t].converters = config.transports[t].converters
             \/ /\ anew' = anew \cup {t}
                /\ t \in DOMAIN T =>
                       DOMAIN T[t].options \subseteq {"enabled"} /\ T[t].converters = {}
      PROVE  KeepsInv'
  <2> DEFINE k == <<"transport", t, "enabled">>
             o == [key |-> k, value |-> value]
  <2>1. t \in Words /\ value \in Words
    BY <1>2, <1>4
  <2>2. k \in Seq(Words) /\ Len(k) = 3 /\ k[1] = "transport"
    BY <1>4, <2>1, TripleIs
  <2>3. /\ \A u \in DOMAIN config'.transports : OptionsHold(u)' /\ ConvertersHold(u)'
        /\ NoneGone'
    BY <1>3, <1>5, <1>6, <2>1, ProgramKeeps
  <2>4. given' = Append(given, o)
    BY <1>6
  <2> HIDE DEF k
  <2>5. o \in OptionRecord /\ ~IsGlobal(o) /\ \A s \in Strategies : ~Threads(o, s)
    BY <2>1, <2>2 DEF OptionRecord, IsGlobal, Threads
  <2> HIDE DEF o
  <2>6. (\A s \in Strategies : StrategyHolds(s)') /\ GlobalsHold'
    BY <1>1, <1>3, <1>5, <1>6, <2>4, <2>5, OthersHold
  <2>7. QED
    BY <1>1, <2>3, <2>6, LostParts DEF KeepsInv
<1>7. ASSUME NEW t \in DOMAIN registry, NEW value \in {"0", "1"}, SetEnabled(t, value)
      PROVE  KeepsInv'
  <2> DEFINE x == [config.transports[t] EXCEPT !.options = With(@, "enabled", value)]
             T == [config.transports EXCEPT ![t] = x]
  <2>1. /\ t \in DOMAIN config.transports /\ config' = [config EXCEPT !.transports = T]
        /\ given' = Append(given, [key |-> <<"transport", t, "enabled">>, value |-> value])
        /\ anew' = anew
    BY <1>7 DEF SetEnabled, SetDefaultConfig
  <2>2. /\ DOMAIN x.options = DOMAIN config.transports[t].options \cup {"enabled"}
        /\ x.converters = config.transports[t].converters
    BY <1>2, <2>1 DEF IsTransport, With
  <2> HIDE DEF x
  <2>3. /\ DOMAIN T = DOMAIN config.transports /\ T[t] = x
        /\ \A u \in DOMAIN T \ {t} : T[u] = config.transports[u]
    BY <2>1
  <2> HIDE DEF T
  <2>4. /\ t \in DOMAIN T /\ T[t].converters = config.transports[t].converters
        /\ DOMAIN T[t].options = DOMAIN config.transports[t].options \cup {"enabled"}
    BY <2>1, <2>2, <2>3
  <2>5. DOMAIN T \ {t} = DOMAIN config.transports \ {t}
    BY <2>3
  <2>6. QED
    BY <1>6, <2>1, <2>3, <2>4, <2>5
<1>8. ASSUME NEW t \in DOMAIN registry, NEW enabled \in BOOLEAN, AddTransport(t, enabled)
      PROVE  KeepsInv'
  <2> DEFINE value == IF enabled THEN "1" ELSE "0"
             x == NewTransport(enabled)
             T == With(config.transports, t, x)
  <2>1. /\ config' = [config EXCEPT !.transports = T]
        /\ given' = Append(given, [key |-> <<"transport", t, "enabled">>, value |-> value])
        /\ anew' = anew \cup {t} /\ value \in {"0", "1"}
    BY <1>8 DEF AddTransport, SetDefaultConfig
  <2>2. DOMAIN x.options \subseteq {"enabled"} /\ x.converters = {}
    BY New DEF NewTransport
  <2> HIDE DEF x, value
  <2>3. /\ DOMAIN T = DOMAIN config.transports \cup {t} /\ T[t] = x
        /\ \A u \in DOMAIN T \ {t} : T[u] = config.transports[u]
    BY DEF With
  <2> HIDE DEF T
  <2>4. DOMAIN T \ {t} = DOMAIN config.transports \ {t}
    BY <2>3
  <2>5. DOMAIN T[t].options \subseteq {"enabled"} /\ T[t].converters = {}
    BY <2>2, <2>3
  <2>6. QED
    BY <1>6, <2>1, <2>3, <2>4, <2>5
<1>9. ASSUME NEW t \in DOMAIN registry, RemoveTransport(t) PROVE KeepsInv'
  <2> DEFINE T == [u \in DOMAIN config.transports \ {t} |-> config.transports[u]]
  <2>1. /\ config' = [config EXCEPT !.transports = T]
        /\ given' = Append(given, [key |-> <<"transport", t, "enabled">>, value |-> "0"])
        /\ anew' = anew \cup {t}
    BY <1>9 DEF RemoveTransport, SetDefaultConfig
  <2>2. /\ DOMAIN T = DOMAIN config.transports \ {t}
        /\ \A u \in DOMAIN T \ {t} : T[u] = config.transports[u]
    OBVIOUS
  <2> HIDE DEF T
  <2>3. QED
    BY <1>6, <2>1, <2>2
<1>10. ASSUME NEW section \in {"qualityofservice", "errorhandling", "eventprocessing"},
              NEW key \in {"ordering", "onhandlererror", "receivingstrategy"},
              NEW value \in Words, SetSetting(section, key, value)
       PROVE  KeepsInv'
  <2>1. section \in Words /\ key \in Words
    BY DEF Words
  <2>2. config' = [config EXCEPT ![key] = value]
    BY <1>10 DEF SetSetting, SetDefaultConfig
  <2>3. given' = Append(given, [key |-> <<section, key>>, value |-> value]) /\ anew' = anew
    BY <1>10 DEF SetSetting, SetDefaultConfig
  <2>4. /\ config'.transports = config.transports /\ config'.options = config.options
        /\ config'.strategyOptions = config.strategyOptions
    BY <1>2, <2>2 DEF IsFields, ConfigFields
  <2>5. section # "transport"
    OBVIOUS
  <2>6. QED
    BY <1>1, <1>3, <2>1, <2>3, <2>4, <2>5, PairKeeps
<1>11. ASSUME NEW value \in {"0", "1"}, SetIsIntrospectionEnabled(value) PROVE KeepsInv'
  <2>1. "introspection" \in Words /\ "enabled" \in Words /\ value \in Words
    BY DEF Words
  <2>2. /\ config' = [config EXCEPT !.introspection = value] /\ anew' = anew
        /\ given' = Append(given, [key |-> <<"introspection", "enabled">>, value |-> value])
    BY <1>11 DEF SetIsIntrospectionEnabled, SetDefaultConfig
  <2>3. /\ config'.transports = config.transports /\ config'.options = config.options
        /\ config'.strategyOptions = config.strategyOptions
    BY <1>2, <2>2 DEF IsFields, ConfigFields
  <2>4. QED
    BY <1>1, <1>3, <2>1, <2>2, <2>3, PairKeeps
<1>12. /\ \A s \in QualityOfService.ordering : s \in Words
       /\ \A s \in ErrorStrategies : s \in Words
       /\ \A s \in {"direct", "parallel"} : s \in Words
  BY DEF QualityOfService, ErrorStrategies, Words
<1>13. QED
  BY <1>7, <1>8, <1>9, <1>10, <1>11, <1>12 DEF Reconfigure

\* Every option is there, whatever is said next.
LEMMA NothingIsLostKept ==
    ASSUME ConfigInv, KeepsInv, [ConfigNext]_configVars
    PROVE  KeepsInv'
<1>1. stage = "plugins" => given = <<>>
  BY DEF ConfigInv
<1>2. given \in Seq(OptionRecord) /\ IsFields(config) /\ IsConfig(config)
  BY DEF ConfigInv, TypedConfig
<1>3. stage \in {"options", "ready"} =>
          /\ \A s \in Strategies : StrategyHolds(s)
          /\ GlobalsHold
          /\ \A t \in DOMAIN config.transports : OptionsHold(t) /\ ConvertersHold(t)
          /\ NoneGone
  BY LostParts DEF KeepsInv
<1>4. ASSUME NEW p \in Plugins, LoadPlugin(p) PROVE KeepsInv'
  BY <1>4 DEF LoadPlugin, KeepsInv, NothingIsLost
<1>5. ASSUME UNCHANGED <<config, given, anew>>, stage' = stage PROVE KeepsInv'
  BY <1>5 DEF KeepsInv, NothingIsLost, WordsOn, AllGiven
<1>6. CASE SetUp
  <2> DEFINE T == [t \in AvailableTransports |-> NewTransport(t = "socket")]
  <2>1. /\ stage' = "options" /\ given' = <<>> /\ anew' = {}
        /\ config' = [FreshConfig EXCEPT !.transports = T]
    BY <1>1, <1>6 DEF SetUp, KeepsInv
  <2>2. /\ config'.transports = T /\ config'.options = <<>>
        /\ config'.strategyOptions = [s \in Strategies |-> <<>>]
    BY <2>1, Fresh DEF IsFields, ConfigFields
  <2>3. AllGiven' = {} /\ \A t : WordsOn(t)' = {}
    BY <2>1 DEF AllGiven, WordsOn
  <2>4. \A t \in DOMAIN T : DOMAIN T[t].options \subseteq {"enabled"} /\ T[t].converters = {}
    BY New DEF NewTransport
  <2> HIDE DEF T
  <2>5. (\A s \in Strategies : StrategyHolds(s)') /\ GlobalsHold'
    BY <2>2, <2>3 DEF StrategyHolds, GlobalsHold
  <2>6. \A t \in DOMAIN config'.transports : OptionsHold(t)' /\ ConvertersHold(t)'
    BY <2>2, <2>3, <2>4 DEF OptionsHold, ConvertersHold
  <2>7. NothingIsLost'
    BY <2>3, <2>5, <2>6, LostParts DEF NoneGone
  <2>8. QED
    BY <2>1, <2>7 DEF KeepsInv
<1>7. ASSUME NEW o \in Options,
             HandleSetting(o) \/ HandleIntrospection(o) \/ HandleGlobal(o) \/ HandleTransport(o)
      PROVE  KeepsInv'
  <2>1. /\ o \in OptionRecord /\ o.key \in Seq(Words) /\ Len(o.key) >= 1
        /\ o.key[1] \in {"errorhandling", "eventprocessing"} => Len(o.key) >= 2
    BY AnOption, OptionsAssumption DEF OptionRecord
  <2>2. /\ stage = "options" /\ stage' = stage /\ anew' = anew /\ anew = {}
        /\ given' = Append(given, o) /\ ~Invalid(o)
    BY <1>7 DEF HandleSetting, HandleIntrospection, HandleGlobal, HandleTransport, Handle, KeepsInv
  <2>3. CASE HandleTransport(o)
    <3>1. /\ \A t \in DOMAIN config'.transports : OptionsHold(t)' /\ ConvertersHold(t)'
          /\ NoneGone'
      BY <1>3, <2>2, <2>3, TransportKeeps
    <3>2. o.key[1] = "transport" /\ Len(o.key) # 1
      <4>1. o.key[1] = "transport"
        BY <2>3 DEF HandleTransport
      <4>2. ~(Len(o.key) < 3)
        BY <2>2, <4>1, Zenon DEF Invalid
      <4>3. \A n \in Nat : ~(n < 3) => n # 1
        OBVIOUS
      <4>4. Len(o.key) \in Nat
        BY <2>1
      <4>5. QED
        BY <4>1, <4>2, <4>3, <4>4, Zenon
    <3>3. /\ config'.strategyOptions = config.strategyOptions /\ config'.options = config.options
      BY <1>2, <2>3 DEF HandleTransport, IsFields, ConfigFields
    <3>4. ~IsGlobal(o) /\ \A s \in Strategies : ~Threads(o, s)
      BY <3>2 DEF IsGlobal, Threads
    <3>5. (\A s \in Strategies : StrategyHolds(s)') /\ GlobalsHold'
      BY <1>2, <1>3, <2>1, <2>2, <3>3, <3>4, OthersHold
    <3>6. QED
      BY <2>2, <3>1, <3>5, LostParts DEF KeepsInv
  <2>4. CASE HandleSetting(o) \/ HandleIntrospection(o) \/ HandleGlobal(o)
    <3>1. config'.transports = config.transports
      BY <1>2, <2>4, SettingsLeave
    <3>2. o.key[1] # "transport"
      BY <2>4, SettingsAre DEF HandleSetting, HandleIntrospection, HandleGlobal
    <3>3. /\ \A t \in DOMAIN config'.transports : OptionsHold(t)' /\ ConvertersHold(t)'
          /\ NoneGone'
      BY <1>2, <1>3, <2>1, <2>2, <3>1, <3>2, TransportsHold
    <3>4. (\A s \in Strategies : StrategyHolds(s)') /\ GlobalsHold'
      BY <1>2, <1>3, <2>1, <2>2, <2>4, SectionsKeep
    <3>5. QED
      BY <2>2, <3>3, <3>4, LostParts DEF KeepsInv
  <2>5. QED
    BY <1>7, <2>3, <2>4
<1>8. ASSUME NEW o \in Options, Refuse(o) PROVE KeepsInv'
  BY <1>8 DEF Refuse, KeepsInv, NothingIsLost
<1>9. CASE Complete
  BY <1>9 DEF Complete, KeepsInv, NothingIsLost, WordsOn, AllGiven
<1>10. CASE Reconfigure
  BY <1>10, ProgramLosesNothing
<1>11. QED
  BY <1>4, <1>5, <1>6, <1>7, <1>8, <1>9, <1>10 DEF ConfigNext, RegisterConverter, configVars

\* Whatever options the sources give and in whatever order, and whatever the
\* program sets afterwards, every setting and every transport of the process is
\* as the last word on it says, and a transport nobody speaks of is as the
\* library presets it; no option is lost, and the converters of a transport are
\* all those the sources name (ParticipantConfig.cpp:106 and :290,
\* Factory.cpp:236).
THEOREM AsTheSourcesAsk == ConfigSpec => []ConfiguredAsAsked
<1>1. ConfigInv /\ KeepsInv => ConfiguredAsAsked
  <2> SUFFICES ASSUME ConfigInv, KeepsInv PROVE ConfiguredAsAsked
    OBVIOUS
  <2>1. ASSUME stage = "ready", NEW t
        PROVE  t \in EnabledTransports <=>
                   IF GivenAt(<<"transport", t, "enabled">>) # {}
                   THEN LastGiven(<<"transport", t, "enabled">>, "") = "1"
                   ELSE IF t \in AvailableTransports THEN t = "socket"
                   ELSE \E i \in DOMAIN given : given[i].key[1] = "transport" /\ given[i].key[2] = t
    <3>1. TransportHeld(t) /\ LastOneWins
      BY <2>1 DEF ConfigInv
    <3>2. t \in EnabledTransports <=> /\ There(config, t)
                                      /\ Switched(config, t)
                                             => config.transports[t].options["enabled"] = "1"
      BY DEF EnabledTransports, There, Switched
    <3>3. Switched(config, t) =>
              config.transports[t].options["enabled"]
                  = LastGiven(<<"transport", t, "enabled">>, IF t = "socket" THEN "1" ELSE "0")
      BY <2>1, <3>1 DEF LastOneWins, There, Switched
    <3>4. CASE AskedFor(t)
      <4>1. LastGiven(<<"transport", t, "enabled">>, IF t = "socket" THEN "1" ELSE "0")
                = LastWord(t)
        <5>1. ASSUME NEW P, NEW d, NEW e, P # {}
              PROVE  LastAt(given, P, d) = LastAt(given, P, e)
          BY <5>1 DEF LastAt
        <5>2. QED
          BY <3>4, <5>1 DEF AskedFor, LastWord, LastGiven
      <4>2. t \in EnabledTransports <=> LastWord(t) = "1"
        BY <3>1, <3>2, <3>3, <3>4, <4>1 DEF TransportHeld, Switched
      <4>3. QED
        BY <3>4, <4>2 DEF AskedFor, LastWord
    <3>5. CASE ~AskedFor(t)
      <4>1. LastGiven(<<"transport", t, "enabled">>, IF t = "socket" THEN "1" ELSE "0")
                = IF t = "socket" THEN "1" ELSE "0"
        BY <3>5 DEF AskedFor, LastGiven, LastAt
      <4>2. t \in EnabledTransports <=> IF t \in AvailableTransports THEN t = "socket"
                                        ELSE Mentioned(t)
        BY <3>1, <3>2, <3>3, <3>5, <4>1 DEF TransportHeld, Switched
      <4>3. QED
        BY <3>5, <4>2 DEF AskedFor, Mentioned, About
    <3>6. QED
      BY <3>4, <3>5
  <2>2. EnabledAsAsked
    BY <2>1 DEF EnabledAsAsked
  <2>3. QED
    BY <2>2 DEF ConfigInv, KeepsInv, ConfiguredAsAsked, TypedConfig
<1>2. ConfigInit => KeepsInv
  BY DEF ConfigInit, KeepsInv, NothingIsLost
<1>3. ConfigInv /\ KeepsInv /\ [ConfigNext]_configVars => ConfigInv' /\ KeepsInv'
  BY ConfigKept, NothingIsLostKept
<1>4. QED
  BY <1>1, <1>2, <1>3, Started, PTL DEF ConfigSpec

-----------------------------------------------------------------------------
(* The description of a process *)

\* Whoever has looked at the host goes on with what was found; the host's name
\* is the only thing whose absence is noticed later.
DescriptionInv ==
    /\ os.type \in {"linux", "darwin"}
    /\ progress \in {"start", "described", "serving", "told", "thrown"}
    /\ progress # "start" => host = HostInfo
    /\ progress = "thrown" => HostId \notin Component

\* What the description has tried, and whether it threw
LEMMA DescriptionInductive == DescriptionSpec => []DescriptionInv
<1>1. DescriptionInit => DescriptionInv
  BY DEF DescriptionInit, DescriptionInv
<1>2. DescriptionInv /\ [DescriptionNext]_descriptionVars => DescriptionInv'
  <2> SUFFICES ASSUME DescriptionInv, [DescriptionNext]_descriptionVars
               PROVE  DescriptionInv'
    OBVIOUS
  <2>1. HostId' = HostId /\ HostInfo' = HostInfo /\ os' = os
    BY DEF DescriptionNext, Describe, CreateServer, TellHello, descriptionVars, HostId, HostInfo,
           HostName, SoftwareType, Try, Told
  <2>2. CASE Describe
    BY <2>1, <2>2 DEF Describe, DescriptionInv
  <2>3. CASE CreateServer
    <3>1. host = HostInfo /\ host.id = HostId
      BY <2>3 DEF CreateServer, DescriptionInv, HostInfo
    <3>2. QED
      BY <2>1, <2>3, <3>1 DEF CreateServer, DescriptionInv
  <2>4. CASE TellHello
    BY <2>1, <2>4 DEF TellHello, DescriptionInv
  <2>5. CASE UNCHANGED descriptionVars
    BY <2>1, <2>5 DEF descriptionVars, DescriptionInv
  <2>6. QED
    BY <2>2, <2>3, <2>4, <2>5 DEF DescriptionNext
<1>3. QED
  BY <1>1, <1>2, PTL DEF DescriptionSpec

\* For any names the operating system may give, and whatever it cannot say: the
\* creation of a participant fails only for the one name that becomes part of
\* a scope (Model.h:81, IntrospectionSender.cpp:143).
THEOREM OnlyTheNameMatters == DescriptionSpec => []DescribedUnlessNameless
<1>1. ASSUME DescriptionInv, progress = "thrown" PROVE DescribedUnlessNameless
  <2>1. HostId \notin Component
    BY <1>1 DEF DescriptionInv
  <2>2. CASE os.type = "darwin" /\ "softwareType" \notin failing
    BY <1>1, <2>1, <2>2 DEF DescribedUnlessNameless, HostId, HostName, SoftwareType, Try
  <2>3. CASE ~(os.type = "darwin" /\ "softwareType" \notin failing)
    <3>1. SoftwareType \notin {"win32", "darwin"}
      BY <1>1, <2>3 DEF DescriptionInv, SoftwareType, Try
    <3>2. HostId = Try("hostId", os.id, Unknown)
      BY <3>1 DEF HostId
    <3>3. QED
      BY <1>1, <2>1, <2>3, <3>2 DEF DescribedUnlessNameless, Try
  <2>4. QED
    BY <2>2, <2>3
<1>2. DescriptionInv => DescribedUnlessNameless
  BY <1>1 DEF DescribedUnlessNameless
<1>3. QED
  BY <1>2, DescriptionInductive, PTL

-----------------------------------------------------------------------------
(* The times of an event *)

\* A time the user sets, if it is let through
LEMMA CheckedTime ==
    ASSUME NEW r \in Representations, NEW m \in Moments, ~Refuses(r, m)
    PROVE  Checked(r, m) \in Int /\ (Checked(r, m) = 0 => Effect(r, m) = "epoch")
<1>1. m \in Int /\ CurrentTime \in Int /\ CurrentTime # 0
  BY MomentsAssumption, CurrentTimeAssumption
<1>2. m >= 10 => (m + 5) \div 10 \in Int /\ (m + 5) \div 10 # 0
  BY <1>1
<1>3. QED
  BY <1>1, <1>2 DEF Checked, Effect, Refuses, Representations

TimesTyped == times \in [StandardTimes -> Int]

\* The times are numbers.
LEMMA TimesAreTyped == TimesSpec => []TimesTyped
<1>1. TimesInit => TimesTyped
  BY CurrentTimeAssumption DEF TimesInit, TimesTyped
<1>2. TimesTyped /\ [TimesNext]_timeVars => TimesTyped'
  BY CheckedTime DEF TimesNext, SetTime, SetUserTime, timeVars, TimesTyped
<1>3. QED
  BY <1>1, <1>2, PTL DEF TimesSpec

\* For any times given in any way: none that is set is lost, but to a posix
\* time at the epoch, or, of the user's, to one that is refused
\* (MetaData.cpp:97, 186).
THEOREM TimesAreKept == TimesSpec => TimesStaySet
<1> DEFINE Right == /\ \A t \in StandardTimes :
                         times[t] # 0 /\ times'[t] = 0 => outcome' = "epoch"
                   /\ \A k \in DOMAIN userTimes :
                         userTimes[k] # 0 /\ userTimes'[k] = 0 => outcome' \in {"epoch", "thrown"}
<1>1. ASSUME TimesTyped, [TimesNext]_timeVars PROVE [Right]_timeVars
  <2>1. ASSUME NEW r \in Representations, NEW m \in Moments, NEW t \in StandardTimes,
               SetTime(t, r, m)
        PROVE  Right
    BY <1>1, <2>1, CheckedTime DEF SetTime, TimesTyped
  <2>2. ASSUME NEW r \in Representations, NEW m \in Moments, NEW key \in TimeKeys,
               SetUserTime(key, r, m)
        PROVE  Right
    <3>1. Refuses(r, m) => outcome' = "thrown"
      BY <2>2 DEF SetUserTime, Effect
    <3>2. ~Refuses(r, m) /\ Checked(r, m) = 0 => outcome' = "epoch"
      BY <2>2, CheckedTime DEF SetUserTime
    <3>3. \A k \in DOMAIN userTimes : k # key => userTimes'[k] = userTimes[k]
      BY <2>2 DEF SetUserTime, Entry
    <3>4. ~Refuses(r, m) => userTimes'[key] = Checked(r, m)
      BY <2>2 DEF SetUserTime, Entry
    <3>5. times' = times
      BY <2>2 DEF SetUserTime
    <3>6. QED
      BY <3>1, <3>2, <3>3, <3>4, <3>5
  <2>3. QED
    BY <1>1, <2>1, <2>2 DEF TimesNext
<1>2. QED
  BY <1>1, TimesAreTyped, PTL DEF TimesSpec, TimesStaySet

-----------------------------------------------------------------------------
(* How a converter is found *)

\* Senders and receivers of one process find what is registered.
LEMMA ConvertersAre ==
    ASSUME NEW types, NEW k
    PROVE  /\ DOMAIN ConvertersFor(types, {}, k) = {s[k] : s \in types}
           /\ \A s \in types : /\ ConvertersFor(types, {}, k)[s[k]] \in types
                               /\ ConvertersFor(types, {}, k)[s[k]][k] = s[k]
<1> DEFINE named == Selection({}, k)
<1>1. DOMAIN named = {}
  BY DEF Selection
<1> HIDE DEF named
<1>2. \A key : Candidates(types, named, k, key) = {s \in types : s[k] = key}
  BY <1>1 DEF Candidates
<1>3. {s[k] : s \in {r \in types : Candidates(types, named, k, r[k]) # {}}} = {s[k] : s \in types}
  BY <1>2
<1>4. Strategy(types, named, k)
          = [key \in {s[k] : s \in {r \in types : Candidates(types, named, k, r[k]) # {}}} |->
                CHOOSE s \in Candidates(types, named, k, key) : TRUE]
  BY DEF Strategy
<1>5. ASSUME NEW s \in types
      PROVE  /\ Strategy(types, named, k)[s[k]] \in types
             /\ Strategy(types, named, k)[s[k]][k] = s[k]
  <2>1. Strategy(types, named, k)[s[k]] = CHOOSE r \in Candidates(types, named, k, s[k]) : TRUE
    BY <1>3, <1>4
  <2>2. s \in Candidates(types, named, k, s[k])
    BY <1>2
  <2>3. Strategy(types, named, k)[s[k]] \in Candidates(types, named, k, s[k])
    BY <2>1, <2>2
  <2>4. QED
    BY <1>2, <2>3
<1>6. QED
  BY <1>3, <1>4, <1>5 DEF ConvertersFor, named

\* With no two converters for a type or a schema, the receiver finds the sender's.
LEMMA OneConverter ==
    ASSUME NEW types, Unambiguous(types), NEW type \in DOMAIN ConvertersFor(types, {}, Type)
    PROVE  /\ type \in {s[Type] : s \in types}
           /\ ConvertersFor(types, {}, Wire)[ConvertersFor(types, {}, Type)[type][Wire]][Type]
                  = type
<1> DEFINE out == ConvertersFor(types, {}, Type)
           in == ConvertersFor(types, {}, Wire)
<1>1. /\ DOMAIN out = {s[Type] : s \in types} /\ DOMAIN in = {s[Wire] : s \in types}
      /\ \A s \in types : out[s[Type]] \in types /\ out[s[Type]][Type] = s[Type]
      /\ \A s \in types : in[s[Wire]] \in types /\ in[s[Wire]][Wire] = s[Wire]
  BY ConvertersAre
<1>2. PICK r \in types : type = r[Type]
  BY <1>1
<1> HIDE DEF out, in
<1> DEFINE s == out[type]
           t == in[s[Wire]]
<1>3. s \in types /\ s[Type] = type
  BY <1>1, <1>2
<1>4. t \in types /\ t[Wire] = s[Wire]
  BY <1>1, <1>3
<1>5. t = s
  BY <1>3, <1>4 DEF Unambiguous
<1>6. QED
  BY <1>2, <1>3, <1>5 DEF out, in

-----------------------------------------------------------------------------
(* What a remote call means *)

EventFields == {"id", "scope", "method", "causes", "type", "data", "infos", "times"}

RequestId(c) == [sender |-> "caller", number |-> c - 1]

\* A list, of whatever
IsList(s) == s \in Seq(Range(s))

\* An object is the request of a call, or what the callback has made of it.
IsRequest(i, c) ==
    LET event == objects[i] IN
    /\ DOMAIN event = EventFields
    /\ event.method = "REQUEST" /\ event.id = RequestId(c) /\ event.causes = {}
    /\ event.type = calls[c].argument.type /\ event.data = calls[c].argument.data
    /\ ~HasInfo(event, "rsb:error?")

IsReply(i, c) ==
    LET event == objects[i]
        made  == Outcome(calls[c]) IN
    /\ DOMAIN event = EventFields
    /\ event.method = "REPLY" /\ event.id.sender = "server"
    /\ event.causes = made.causes \cup {RequestId(c)}
    /\ Expected(calls[c].argument)
    /\ HasInfo(event, "rsb:error?") <=> made.kind = "exception"
    /\ event.type = IF made.kind = "request" THEN calls[c].argument.type ELSE made.type
    /\ event.data = IF made.kind = "request" THEN calls[c].argument.data ELSE made.data

\* The callback may have put its reply in the place of the caller's request.
Rewritten(c) == SameProcess /\ Outcome(calls[c]).kind = "request"

\* The reasons for which a call never gets an answer
Explained(c) ==
    \/ ~Expected(calls[c].argument)
    \/ Outcome(calls[c]).kind = "request" /\ SameProcess
    \/ Outcome(calls[c]).kind # "request" /\ ~CanPublish(Outcome(calls[c]))
    \/ \E cause \in Outcome(calls[c]).causes : Precedes(cause, RequestId(c))

\* A call that has no answer yet has one on its way, or never gets one.
UnderWay(c) ==
    \/ Explained(c)
    \/ \E i \in Range(serverQueue) : IsRequest(i, c)
    \/ \E i \in Range(callerQueue) : IsReply(i, c)

\* Types of what a call consists of
CallTyped ==
    /\ callback \in Callbacks /\ known \in KnownTypes
    /\ IsList(objects) /\ IsList(calls) /\ IsList(serverQueue) /\ IsList(callerQueue)
    /\ Range(serverQueue) \subseteq DOMAIN objects
    /\ Range(callerQueue) \subseteq DOMAIN objects
    /\ \A c \in DOMAIN calls :
          /\ DOMAIN calls[c] = {"at", "argument", "request", "reply", "got"}
          /\ calls[c].at \in {"refused", "locked", "waiting", "set", "ended", "returned", "error"}
          /\ calls[c].argument \in Arguments /\ calls[c].request \in DOMAIN objects
          /\ calls[c].at # "refused" => CanPublish(calls[c].argument)

\* An entry is for a waiting call, under the identifier its request has been
\* given by its informer, or by the server's.
EntriesMade ==
    /\ \A id \in DOMAIN inprogress :
          /\ inprogress[id] \in DOMAIN calls /\ calls[inprogress[id]].at = "waiting"
          /\ id = RequestId(inprogress[id]) \/ id.sender = "server"
    /\ \A id, other \in DOMAIN inprogress : inprogress[id] = inprogress[other] => id = other
    /\ \A c \in DOMAIN calls :
          calls[c].at = "waiting" /\ ~Rewritten(c) => RequestId(c) \in DOMAIN inprogress

\* Every event on its way is the request or the reply of a call.
ObjectsMade ==
    /\ \A i \in DOMAIN objects : \E c \in DOMAIN calls : IsRequest(i, c) \/ IsReply(i, c)
    /\ \A c \in DOMAIN calls :
          \/ IsRequest(calls[c].request, c)
          \/ Rewritten(c) /\ IsReply(calls[c].request, c)
    /\ ~SameProcess =>
          \A i \in Range(serverQueue) : \A c \in DOMAIN calls : i # calls[c].request

\* Every call has been asked what it asks, and is answered with its own reply.
CallsMade ==
    \A c \in DOMAIN calls :
        /\ calls[c].at \in {"locked", "waiting"} => UnderWay(c)
        /\ calls[c].at \in {"set", "ended", "returned", "error"} =>
               /\ calls[c].reply \in DOMAIN objects /\ IsReply(calls[c].reply, c)
               /\ calls[c].at = "error" <=> Outcome(calls[c]).kind = "exception"
        /\ calls[c].at = "returned" => calls[c].got = objects[calls[c].reply].data

CallInv == CallTyped /\ EntriesMade /\ ObjectsMade /\ CallsMade

\* What a receiver sees of an event
Like(event, other) ==
    /\ DOMAIN event = EventFields
    /\ event.id = other.id /\ event.method = other.method /\ event.causes = other.causes
    /\ event.type = other.type /\ event.data = other.data
    /\ HasInfo(event, "rsb:error?") <=> HasInfo(other, "rsb:error?")

\* An event with an info has that info, and all the others.
LEMMA InfoAdded ==
    ASSUME NEW event, DOMAIN event = EventFields, NEW key, NEW value
    PROVE  /\ DOMAIN WithInfo(event, key, value) = EventFields
           /\ \A f \in EventFields \ {"infos"} : WithInfo(event, key, value)[f] = event[f]
           /\ DOMAIN WithInfo(event, key, value).infos = DOMAIN event.infos \cup {key}
BY DEF WithInfo, EventFields

\* The other process gets the same.
LEMMA Copied ==
    ASSUME known \in KnownTypes, NEW event, DOMAIN event = EventFields,
           event.type \in DOMAIN Out, Kept(event.type, event.data)
    PROVE  Like(Copy(event), event)
<1> DEFINE schema == Out[event.type][Wire]
           data == Serialize(event.type, event.data)
           n == EventToNotification(event, schema, data)
           plain == [id |-> n.id, scope |-> n.scope, method |-> n.method, causes |-> n.causes,
                     type |-> "", data |-> n.data, infos |-> n.infos,
                     times |-> [NoTimes EXCEPT !.created = Time(n.times.created),
                                               !.sent = Time(n.times.sent), !.received = Now]]
           arrived == NotificationToEvent(n)
<1>1. In[schema][Type] = event.type
  BY OneConverter, KnownTypesAssumption DEF In, Out
<1>2. Copy(event) = Converted(arrived, event.type, Deserialize(event.type, arrived.data))
  BY <1>1 DEF Copy
<1>3. /\ n.id = event.id /\ n.method = event.method /\ n.causes = event.causes
      /\ n.data = data /\ n.infos = event.infos /\ n.schema = schema
  BY DEF EventToNotification
<1>4. arrived = WithInfo(plain, "rsb.wire-schema", n.schema)
  BY DEF NotificationToEvent
<1> HIDE DEF n, data
<1>5. /\ DOMAIN plain = EventFields
      /\ plain.id = event.id /\ plain.method = event.method /\ plain.causes = event.causes
      /\ plain.data = data /\ plain.infos = event.infos
  BY <1>3 DEF EventFields
<1> HIDE DEF plain, arrived
<1>6. /\ DOMAIN arrived = EventFields
      /\ \A f \in EventFields \ {"infos"} : arrived[f] = plain[f]
      /\ DOMAIN arrived.infos = DOMAIN plain.infos \cup {"rsb.wire-schema"}
  BY <1>4, <1>5, InfoAdded
<1>7. /\ arrived.id = event.id /\ arrived.method = event.method /\ arrived.causes = event.causes
      /\ arrived.data = data
      /\ HasInfo(arrived, "rsb:error?") <=> HasInfo(event, "rsb:error?")
  BY <1>5, <1>6 DEF EventFields, HasInfo
<1>8. Deserialize(event.type, arrived.data) = event.data
  BY <1>7 DEF Kept, data
<1>9. Copy(event) = [arrived EXCEPT !.type = event.type, !.data = event.data]
  BY <1>2, <1>8 DEF Converted
<1>10. QED
  BY <1>6, <1>7, <1>9 DEF Like, EventFields, HasInfo

\* The elements of a sequence over a set are in that set.
LEMMA ListOf ==
    ASSUME NEW m \in Nat, NEW f, f = [i \in 1..m |-> f[i]]
    PROVE  IsList(f) /\ Len(f) = m /\ DOMAIN f = 1..m
<1> DEFINE S == Range(f)
<1>1. DOMAIN f = 1..m
  OBVIOUS
<1>2. \A i \in 1..m : f[i] \in S
  BY <1>1 DEF Range
<1>3. f \in [1..m -> S]
  <2> HIDE DEF S
  <2> QED BY <1>2
<1>4. \A T : \A g \in [1..m -> T] : g \in Seq(T) /\ Len(g) = m
  OBVIOUS
<1>5. QED
  BY <1>1, <1>3, <1>4 DEF IsList

\* A list is a sequence, with a length and a domain.
LEMMA ListIs ==
    ASSUME NEW s, IsList(s)
    PROVE  /\ Len(s) \in Nat /\ DOMAIN s = 1..Len(s)
           /\ s = [i \in 1..Len(s) |-> s[i]]
BY DEF IsList

\* Appending to a list
LEMMA ListAppend ==
    ASSUME NEW s, IsList(s), NEW e
    PROVE  /\ IsList(Append(s, e)) /\ Len(Append(s, e)) = Len(s) + 1
           /\ DOMAIN Append(s, e) = 1..(Len(s) + 1)
           /\ \A i \in 1..Len(s) : Append(s, e)[i] = s[i]
           /\ Append(s, e)[Len(s) + 1] = e
<1>1. PICK S : s \in Seq(S)
  BY DEF IsList
<1>2. PICK T : s \in Seq(T) /\ e \in T
  <2>1. s \in Seq(S \cup {e})
    BY <1>1
  <2>2. QED
    BY <2>1
<1>3. /\ Append(s, e) \in Seq(T) /\ Len(s) \in Nat /\ Len(Append(s, e)) = Len(s) + 1
      /\ \A i \in 1..Len(s) : Append(s, e)[i] = s[i]
      /\ Append(s, e)[Len(s) + 1] = e
  BY <1>2
<1> DEFINE t == Append(s, e)
<1> HIDE DEF t
<1>4. t \in Seq(T)
  BY <1>3 DEF t
<1>5. DOMAIN t = 1..Len(t) /\ t = [i \in 1..Len(t) |-> t[i]] /\ Len(t) \in Nat
  BY <1>4
<1>6. IsList(t)
  BY <1>5, ListOf
<1>7. QED
  BY <1>3, <1>5, <1>6 DEF t

\* What is left of a list without its head
LEMMA ListTail ==
    ASSUME NEW s, IsList(s), s # <<>>
    PROVE  /\ IsList(Tail(s)) /\ Head(s) \in Range(s)
           /\ Range(s) = {Head(s)} \cup Range(Tail(s))
<1>1. PICK S : s \in Seq(S)
  BY DEF IsList
<1> DEFINE t == Tail(s)
<1>2. /\ t \in Seq(S) /\ Len(t) = Len(s) - 1 /\ Len(s) \in Nat \ {0} /\ Head(s) = s[1]
      /\ \A i \in 1..(Len(s) - 1) : t[i] = s[i + 1]
  BY <1>1
<1> HIDE DEF t
<1>3. /\ DOMAIN t = 1..Len(t) /\ t = [i \in 1..Len(t) |-> t[i]] /\ Len(t) \in Nat
      /\ DOMAIN s = 1..Len(s)
  BY <1>1, <1>2
<1>4. IsList(t)
  BY <1>3, ListOf
<1>5. \A i \in 1..Len(s) : i = 1 \/ (i - 1 \in 1..(Len(s) - 1) /\ s[i] = t[i - 1])
  BY <1>2
<1>6. Range(s) \subseteq {Head(s)} \cup Range(t)
  BY <1>2, <1>3, <1>5 DEF Range
<1>7. {Head(s)} \cup Range(t) \subseteq Range(s)
  <2>1. Head(s) \in Range(s)
    BY <1>2, <1>3 DEF Range
  <2>2. \A i \in 1..(Len(s) - 1) : i + 1 \in 1..Len(s)
    BY <1>2
  <2>3. QED
    BY <1>2, <1>3, <2>1, <2>2 DEF Range
<1>8. QED
  BY <1>4, <1>6, <1>7 DEF t

\* The elements of a longer list
LEMMA ListMore ==
    ASSUME NEW s, IsList(s), NEW e
    PROVE  IsList(Append(s, e)) /\ Range(Append(s, e)) = Range(s) \cup {e}
<1> DEFINE t == Append(s, e)
<1>1. /\ IsList(t) /\ DOMAIN t = 1..(Len(s) + 1)
      /\ \A i \in 1..Len(s) : t[i] = s[i]
      /\ t[Len(s) + 1] = e
  BY ListAppend
<1> HIDE DEF t
<1>2. Len(s) \in Nat /\ DOMAIN s = 1..Len(s) /\ DOMAIN t = (1..Len(s)) \cup {Len(s) + 1}
  BY <1>1, ListIs
<1>3. Range(t) = Range(s) \cup {e}
  BY <1>1, <1>2 DEF Range
<1>4. QED
  BY <1>1, <1>3 DEF t

\* What publish() leaves: an event in its place, and what the other side gets
Put(event, place, new) ==
    /\ IsList(objects')
    /\ DOMAIN objects' = DOMAIN objects \cup {place, new}
    /\ \A i \in DOMAIN objects : i # place => objects'[i] = objects[i]
    /\ objects'[place] = event
    /\ Like(objects'[new], event)
    /\ IF SameProcess THEN new = place ELSE new \notin DOMAIN objects /\ new # place

\* publish() on an event that can be published, as seen by the two sides
LEMMA Published ==
    ASSUME known \in KnownTypes, IsList(objects),
           NEW event, DOMAIN event = EventFields, CanPublish(event),
           event.type \in ConvertedTypes => Kept(event.type, event.data),
           NEW place \in 1..(Len(objects) + 1), NEW other, NEW own,
           objects' = Publishes(event, place, other, own).objects
    PROVE  \E new : /\ Put(event, place, new)
                    /\ Publishes(event, place, other, own).other = Append(other, new)
                    /\ Publishes(event, place, other, own).own
                           = IF SameProcess THEN Append(own, place) ELSE own
<1> DEFINE here == [i \in DOMAIN objects \cup {place} |-> IF i = place THEN event ELSE objects[i]]
           new == IF SameProcess THEN place ELSE Len(here) + 1
           m == IF place = Len(objects) + 1 THEN Len(objects) + 1 ELSE Len(objects)
<1>1. Len(objects) \in Nat /\ DOMAIN objects = 1..Len(objects)
  BY ListIs
<1>2. m \in Nat /\ DOMAIN objects \cup {place} = 1..m
  BY <1>1
<1>3. here = [i \in 1..m |-> here[i]]
  BY <1>2
<1>4. /\ DOMAIN here = DOMAIN objects \cup {place} /\ here[place] = event
      /\ \A i \in DOMAIN objects : i # place => here[i] = objects[i]
  OBVIOUS
<1>5. /\ Publishes(event, place, other, own).other = Append(other, new)
      /\ Publishes(event, place, other, own).own = IF SameProcess THEN Append(own, place) ELSE own
      /\ objects' = IF SameProcess THEN here ELSE Append(here, Copy(event))
  BY DEF Publishes
<1> HIDE DEF here, m
<1>6. IsList(here) /\ Len(here) = m /\ DOMAIN here = 1..m
  BY <1>2, <1>3, ListOf
<1>7. CASE SameProcess
  <2>1. objects' = here /\ new = place
    BY <1>5, <1>7
  <2>2. Like(event, event)
    BY DEF Like
  <2>3. Put(event, place, new)
    BY <1>4, <1>6, <1>7, <2>1, <2>2 DEF Put
  <2>4. QED
    BY <1>5, <2>3
<1>8. CASE ~SameProcess
  <2>1. objects' = Append(here, Copy(event)) /\ new = m + 1
    BY <1>5, <1>6, <1>8
  <2>2. Like(Copy(event), event)
    <3>1. event.type \in DOMAIN Out
      BY <1>8 DEF CanPublish
    <3>2. event.type \in ConvertedTypes
      BY <3>1, OneConverter, KnownTypesAssumption DEF Out, ConvertedTypes
    <3>3. QED
      BY <3>1, <3>2, Copied
  <2>3. /\ IsList(objects') /\ DOMAIN objects' = 1..(m + 1)
        /\ \A i \in 1..m : objects'[i] = here[i]
        /\ objects'[m + 1] = Copy(event)
    BY <1>6, <2>1, ListAppend
  <2>4. new \notin 1..m /\ 1..(m + 1) = (1..m) \cup {new}
    BY <1>2, <2>1
  <2>5. Put(event, place, new)
    BY <1>2, <1>4, <1>6, <1>8, <2>1, <2>2, <2>3, <2>4 DEF Put
  <2>6. QED
    BY <1>5, <2>5
<1>9. QED
  BY <1>7, <1>8

\* Identifiers are ordered, so a reply has a first cause.
LEMMA First ==
    ASSUME NEW c \in Nat \ {0}, NEW strangers \in SUBSET [sender : {"early", "late"}, number : Nat],
           NEW event, event.causes = strangers \cup {RequestId(c)}
    PROVE  /\ FirstCause(event) \in event.causes
           /\ FirstCause(event) # RequestId(c) => Precedes(FirstCause(event), RequestId(c))
<1> DEFINE causes == event.causes
           Ids == [sender : {"early", "late", "caller"}, number : Nat]
           earliest(id) == \A other \in causes \ {id} : Precedes(id, other)
<1>1. causes \in SUBSET Ids /\ RequestId(c) \in causes
  <2>1. RequestId(c) \in Ids
    BY DEF RequestId
  <2>2. [sender : {"early", "late"}, number : Nat] \subseteq Ids
    OBVIOUS
  <2>3. QED
    BY <2>1, <2>2
<1>2. Place("early") = 1 /\ Place("caller") = 2 /\ Place("late") = 4
  BY DEF Place
<1>3. PICK n \in {id.number : id \in causes} : \A id \in causes : n <= id.number
  <2> DEFINE T == {id.number : id \in causes}
  <2>1. T \in SUBSET Nat /\ T # {}
    BY <1>1
  <2> HIDE DEF T
  <2>2. PICK n \in T : \A x \in T : n <= x
    BY <2>1, LeastNatural
  <2>3. QED
    BY <2>2 DEF T
<1>4. \A id \in Ids : id = [sender |-> id.sender, number |-> id.number]
  OBVIOUS
<1> DEFINE Is(sender) == [sender |-> sender, number |-> n]
<1>5. \E id \in causes : earliest(id)
  <2>1. \A id \in causes : /\ id.sender \in {"early", "caller", "late"} /\ id.number \in Nat
                           /\ n <= id.number /\ n \in Nat
                           /\ id.number = n => id = Is(id.sender)
    BY <1>1, <1>3, <1>4
  <2>2. PICK some \in causes : some.number = n
    BY <1>3
  <2>3. CASE Is("early") \in causes
    <3>1. earliest(Is("early"))
      BY <1>2, <2>1 DEF Precedes
    <3>2. QED
      BY <2>3, <3>1
  <2>4. CASE Is("early") \notin causes /\ Is("caller") \in causes
    <3>1. earliest(Is("caller"))
      BY <1>2, <2>1, <2>4 DEF Precedes
    <3>2. QED
      BY <2>4, <3>1
  <2>5. CASE Is("early") \notin causes /\ Is("caller") \notin causes
    <3>1. some = Is("late")
      BY <2>1, <2>2, <2>5
    <3>2. earliest(some)
      BY <1>2, <2>1, <2>5, <3>1 DEF Precedes
    <3>3. QED
      BY <3>2
  <2>6. QED
    BY <2>3, <2>4, <2>5
<1>6. FirstCause(event) \in causes /\ earliest(FirstCause(event))
  BY <1>5 DEF FirstCause
<1>7. QED
  BY <1>1, <1>6

\* What is known of a call stays, as long as its argument and the objects do.
LEMMA CallStays ==
    ASSUME UNCHANGED <<callback, known>>, NEW c, calls'[c].argument = calls[c].argument
    PROVE  /\ Outcome(calls[c])' = Outcome(calls[c])
           /\ Expected(calls[c].argument)' <=> Expected(calls[c].argument)
           /\ CanPublish(calls[c].argument)' <=> CanPublish(calls[c].argument)
           /\ Rewritten(c)' <=> Rewritten(c)
           /\ Explained(c)' <=> Explained(c)
           /\ \A i : objects'[i] = objects[i] =>
                  (IsRequest(i, c)' <=> IsRequest(i, c)) /\ (IsReply(i, c)' <=> IsReply(i, c))
<1>1. Outcome(calls[c])' = Outcome(calls[c])
  BY DEF Outcome
<1>2. (SameProcess' <=> SameProcess) /\ Out' = Out
  BY DEF SameProcess, Out
<1>3. Expected(calls[c].argument)' <=> Expected(calls[c].argument)
  BY DEF Expected
<1>4. CanPublish(calls[c].argument)' <=> CanPublish(calls[c].argument)
  BY <1>2 DEF CanPublish
<1>5. CanPublish(Outcome(calls[c]))' <=> CanPublish(Outcome(calls[c]))
  BY <1>1, <1>2 DEF CanPublish
<1>6. Rewritten(c)' <=> Rewritten(c)
  BY <1>1, <1>2 DEF Rewritten
<1>7. Explained(c)' <=> Explained(c)
  BY <1>1, <1>2, <1>3, <1>5 DEF Explained
<1>8. ASSUME NEW i, objects'[i] = objects[i]
      PROVE  (IsRequest(i, c)' <=> IsRequest(i, c)) /\ (IsReply(i, c)' <=> IsReply(i, c))
  <2>1. IsRequest(i, c)' <=> IsRequest(i, c)
    BY <1>8 DEF IsRequest
  <2>2. IsReply(i, c)' <=> IsReply(i, c)
    BY <1>1, <1>3, <1>8 DEF IsReply
  <2>3. QED
    BY <2>1, <2>2
<1>9. QED
  BY <1>1, <1>3, <1>4, <1>6, <1>7, <1>8

CallFields == {"at", "argument", "request", "reply", "got"}
Stages == {"refused", "locked", "waiting", "set", "ended", "returned", "error"}

\* One call goes on, and no event is published.
GoesOn(c, state) ==
    /\ UNCHANGED <<callback, known, objects, serverQueue>>
    /\ IsList(calls') /\ DOMAIN calls' = DOMAIN calls
    /\ \A d \in DOMAIN calls : d # c => calls'[d] = calls[d]
    /\ DOMAIN calls'[c] = CallFields /\ calls'[c].at = state
    /\ calls'[c].argument = calls[c].argument /\ calls'[c].request = calls[c].request

\* Such a step leaves the invariant in place.
LEMMA CallGoesOn ==
    ASSUME CallTyped, ObjectsMade, NEW c \in DOMAIN calls, NEW at \in Stages,
           calls[c].at # "refused", GoesOn(c, at), IsList(callerQueue'),
           Range(callerQueue') \subseteq Range(callerQueue)
    PROVE  CallTyped' /\ ObjectsMade'
<1> USE DEF GoesOn
<1>1. /\ \A d \in DOMAIN calls : calls'[d].argument = calls[d].argument
      /\ \A d \in DOMAIN calls : calls'[d].request = calls[d].request
      /\ \A i : objects'[i] = objects[i]
      /\ SameProcess' <=> SameProcess
  BY DEF SameProcess
<1>2. \A d \in DOMAIN calls : /\ CanPublish(calls[d].argument)' <=> CanPublish(calls[d].argument)
                              /\ Rewritten(d)' <=> Rewritten(d)
                              /\ \A i : /\ IsRequest(i, d)' <=> IsRequest(i, d)
                                        /\ IsReply(i, d)' <=> IsReply(i, d)
  BY <1>1, CallStays
<1>3. CallTyped'
  <2>1. ASSUME NEW d \in DOMAIN calls
        PROVE  /\ DOMAIN calls'[d] = CallFields /\ calls'[d].at \in Stages
               /\ calls'[d].argument \in Arguments /\ calls'[d].request \in DOMAIN objects
               /\ calls'[d].at # "refused" => CanPublish(calls[d].argument)'
    BY <1>1, <1>2 DEF CallTyped, CallFields, Stages
  <2>2. QED
    BY <2>1 DEF CallTyped, CallFields, Stages
<1>4. ObjectsMade'
  <2>1. \A i \in DOMAIN objects : \E d \in DOMAIN calls : IsRequest(i, d)' \/ IsReply(i, d)'
    BY <1>2 DEF ObjectsMade
  <2>2. \A d \in DOMAIN calls : \/ IsRequest(calls[d].request, d)'
                                \/ Rewritten(d)' /\ IsReply(calls[d].request, d)'
    BY <1>2 DEF ObjectsMade
  <2>3. QED
    BY <1>1, <2>1, <2>2 DEF ObjectsMade
<1>5. QED
  BY <1>3, <1>4

\* RemoteMethod::call has published and makes its entry.
LEMMA RegisterKeeps ==
    ASSUME CallInv, NEW c \in DOMAIN calls, Register(c)
    PROVE  CallInv'
<1> DEFINE id == objects[calls[c].request].id
<1>1. /\ CallTyped /\ EntriesMade /\ ObjectsMade /\ CallsMade
      /\ calls[c].at = "locked"
      /\ calls' = [calls EXCEPT ![c].at = "waiting"]
      /\ UNCHANGED <<callback, known, objects, serverQueue, callerQueue, answers>>
  BY DEF CallInv, Register
<1>2. /\ DOMAIN inprogress' = DOMAIN inprogress \cup {id}
      /\ \A other \in DOMAIN inprogress : inprogress'[other] = inprogress[other]
      /\ id \notin DOMAIN inprogress => inprogress'[id] = c
  BY DEF Register
<1>3. GoesOn(c, "waiting")
  <2>1. IsList(calls) /\ DOMAIN calls[c] = CallFields
    BY <1>1 DEF CallTyped, CallFields
  <2>2. calls' = [i \in 1..Len(calls) |-> calls'[i]] /\ Len(calls) \in Nat
    BY <1>1, <2>1, ListIs
  <2>3. IsList(calls')
    BY <2>2, ListOf
  <2>4. QED
    BY <1>1, <2>1, <2>3 DEF GoesOn, CallFields
<1>4. CallTyped' /\ ObjectsMade'
  <2>1. IsList(callerQueue') /\ Range(callerQueue') = Range(callerQueue)
    BY <1>1 DEF CallTyped
  <2>2. QED
    BY <1>1, <1>3, <2>1, CallGoesOn DEF Stages
<1>5. /\ \A d \in DOMAIN calls : /\ calls'[d].argument = calls[d].argument
                                 /\ d # c => calls'[d] = calls[d]
      /\ DOMAIN calls' = DOMAIN calls /\ calls'[c].at = "waiting"
      /\ \A i : objects'[i] = objects[i]
  BY <1>1, <1>3 DEF GoesOn
<1>6. \A d \in DOMAIN calls : /\ Outcome(calls[d])' = Outcome(calls[d])
                              /\ Rewritten(d)' <=> Rewritten(d)
                              /\ Explained(d)' <=> Explained(d)
                              /\ \A i : /\ IsRequest(i, d)' <=> IsRequest(i, d)
                                        /\ IsReply(i, d)' <=> IsReply(i, d)
  BY <1>1, <1>5, CallStays
<1> HIDE DEF id
<1>7. id = RequestId(c) \/ (Rewritten(c) /\ id.sender = "server")
  BY <1>1 DEF ObjectsMade, IsRequest, IsReply, id
<1>8. EntriesMade'
  <2>1. ASSUME NEW other \in DOMAIN inprogress'
        PROVE  /\ inprogress'[other] \in DOMAIN calls /\ calls'[inprogress'[other]].at = "waiting"
               /\ other = RequestId(inprogress'[other]) \/ other.sender = "server"
    BY <1>1, <1>2, <1>5, <1>7 DEF EntriesMade
  <2>2. ASSUME NEW a \in DOMAIN inprogress', NEW b \in DOMAIN inprogress',
               inprogress'[a] = inprogress'[b]
        PROVE  a = b
    BY <1>1, <1>2, <2>2 DEF EntriesMade
  <2>3. ASSUME NEW d \in DOMAIN calls, calls'[d].at = "waiting", ~Rewritten(d)
        PROVE  RequestId(d) \in DOMAIN inprogress'
    BY <1>1, <1>2, <1>5, <1>7, <2>3 DEF EntriesMade
  <2>4. QED
    BY <1>5, <1>6, <2>1, <2>2, <2>3 DEF EntriesMade
<1>9. CallsMade'
  <2>1. \A d \in DOMAIN calls : UnderWay(d)' <=> UnderWay(d)
    BY <1>1, <1>6 DEF UnderWay
  <2>2. ASSUME NEW d \in DOMAIN calls
        PROVE  /\ calls'[d].at \in {"locked", "waiting"} => UnderWay(d)
               /\ d # c => calls'[d] = calls[d]
               /\ d = c => calls'[d].at \notin {"set", "ended", "returned", "error"}
    BY <1>1, <1>5 DEF CallsMade
  <2>3. QED
    BY <1>1, <1>5, <1>6, <2>1, <2>2 DEF CallsMade
<1>10. QED
  BY <1>4, <1>8, <1>9 DEF CallInv

\* DataFuture::get looks into the reply.
LEMMA ResultKeeps ==
    ASSUME CallInv, NEW c \in DOMAIN calls, GetResult(c) \/ End(c)
    PROVE  CallInv'
<1> DEFINE at == calls'[c].at
<1>1. /\ CallTyped /\ EntriesMade /\ ObjectsMade /\ CallsMade
      /\ calls[c].at = "set"
      /\ UNCHANGED <<callback, known, objects, serverQueue, callerQueue, inprogress, answers>>
  BY DEF CallInv, GetResult, End
<1>2. IsList(calls) /\ DOMAIN calls[c] = CallFields
  BY <1>1 DEF CallTyped, CallFields
<1>3. /\ DOMAIN calls' = DOMAIN calls
      /\ \A d \in DOMAIN calls : d # c => calls'[d] = calls[d]
      /\ at \in {"ended", "returned"} /\ DOMAIN calls'[c] = CallFields
      /\ at = "returned" => calls'[c].got = objects[calls[c].reply].data
      /\ calls'[c].argument = calls[c].argument /\ calls'[c].request = calls[c].request
      /\ calls'[c].reply = calls[c].reply
      /\ calls' = [d \in DOMAIN calls |-> calls'[d]]
  <2>1. CASE GetResult(c)
    BY <1>2, <2>1 DEF GetResult, CallFields
  <2>2. CASE End(c)
    BY <1>2, <2>2 DEF End, CallFields
  <2>3. QED
    BY <2>1, <2>2
<1>4. GoesOn(c, at)
  <2>1. calls' = [i \in 1..Len(calls) |-> calls'[i]] /\ Len(calls) \in Nat
    BY <1>2, <1>3, ListIs
  <2>2. IsList(calls')
    BY <2>1, ListOf
  <2>3. QED
    BY <1>1, <1>3, <2>2 DEF GoesOn
<1> HIDE DEF at
<1>5. CallTyped' /\ ObjectsMade'
  <2>1. IsList(callerQueue') /\ Range(callerQueue') = Range(callerQueue)
    BY <1>1 DEF CallTyped
  <2>2. at \in Stages /\ calls[c].at # "refused"
    BY <1>1, <1>3 DEF Stages
  <2>3. QED
    BY <1>1, <1>4, <2>1, <2>2, CallGoesOn
<1>6. \A d \in DOMAIN calls : /\ Outcome(calls[d])' = Outcome(calls[d])
                              /\ Rewritten(d)' <=> Rewritten(d)
                              /\ Explained(d)' <=> Explained(d)
                              /\ \A i : /\ IsRequest(i, d)' <=> IsRequest(i, d)
                                        /\ IsReply(i, d)' <=> IsReply(i, d)
  BY <1>1, <1>3, CallStays
<1>7. EntriesMade'
  <2>1. \A d \in DOMAIN calls : calls'[d].at = "waiting" <=> calls[d].at = "waiting"
    BY <1>1, <1>3 DEF at
  <2>2. QED
    BY <1>1, <1>3, <1>6, <2>1 DEF EntriesMade
<1>8. CallsMade'
  <2>1. \A d \in DOMAIN calls : UnderWay(d)' <=> UnderWay(d)
    BY <1>1, <1>6 DEF UnderWay
  <2>2. /\ at \in {"ended", "returned"} /\ calls'[c].at = at
        /\ calls'[c].reply \in DOMAIN objects /\ IsReply(calls'[c].reply, c)
        /\ Outcome(calls[c]).kind # "exception"
    BY <1>1, <1>3 DEF CallsMade, at
  <2>3. QED
    BY <1>1, <1>3, <1>6, <2>1, <2>2 DEF CallsMade
<1>9. QED
  BY <1>5, <1>7, <1>8 DEF CallInv

\* What a callback makes of the argument of a call
LEMMA Made ==
    ASSUME CallTyped, NEW c \in DOMAIN calls
    PROVE  LET made == Outcome(calls[c]) IN
           /\ made.kind \in {"request", "event", "exception"}
           /\ made.kind = "request" => made = Itself
           /\ made.kind = "exception" => made = Thrown
           /\ made.causes \in SUBSET [sender : {"early", "late"}, number : Nat]
           /\ made.kind # "request" =>
                  (made.type \in ConvertedTypes => Kept(made.type, made.data))
<1>1. callback \in Callbacks /\ calls[c].argument.data \in Payloads
  BY DEF CallTyped, Payloads
<1>2. Itself.kind = "request" /\ Thrown.kind = "exception" /\ Itself.causes = {}
  BY DEF Itself, Thrown, Result
<1>3. QED
  BY <1>1, <1>2, CallbacksAssumption DEF Outcome

\* The calls are numbered, the next one being new.
LEMMA CallNumbers ==
    ASSUME CallTyped, NEW c \in DOMAIN calls
    PROVE  /\ c \in Nat \ {0}
           /\ \A d \in DOMAIN calls : RequestId(c) = RequestId(d) => c = d
           /\ RequestId(c).sender = "caller"
<1>1. DOMAIN calls = 1..Len(calls) /\ Len(calls) \in Nat
  BY ListIs DEF CallTyped
<1>2. \A d \in DOMAIN calls : RequestId(d).number = d - 1 /\ d \in Nat \ {0}
  BY <1>1 DEF RequestId
<1>3. \A d \in DOMAIN calls : RequestId(c) = RequestId(d) => c = d
  BY <1>2
<1>4. QED
  BY <1>2, <1>3 DEF RequestId

\* RemoteMethod::handle finds the entry of the call the reply is for, or none.
LEMMA AnsweredIs ==
    ASSUME CallTyped, EntriesMade, NEW i, NEW c \in DOMAIN calls, IsReply(i, c)
    PROVE  /\ \A id \in Answered(objects[i]) :
                  id \in DOMAIN inprogress /\ id = RequestId(c) /\ inprogress[id] = c
           /\ Answered(objects[i]) = {} /\ calls[c].at = "waiting" => Explained(c)
<1> DEFINE event == objects[i]
           made == Outcome(calls[c])
           first == FirstCause(event)
<1>1. /\ event.causes = made.causes \cup {RequestId(c)}
      /\ made.causes \in SUBSET [sender : {"early", "late"}, number : Nat]
      /\ c \in Nat \ {0}
  BY Made, CallNumbers DEF IsReply
<1>2. /\ first \in event.causes
      /\ first # RequestId(c) => Precedes(first, RequestId(c))
  <2> HIDE DEF event, made
  <2> QED BY <1>1, First
<1> HIDE DEF first, event
<1>3. first \in DOMAIN inprogress => first = RequestId(c) /\ inprogress[first] = c
  <2>1. ASSUME first \in DOMAIN inprogress, first # RequestId(c) PROVE FALSE
    <3>1. first.sender \in {"early", "late"}
      BY <1>1, <1>2, <2>1
    <3>2. first.sender \in {"caller", "server"}
      BY <2>1, CallNumbers DEF EntriesMade
    <3>3. QED
      BY <3>1, <3>2
  <2>2. ASSUME first \in DOMAIN inprogress, first = RequestId(c) PROVE inprogress[first] = c
    <3>1. RequestId(c).sender # "server"
      BY CallNumbers
    <3>2. /\ inprogress[first] \in DOMAIN calls
          /\ first = RequestId(inprogress[first])
      BY <2>2, <3>1 DEF EntriesMade
    <3>3. QED
      BY <2>2, <3>2, CallNumbers
  <2>3. QED
    BY <2>1, <2>2
<1>4. Answered(event) = {id \in DOMAIN inprogress : event.causes # {} /\ id = first}
  BY DEF Answered, first
<1>5. ASSUME Answered(event) = {}, calls[c].at = "waiting" PROVE Explained(c)
  <2>1. first \notin DOMAIN inprogress
    BY <1>2, <1>4, <1>5
  <2>2. CASE first = RequestId(c)
    <3>1. Rewritten(c)
      BY <1>5, <2>1, <2>2 DEF EntriesMade
    <3>2. QED
      BY <3>1 DEF Rewritten, Explained
  <2>3. CASE first # RequestId(c)
    <3>1. first \in made.causes /\ Precedes(first, RequestId(c))
      BY <1>1, <1>2, <2>3
    <3>2. QED
      BY <3>1 DEF Explained
  <2>4. QED
    BY <2>2, <2>3
<1>6. QED
  BY <1>3, <1>4, <1>5 DEF event

\* A reply that is for nobody, or an event that is no reply
LEMMA IgnoredKeeps ==
    ASSUME CallInv, callerQueue # <<>>, InprogressMutexFree,
           callerQueue' = Tail(callerQueue),
           objects[Head(callerQueue)].method # "REPLY"
               \/ Answered(objects[Head(callerQueue)]) = {},
           UNCHANGED <<callback, known, objects, calls, serverQueue, inprogress, answers>>
    PROVE  CallInv'
<1> DEFINE h == Head(callerQueue)
<1>1. CallTyped /\ EntriesMade /\ ObjectsMade /\ CallsMade
  BY DEF CallInv
<1>2. /\ IsList(callerQueue') /\ h \in Range(callerQueue) /\ h \in DOMAIN objects
      /\ Range(callerQueue) = {h} \cup Range(callerQueue')
  BY <1>1, ListTail DEF CallTyped
<1>3. \A d \in DOMAIN calls : /\ Outcome(calls[d])' = Outcome(calls[d])
                              /\ Rewritten(d)' <=> Rewritten(d)
                              /\ CanPublish(calls[d].argument)' <=> CanPublish(calls[d].argument)
                              /\ Explained(d)' <=> Explained(d)
                              /\ \A i : /\ IsRequest(i, d)' <=> IsRequest(i, d)
                                        /\ IsReply(i, d)' <=> IsReply(i, d)
  BY CallStays
<1>4. CallTyped'
  <2>1. /\ \A d \in DOMAIN calls : CanPublish(calls[d].argument)' <=> CanPublish(calls[d].argument)
        /\ IsList(objects') /\ IsList(calls') /\ IsList(serverQueue')
        /\ Range(callerQueue') \subseteq DOMAIN objects
        /\ Range(serverQueue') \subseteq DOMAIN objects
    BY <1>1, <1>2, <1>3 DEF CallTyped
  <2>2. QED
    BY <1>1, <1>2, <2>1 DEF CallTyped
<1>5. EntriesMade' /\ ObjectsMade'
  <2>1. EntriesMade'
    BY <1>1, <1>3 DEF EntriesMade
  <2>2. ObjectsMade'
    <3>1. (SameProcess' <=> SameProcess) /\ Range(serverQueue') = Range(serverQueue)
      BY DEF SameProcess
    <3>2. QED
      BY <1>1, <1>3, <3>1 DEF ObjectsMade
  <2>3. QED
    BY <2>1, <2>2
<1> HIDE DEF h
<1>6. ASSUME NEW d \in DOMAIN calls, calls[d].at \in {"locked", "waiting"} PROVE UnderWay(d)'
  <2>1. UnderWay(d) /\ calls[d].at = "waiting"
    BY <1>1, <1>6 DEF CallsMade, InprogressMutexFree
  <2>2. IsReply(h, d) => objects[h].method = "REPLY"
    BY DEF IsReply
  <2>3. IsReply(h, d) => Explained(d)
    BY <1>1, <2>1, <2>2, AnsweredIs DEF h
  <2>4. \/ Explained(d)
        \/ \E i \in Range(serverQueue) : IsRequest(i, d)
        \/ \E i \in Range(callerQueue') : IsReply(i, d)
    BY <1>2, <2>1, <2>3 DEF UnderWay
  <2>5. QED
    BY <1>3, <2>4 DEF UnderWay
<1>7. CallsMade'
  BY <1>1, <1>3, <1>6 DEF CallsMade
<1>8. QED
  BY <1>4, <1>5, <1>7 DEF CallInv

\* The reply completes the call.
LEMMA CompletionKeeps ==
    ASSUME CallInv, callerQueue # <<>>, InprogressMutexFree,
           callerQueue' = Tail(callerQueue),
           objects[Head(callerQueue)].method = "REPLY",
           NEW id \in Answered(objects[Head(callerQueue)]),
           NEW at,
           at = IF HasInfo(objects[Head(callerQueue)], "rsb:error?") THEN "error" ELSE "set",
           calls' = [calls EXCEPT ![inprogress[id]].at = at,
                                  ![inprogress[id]].reply = Head(callerQueue)],
           inprogress' = [other \in DOMAIN inprogress \ {id} |-> inprogress[other]],
           UNCHANGED <<callback, known, objects, serverQueue, answers>>
    PROVE  CallInv'
<1> DEFINE h == Head(callerQueue)
<1>1. CallTyped /\ EntriesMade /\ ObjectsMade /\ CallsMade
  BY DEF CallInv
<1>2. /\ IsList(callerQueue') /\ h \in Range(callerQueue) /\ h \in DOMAIN objects
      /\ Range(callerQueue) = {h} \cup Range(callerQueue')
  BY <1>1, ListTail DEF CallTyped
<1>3. PICK c \in DOMAIN calls : IsReply(h, c)
  BY <1>1, <1>2 DEF ObjectsMade, IsRequest
<1>4. id \in DOMAIN inprogress /\ id = RequestId(c) /\ inprogress[id] = c /\ calls[c].at = "waiting"
  <2>1. id \in DOMAIN inprogress /\ id = RequestId(c) /\ inprogress[id] = c
    BY <1>1, <1>3, AnsweredIs
  <2>2. QED
    BY <1>1, <2>1 DEF EntriesMade
<1>5. /\ at \in {"set", "error"}
      /\ at = "error" <=> Outcome(calls[c]).kind = "exception"
  BY <1>3 DEF IsReply
<1> HIDE DEF h
<1>6. IsList(calls) /\ DOMAIN calls[c] = CallFields
  BY <1>1 DEF CallTyped, CallFields
<1>7. /\ DOMAIN calls' = DOMAIN calls /\ calls' = [d \in DOMAIN calls |-> calls'[d]]
      /\ \A d \in DOMAIN calls : d # c => calls'[d] = calls[d]
      /\ DOMAIN calls'[c] = CallFields /\ calls'[c].at = at /\ calls'[c].reply = h
      /\ calls'[c].argument = calls[c].argument /\ calls'[c].request = calls[c].request
  BY <1>4, <1>6 DEF CallFields, h
<1>8. GoesOn(c, at)
  <2>1. calls' = [i \in 1..Len(calls) |-> calls'[i]] /\ Len(calls) \in Nat
    BY <1>6, <1>7, ListIs
  <2>2. \A f : f = [i \in 1..Len(calls) |-> f[i]] => IsList(f)
    BY <2>1, ListOf
  <2>3. IsList(calls')
    BY <2>1, <2>2, Zenon
  <2>4. QED
    BY <1>7, <2>3 DEF GoesOn
<1>9. CallTyped' /\ ObjectsMade'
  <2>1. at \in Stages /\ calls[c].at # "refused"
    BY <1>4, <1>5 DEF Stages
  <2>2. QED
    BY <1>1, <1>2, <1>8, <2>1, CallGoesOn
<1>10. \A d \in DOMAIN calls : /\ Outcome(calls[d])' = Outcome(calls[d])
                               /\ Rewritten(d)' <=> Rewritten(d)
                               /\ Explained(d)' <=> Explained(d)
                               /\ \A i : /\ IsRequest(i, d)' <=> IsRequest(i, d)
                                         /\ IsReply(i, d)' <=> IsReply(i, d)
  <2>1. \A d \in DOMAIN calls : calls'[d].argument = calls[d].argument
    BY <1>7
  <2>2. QED
    BY <2>1, CallStays
<1>11. EntriesMade'
  <2>1. /\ DOMAIN inprogress' = DOMAIN inprogress \ {id}
        /\ \A other \in DOMAIN inprogress' : inprogress'[other] = inprogress[other]
    OBVIOUS
  <2>2. \A other \in DOMAIN inprogress' : inprogress[other] # c
    BY <1>1, <1>4, <2>1 DEF EntriesMade
  <2>3. ASSUME NEW d \in DOMAIN calls, calls'[d].at = "waiting", ~Rewritten(d)
        PROVE  RequestId(d) \in DOMAIN inprogress'
    <3>1. d # c /\ calls[d].at = "waiting"
      BY <1>5, <1>7, <2>3
    <3>2. RequestId(d) \in DOMAIN inprogress /\ RequestId(d) # id
      BY <1>1, <1>4, <2>3, <3>1, CallNumbers DEF EntriesMade
    <3>3. QED
      BY <2>1, <3>2
  <2>4. ASSUME NEW other \in DOMAIN inprogress'
        PROVE  /\ inprogress'[other] \in DOMAIN calls' /\ calls'[inprogress'[other]].at = "waiting"
               /\ other = RequestId(inprogress'[other]) \/ other.sender = "server"
    <3>1. other \in DOMAIN inprogress /\ inprogress'[other] = inprogress[other]
      BY <2>1
    <3>2. /\ inprogress[other] \in DOMAIN calls /\ inprogress[other] # c
          /\ calls[inprogress[other]].at = "waiting"
          /\ other = RequestId(inprogress[other]) \/ other.sender = "server"
      BY <1>1, <2>2, <3>1 DEF EntriesMade
    <3>3. calls'[inprogress[other]] = calls[inprogress[other]]
      BY <1>7, <3>2
    <3>4. QED
      BY <1>7, <3>1, <3>2, <3>3, Zenon
  <2>5. \A a, b \in DOMAIN inprogress' : inprogress'[a] = inprogress'[b] => a = b
    BY <1>1, <2>1 DEF EntriesMade
  <2>6. QED
    BY <1>7, <1>10, <2>3, <2>4, <2>5 DEF EntriesMade
<1>12. CallsMade'
  <2>1. ASSUME NEW d \in DOMAIN calls, d # c, calls[d].at \in {"locked", "waiting"}
        PROVE  UnderWay(d)'
    <3>1. UnderWay(d)
      BY <1>1, <2>1 DEF CallsMade
    <3>2. ~IsReply(h, d)
      <4>1. ASSUME IsReply(h, d) PROVE FALSE
        <5>1. id = RequestId(d)
          BY <1>1, <4>1, AnsweredIs DEF h
        <5>2. QED
          BY <1>1, <1>4, <2>1, <5>1, CallNumbers
      <4>2. QED
        BY <4>1
    <3>3. \/ Explained(d)
          \/ \E i \in Range(serverQueue) : IsRequest(i, d)
          \/ \E i \in Range(callerQueue') : IsReply(i, d)
      BY <1>2, <3>1, <3>2 DEF UnderWay
    <3>4. QED
      BY <1>10, <3>3 DEF UnderWay
  <2>2. ASSUME NEW d \in DOMAIN calls, d # c
        PROVE  /\ calls'[d].at \in {"locked", "waiting"} => UnderWay(d)'
               /\ calls'[d].at \in {"set", "ended", "returned", "error"} =>
                      /\ calls'[d].reply \in DOMAIN objects /\ IsReply(calls'[d].reply, d)
                      /\ calls'[d].at = "error" <=> Outcome(calls[d]).kind = "exception"
               /\ calls'[d].at = "returned" => calls'[d].got = objects[calls'[d].reply].data
    <3>1. calls'[d] = calls[d]
      BY <1>7, <2>2
    <3>2. /\ calls[d].at \in {"set", "ended", "returned", "error"} =>
                 /\ calls[d].reply \in DOMAIN objects /\ IsReply(calls[d].reply, d)
                 /\ calls[d].at = "error" <=> Outcome(calls[d]).kind = "exception"
          /\ calls[d].at = "returned" => calls[d].got = objects[calls[d].reply].data
      BY <1>1 DEF CallsMade
    <3>3. QED
      BY <2>1, <2>2, <3>1, <3>2
  <2>3. /\ calls'[c].at \in {"set", "error"}
        /\ calls'[c].reply \in DOMAIN objects /\ IsReply(calls'[c].reply, c)
        /\ calls'[c].at = "error" <=> Outcome(calls[c]).kind = "exception"
    BY <1>2, <1>3, <1>5, <1>7
  <2>4. QED
    BY <1>7, <1>10, <2>2, <2>3 DEF CallsMade
<1>13. QED
  BY <1>9, <1>11, <1>12 DEF CallInv

\* RemoteMethod::handle takes the next event off the queue.
LEMMA HandleReplyKeeps ==
    ASSUME CallInv, HandleReply
    PROVE  CallInv'
<1> DEFINE event == objects[Head(callerQueue)]
           at == IF HasInfo(event, "rsb:error?") THEN "error" ELSE "set"
<1>1. CASE /\ event.method # "REPLY" \/ Answered(event) = {}
           /\ UNCHANGED <<calls, inprogress>>
  BY <1>1, IgnoredKeeps DEF HandleReply
<1>2. CASE /\ event.method = "REPLY"
           /\ \E id \in Answered(event) :
                  /\ calls' = [calls EXCEPT ![inprogress[id]].at = at,
                                            ![inprogress[id]].reply = Head(callerQueue)]
                  /\ inprogress' = [other \in DOMAIN inprogress \ {id} |-> inprogress[other]]
  <2>1. PICK id \in Answered(event) :
                  /\ calls' = [calls EXCEPT ![inprogress[id]].at = at,
                                            ![inprogress[id]].reply = Head(callerQueue)]
                  /\ inprogress' = [other \in DOMAIN inprogress \ {id} |-> inprogress[other]]
    BY <1>2
  <2>2. QED
    BY <1>2, <2>1, CompletionKeeps DEF HandleReply
<1>3. QED
  BY <1>1, <1>2 DEF HandleReply

\* Whether caller and server share a process does not change.
LEMMA SameProcessStays ==
    ASSUME UNCHANGED known
    PROVE  (SameProcess' <=> SameProcess) /\ Out' = Out
           /\ \A event : CanPublish(event)' <=> CanPublish(event)
BY DEF SameProcess, Out, CanPublish

\* A call is made: its request is in a place of its own, and what the other side
\* gets in a new one, unless the request has been refused.
CallMade(c, argument, place, new, at) ==
    /\ c = Len(calls) + 1
    /\ UNCHANGED <<callback, known, inprogress>>
    /\ IsList(objects') /\ DOMAIN objects' = DOMAIN objects \cup {place, new}
    /\ place \notin DOMAIN objects /\ new \notin DOMAIN objects
    /\ \A i \in DOMAIN objects : objects'[i] = objects[i]
    /\ calls' = Append(calls, [at |-> at, argument |-> argument, request |-> place, reply |-> 0,
                               got |-> NoData])
    /\ IsRequest(place, c)' /\ IsRequest(new, c)'
    /\ \/ /\ at = "locked" /\ CanPublish(argument) /\ (SameProcess <=> new = place)
          /\ serverQueue' = Append(serverQueue, new)
          /\ callerQueue' = IF SameProcess THEN Append(callerQueue, place) ELSE callerQueue
       \/ /\ at = "refused"
          /\ UNCHANGED <<serverQueue, callerQueue>>

\* A call that has been made leaves the invariant in place.
LEMMA CallMadeKeeps ==
    ASSUME CallInv, NEW argument \in Arguments, NEW place, NEW new, NEW at,
           NEW c, CallMade(c, argument, place, new, at)
    PROVE  CallInv'
<1>1. CallTyped /\ EntriesMade /\ ObjectsMade /\ CallsMade
  BY DEF CallInv
<1>2. /\ IsList(calls') /\ DOMAIN calls' = DOMAIN calls \cup {c} /\ c \notin DOMAIN calls
      /\ \A d \in DOMAIN calls : calls'[d] = calls[d]
      /\ DOMAIN calls'[c] = CallFields /\ calls'[c].at = at
      /\ calls'[c].argument = argument /\ calls'[c].request = place
  <2> DEFINE new_call == [at |-> at, argument |-> argument, request |-> place, reply |-> 0,
                          got |-> NoData]
  <2>1. calls' = Append(calls, new_call) /\ IsList(calls) /\ c = Len(calls) + 1
    BY <1>1 DEF CallMade, CallTyped
  <2>2. /\ DOMAIN new_call = CallFields /\ new_call.at = at
        /\ new_call.argument = argument /\ new_call.request = place
    BY DEF CallFields
  <2> HIDE DEF new_call
  <2>3. /\ IsList(calls') /\ DOMAIN calls' = 1..c /\ calls'[c] = new_call
        /\ \A d \in 1..Len(calls) : calls'[d] = calls[d]
    BY <2>1, ListAppend
  <2>4. Len(calls) \in Nat /\ DOMAIN calls = 1..Len(calls)
    BY <2>1, ListIs
  <2>5. 1..c = DOMAIN calls \cup {c} /\ c \notin DOMAIN calls
    BY <2>1, <2>4
  <2>6. QED
    BY <2>2, <2>3, <2>4, <2>5
<1>3. /\ UNCHANGED <<callback, known, inprogress>>
      /\ IsList(objects') /\ DOMAIN objects' = DOMAIN objects \cup {place, new}
      /\ place \notin DOMAIN objects /\ new \notin DOMAIN objects
      /\ \A i \in DOMAIN objects : objects'[i] = objects[i]
      /\ IsRequest(place, c)' /\ IsRequest(new, c)'
      /\ at \in {"locked", "refused"}
      /\ at = "locked" => CanPublish(argument) /\ (SameProcess <=> new = place)
  <2>1. IsRequest(place, c)' /\ IsRequest(new, c)'
    BY DEF CallMade
  <2>2. QED
    BY <2>1 DEF CallMade
<1>4. /\ IsList(serverQueue') /\ IsList(callerQueue')
      /\ Range(serverQueue') = Range(serverQueue) \cup (IF at = "locked" THEN {new} ELSE {})
      /\ Range(callerQueue) \subseteq Range(callerQueue')
      /\ Range(callerQueue') \subseteq Range(callerQueue) \cup {place}
  <2>1. IsList(serverQueue) /\ IsList(callerQueue)
    BY <1>1 DEF CallTyped
  <2>2. /\ at = "locked" => /\ serverQueue' = Append(serverQueue, new)
                            /\ SameProcess => callerQueue' = Append(callerQueue, place)
                            /\ ~SameProcess => callerQueue' = callerQueue
        /\ at = "refused" => serverQueue' = serverQueue /\ callerQueue' = callerQueue
    BY DEF CallMade
  <2>3. CASE at = "locked"
    <3>1. IsList(serverQueue') /\ Range(serverQueue') = Range(serverQueue) \cup {new}
      BY <2>1, <2>2, <2>3, ListMore
    <3>2. CASE SameProcess
      <4>1. callerQueue' = Append(callerQueue, place)
        BY <2>2, <2>3, <3>2
      <4>2. IsList(callerQueue') /\ Range(callerQueue') = Range(callerQueue) \cup {place}
        BY <2>1, <4>1, ListMore
      <4>3. QED
        BY <2>3, <3>1, <4>2
    <3>3. CASE ~SameProcess
      <4>1. callerQueue' = callerQueue
        BY <2>2, <2>3, <3>3
      <4>2. QED
        BY <2>1, <2>3, <3>1, <4>1
    <3>4. QED
      BY <3>2, <3>3
  <2>4. CASE at = "refused"
    <3>1. serverQueue' = serverQueue /\ callerQueue' = callerQueue
      BY <2>2, <2>4
    <3>2. QED
      BY <2>1, <2>4, <3>1
  <2>5. QED
    BY <1>3, <2>3, <2>4
<1>5. \A d \in DOMAIN calls : /\ Outcome(calls[d])' = Outcome(calls[d])
                              /\ Rewritten(d)' <=> Rewritten(d)
                              /\ CanPublish(calls[d].argument)' <=> CanPublish(calls[d].argument)
                              /\ Explained(d)' <=> Explained(d)
                              /\ \A i \in DOMAIN objects : /\ IsRequest(i, d)' <=> IsRequest(i, d)
                                                           /\ IsReply(i, d)' <=> IsReply(i, d)
  <2>1. /\ \A d \in DOMAIN calls : calls'[d].argument = calls[d].argument
        /\ UNCHANGED <<callback, known>>
        /\ \A i \in DOMAIN objects : objects'[i] = objects[i]
    BY <1>2, <1>3
  <2>2. QED
    BY <2>1, CallStays
<1>6. CallTyped'
  <2>1. ASSUME NEW d \in DOMAIN calls'
        PROVE  /\ DOMAIN calls'[d] = CallFields /\ calls'[d].at \in Stages
               /\ calls'[d].argument \in Arguments /\ calls'[d].request \in DOMAIN objects'
               /\ calls'[d].at # "refused" => CanPublish(calls[d].argument)'
    <3>1. CASE d = c
      <4>1. CanPublish(argument) <=> CanPublish(calls[d].argument)'
        BY <1>2, <1>3, <3>1, SameProcessStays DEF CanPublish
      <4>2. QED
        BY <1>2, <1>3, <3>1, <4>1 DEF Stages
    <3>2. CASE d # c
      BY <1>1, <1>2, <1>3, <1>5, <3>2 DEF CallTyped, CallFields, Stages
    <3>3. QED
      BY <3>1, <3>2
  <2>2. /\ callback' \in Callbacks /\ known' \in KnownTypes
        /\ IsList(objects') /\ IsList(calls') /\ IsList(serverQueue') /\ IsList(callerQueue')
        /\ Range(serverQueue') \subseteq DOMAIN objects'
        /\ Range(callerQueue') \subseteq DOMAIN objects'
    BY <1>1, <1>2, <1>3, <1>4 DEF CallTyped
  <2>3. QED
    BY <2>1, <2>2 DEF CallTyped, CallFields, Stages
<1>7. EntriesMade'
  <2>1. ASSUME NEW d \in DOMAIN calls', calls'[d].at = "waiting"
        PROVE  d \in DOMAIN calls /\ calls[d].at = "waiting"
    BY <1>2, <1>3, <2>1
  <2>2. \A id \in DOMAIN inprogress :
            /\ inprogress[id] \in DOMAIN calls' /\ calls'[inprogress[id]].at = "waiting"
            /\ id = RequestId(inprogress[id]) \/ id.sender = "server"
    BY <1>1, <1>2 DEF EntriesMade
  <2>3. \A a, b \in DOMAIN inprogress : inprogress[a] = inprogress[b] => a = b
    BY <1>1 DEF EntriesMade
  <2>4. ASSUME NEW d \in DOMAIN calls', calls'[d].at = "waiting", ~Rewritten(d)'
        PROVE  RequestId(d) \in DOMAIN inprogress
    BY <1>1, <1>5, <2>1, <2>4 DEF EntriesMade
  <2>5. QED
    BY <1>3, <2>2, <2>3, <2>4 DEF EntriesMade
<1>8. ObjectsMade'
  <2>1. ASSUME NEW i \in DOMAIN objects'
        PROVE  \E d \in DOMAIN calls' : IsRequest(i, d)' \/ IsReply(i, d)'
    <3>1. CASE i \in DOMAIN objects
      <4>1. PICK d \in DOMAIN calls : IsRequest(i, d) \/ IsReply(i, d)
        BY <1>1, <3>1 DEF ObjectsMade
      <4>2. IsRequest(i, d)' \/ IsReply(i, d)'
        BY <1>5, <3>1, <4>1
      <4>3. QED
        BY <1>2, <4>2
    <3>2. CASE i \in {place, new}
      BY <1>2, <1>3, <3>2
    <3>3. QED
      BY <1>3, <3>1, <3>2
  <2>2. ASSUME NEW d \in DOMAIN calls'
        PROVE  \/ IsRequest(calls[d].request, d)'
               \/ Rewritten(d)' /\ IsReply(calls[d].request, d)'
    <3>1. CASE d = c
      BY <1>2, <1>3, <3>1
    <3>2. CASE d # c
      <4>1. d \in DOMAIN calls /\ calls'[d] = calls[d] /\ calls[d].request \in DOMAIN objects
        BY <1>1, <1>2, <3>2 DEF CallTyped
      <4>2. \/ IsRequest(calls[d].request, d)
            \/ Rewritten(d) /\ IsReply(calls[d].request, d)
        BY <1>1, <4>1 DEF ObjectsMade
      <4>3. QED
        BY <1>5, <4>1, <4>2
    <3>3. QED
      BY <3>1, <3>2
  <2>3. ASSUME ~SameProcess, NEW i \in Range(serverQueue'), NEW d \in DOMAIN calls'
        PROVE  i # calls'[d].request
    <3>1. Range(serverQueue) \subseteq DOMAIN objects
      BY <1>1 DEF CallTyped
    <3>2. \A e \in DOMAIN calls : calls'[e].request = calls[e].request
                                  /\ calls[e].request \in DOMAIN objects
      BY <1>1, <1>2 DEF CallTyped
    <3>3. \A e \in DOMAIN calls : \A j \in Range(serverQueue) : j # calls[e].request
      BY <1>1, <2>3 DEF ObjectsMade
    <3>4. i \in Range(serverQueue) \/ (i = new /\ new # place)
      BY <1>3, <1>4, <2>3
    <3>5. QED
      BY <1>2, <1>3, <3>1, <3>2, <3>3, <3>4
  <2>4. QED
    BY <1>3, <2>1, <2>2, <2>3, SameProcessStays DEF ObjectsMade
<1>9. CallsMade'
  <2>1. ASSUME NEW d \in DOMAIN calls, UnderWay(d) PROVE UnderWay(d)'
    <3>1. /\ Range(serverQueue) \subseteq DOMAIN objects
          /\ Range(callerQueue) \subseteq DOMAIN objects
      BY <1>1 DEF CallTyped
    <3>2. \/ Explained(d)'
          \/ \E i \in Range(serverQueue') : IsRequest(i, d)'
          \/ \E i \in Range(callerQueue') : IsReply(i, d)'
      BY <1>4, <1>5, <2>1, <3>1 DEF UnderWay
    <3>3. QED
      BY <3>2 DEF UnderWay
  <2>2. at = "locked" => UnderWay(c)'
    <3>1. at = "locked" => \E i \in Range(serverQueue') : IsRequest(i, c)'
      BY <1>3, <1>4
    <3>2. QED
      BY <3>1 DEF UnderWay
  <2>3. ASSUME NEW d \in DOMAIN calls
        PROVE  /\ calls'[d].at \in {"locked", "waiting"} => UnderWay(d)'
               /\ calls'[d].at \in {"set", "ended", "returned", "error"} =>
                      /\ calls'[d].reply \in DOMAIN objects' /\ IsReply(calls[d].reply, d)'
                      /\ calls'[d].at = "error" <=> (Outcome(calls[d])').kind = "exception"
               /\ calls'[d].at = "returned" => calls'[d].got = objects'[calls'[d].reply].data
    <3>1. /\ calls[d].at \in {"locked", "waiting"} => UnderWay(d)
          /\ calls[d].at \in {"set", "ended", "returned", "error"} =>
                 /\ calls[d].reply \in DOMAIN objects /\ IsReply(calls[d].reply, d)
                 /\ calls[d].at = "error" <=> Outcome(calls[d]).kind = "exception"
          /\ calls[d].at = "returned" => calls[d].got = objects[calls[d].reply].data
      BY <1>1 DEF CallsMade
    <3>2. calls'[d] = calls[d]
      BY <1>2
    <3>3. /\ calls[d].reply \in DOMAIN objects => objects'[calls[d].reply] = objects[calls[d].reply]
          /\ calls[d].reply \in DOMAIN objects => calls[d].reply \in DOMAIN objects'
      BY <1>3
    <3>4. QED
      BY <1>5, <2>1, <3>1, <3>2, <3>3
  <2>4. QED
    BY <1>2, <1>3, <2>2, <2>3 DEF CallsMade
<1>10. QED
  BY <1>6, <1>7, <1>8, <1>9 DEF CallInv

\* RemoteMethod::call publishes a request, or is refused.
LEMMA PublishRequestKeeps ==
    ASSUME CallInv, NEW argument \in Arguments, PublishRequest(argument)
    PROVE  CallInv'
<1>1. CallTyped /\ EntriesMade /\ ObjectsMade /\ CallsMade
  BY DEF CallInv
<1>2. PICK c, place :
      /\ c = Len(calls) + 1 /\ Len(calls) \in Nat
      /\ place = Len(objects) + 1 /\ place \notin DOMAIN objects
      /\ place \in 1..(Len(objects) + 1)
  <2>1. Len(calls) \in Nat
    BY <1>1, ListIs DEF CallTyped
  <2>2. Len(objects) \in Nat /\ DOMAIN objects = 1..Len(objects)
    BY <1>1, ListIs DEF CallTyped
  <2>3. QED
    BY <2>1, <2>2
<1> DEFINE request == WithId(WithMethod(WithScope(PrepareRequest(argument), <<"m">>), "REQUEST"),
                             "caller", Len(calls))
           call(at) == [at |-> at, argument |-> argument, request |-> place, reply |-> 0,
                        got |-> NoData]
           publishes == Publishes(request, place, serverQueue, callerQueue)
<1>3. /\ DOMAIN request = EventFields
      /\ request.method = "REQUEST" /\ request.id = RequestId(c) /\ request.causes = {}
      /\ request.type = argument.type /\ request.data = argument.data
      /\ request.infos = <<>>
  <2>1. [sender |-> "caller", number |-> Len(calls)] = RequestId(c)
    BY <1>2 DEF RequestId
  <2>2. request = [NewEvent(NoId, <<>>, "", {}, argument.type, argument.data) EXCEPT
                      !.scope = <<"m">>, !.method = "REQUEST", !.id = RequestId(c)]
    BY <2>1 DEF WithId, WithMethod, WithScope, PrepareRequest, NewEvent
  <2>3. QED
    BY <2>2 DEF NewEvent, EventFields
<1>4. ~HasInfo(request, "rsb:error?")
  BY <1>3 DEF HasInfo
<1> HIDE DEF request
<1>5. CanPublish(request) <=> CanPublish(argument)
  BY <1>3 DEF CanPublish
<1>6. ASSUME NEW x, Like(objects'[x], request), calls'[c].argument = argument
      PROVE  IsRequest(x, c)'
  BY <1>3, <1>4, <1>6 DEF IsRequest, Like
<1>7. CASE CanPublish(request)
  <2>1. /\ UNCHANGED <<callback, known, inprogress>>
        /\ objects' = publishes.objects
        /\ serverQueue' = publishes.other /\ callerQueue' = publishes.own
        /\ calls' = Append(calls, call("locked"))
    BY <1>2, <1>7 DEF PublishRequest, request
  <2>2. argument.type \in ConvertedTypes => Kept(argument.type, argument.data)
    BY ArgumentsAssumption
  <2>3. PICK new : /\ Put(request, place, new)
                   /\ publishes.other = Append(serverQueue, new)
                   /\ publishes.own = IF SameProcess THEN Append(callerQueue, place)
                                      ELSE callerQueue
    <3>1. known \in KnownTypes /\ IsList(objects)
      BY <1>1 DEF CallTyped
    <3> HIDE DEF publishes
    <3>2. /\ request.type \in ConvertedTypes => Kept(request.type, request.data)
          /\ objects' = publishes.objects
      BY <1>3, <2>1, <2>2
    <3>3. QED
      BY <1>2, <1>3, <1>7, <3>1, <3>2, Published DEF publishes
  <2> HIDE DEF publishes
  <2>4. calls'[c].argument = argument
    <3>1. IsList(calls) /\ call("locked").argument = argument
      BY <1>1 DEF CallTyped
    <3>2. calls'[c] = call("locked")
      BY <1>2, <2>1, <3>1, ListAppend
    <3>3. QED
      BY <3>1, <3>2
  <2>5. IsRequest(place, c)' /\ IsRequest(new, c)'
    <3>1. Like(request, request)
      BY <1>3 DEF Like
    <3>2. Like(objects'[place], request) /\ Like(objects'[new], request)
      BY <2>3, <3>1 DEF Put
    <3>3. QED
      BY <1>6, <2>4, <3>2
  <2>6. /\ IsList(objects') /\ DOMAIN objects' = DOMAIN objects \cup {place, new}
        /\ new \notin DOMAIN objects /\ (SameProcess <=> new = place)
        /\ \A i \in DOMAIN objects : objects'[i] = objects[i]
    BY <1>2, <2>3 DEF Put
  <2>7. CallMade(c, argument, place, new, "locked")
    BY <1>2, <1>5, <1>7, <2>1, <2>3, <2>5, <2>6 DEF CallMade
  <2>8. QED
    BY <2>7, CallMadeKeeps
<1>8. CASE ~CanPublish(request)
  <2>1. /\ UNCHANGED <<callback, known, inprogress, serverQueue, callerQueue>>
        /\ objects' = Append(objects, request)
        /\ calls' = Append(calls, call("refused"))
    BY <1>2, <1>8 DEF PublishRequest, request
  <2>2. IsList(calls) /\ IsList(objects) /\ call("refused").argument = argument
    BY <1>1 DEF CallTyped
  <2>3. calls'[c].argument = argument
    BY <1>2, <2>1, <2>2, ListAppend
  <2>4. /\ IsList(objects') /\ DOMAIN objects' = DOMAIN objects \cup {place, place}
        /\ \A i \in DOMAIN objects : objects'[i] = objects[i]
        /\ objects'[place] = request
    <3>1. Len(objects) \in Nat /\ DOMAIN objects = 1..Len(objects)
      BY <2>2, ListIs
    <3>2. 1..(Len(objects) + 1) = (1..Len(objects)) \cup {place}
      BY <1>2, <3>1
    <3>3. QED
      BY <1>2, <2>1, <2>2, <3>1, <3>2, ListAppend
  <2>5. IsRequest(place, c)'
    <3>1. Like(request, request)
      BY <1>3 DEF Like
    <3>2. QED
      BY <1>6, <2>3, <2>4, <3>1
  <2>6. CallMade(c, argument, place, place, "refused")
    BY <1>2, <2>1, <2>4, <2>5 DEF CallMade
  <2>7. QED
    BY <2>6, CallMadeKeeps
<1>9. QED
  BY <1>7, <1>8

\* What LocalMethod::handle makes of a request
LEMMA ReplyMade ==
    ASSUME CallTyped, NEW c \in DOMAIN calls, NEW i, IsRequest(i, c), NEW reply,
           reply = ReplyEvent(objects[i], Outcome(calls[c]))
    PROVE  LET made == Outcome(calls[c]) IN
           /\ DOMAIN reply = EventFields
           /\ reply.method = "REPLY" /\ reply.id.sender = "server"
           /\ reply.causes = made.causes \cup {RequestId(c)}
           /\ HasInfo(reply, "rsb:error?") <=> made.kind = "exception"
           /\ reply.type = IF made.kind = "request" THEN calls[c].argument.type ELSE made.type
           /\ reply.data = IF made.kind = "request" THEN calls[c].argument.data ELSE made.data
<1> DEFINE made == Outcome(calls[c])
           request == objects[i]
           fresh == NewEvent(NoId, <<>>, "", made.causes, made.type, made.data)
           event == IF made.kind = "request" THEN request ELSE fresh
           marked == WithInfo(event, "rsb:error?", "")
           told == IF made.kind = "exception" THEN marked ELSE event
           plain == WithCause(WithMethod(WithScope(told, <<"m">>), "REPLY"), request.id)
<1>1. /\ DOMAIN request = EventFields /\ request.id = RequestId(c) /\ request.causes = {}
      /\ request.type = calls[c].argument.type /\ request.data = calls[c].argument.data
      /\ ~HasInfo(request, "rsb:error?")
  BY DEF IsRequest
<1>2. made.kind = "request" => made.causes = {}
  <2>1. made.kind = "request" => made = Itself
    BY Made
  <2>2. Itself.causes = {}
    BY DEF Itself, Result
  <2>3. QED
    BY <2>1, <2>2
<1>3. reply = WithId(plain, "server", answers)
  BY DEF ReplyEvent
<1> HIDE DEF made, request
<1>4. /\ DOMAIN fresh = EventFields /\ fresh.causes = made.causes /\ fresh.infos = <<>>
      /\ fresh.type = made.type /\ fresh.data = made.data
  BY DEF NewEvent, EventFields
<1> HIDE DEF fresh
<1>5. /\ DOMAIN event = EventFields /\ event.causes = made.causes
      /\ ~HasInfo(event, "rsb:error?")
      /\ event.type = IF made.kind = "request" THEN calls[c].argument.type ELSE made.type
      /\ event.data = IF made.kind = "request" THEN calls[c].argument.data ELSE made.data
  <2>1. CASE made.kind = "request"
    BY <1>1, <1>2, <2>1
  <2>2. CASE made.kind # "request"
    <3>1. event = fresh
      BY <2>2
    <3>2. QED
      BY <1>4, <2>2, <3>1 DEF HasInfo
  <2>3. QED
    BY <2>1, <2>2
<1> HIDE DEF event
<1>6. /\ DOMAIN told = EventFields /\ told.causes = event.causes
      /\ HasInfo(told, "rsb:error?") <=> made.kind = "exception"
      /\ told.type = event.type /\ told.data = event.data
  <2>1. CASE made.kind = "exception"
    <3>1. marked = WithInfo(event, "rsb:error?", "") /\ told = marked
      BY <2>1
    <3> HIDE DEF marked, told
    <3>2. /\ DOMAIN marked = EventFields
          /\ \A f \in EventFields \ {"infos"} : marked[f] = event[f]
          /\ DOMAIN marked.infos = DOMAIN event.infos \cup {"rsb:error?"}
      BY <1>5, <3>1 DEF WithInfo, EventFields
    <3>3. QED
      BY <2>1, <3>1, <3>2 DEF EventFields, HasInfo
  <2>2. CASE made.kind # "exception"
    BY <1>5, <2>2
  <2>3. QED
    BY <2>1, <2>2
<1> HIDE DEF told
<1>7. plain = [told EXCEPT !.scope = <<"m">>, !.method = "REPLY",
                           !.causes = told.causes \cup {RequestId(c)}]
  BY <1>1, <1>6 DEF WithCause, WithMethod, WithScope, EventFields
<1> HIDE DEF plain
<1>8. reply = [plain EXCEPT !.id = [sender |-> "server", number |-> answers]]
  BY <1>3 DEF WithId
<1>9. /\ DOMAIN plain = EventFields /\ plain.method = "REPLY"
      /\ plain.causes = told.causes \cup {RequestId(c)} /\ plain.infos = told.infos
      /\ plain.type = told.type /\ plain.data = told.data
  BY <1>6, <1>7 DEF EventFields
<1>10. /\ DOMAIN reply = EventFields /\ reply.method = "REPLY" /\ reply.id.sender = "server"
      /\ reply.causes = told.causes \cup {RequestId(c)} /\ reply.infos = told.infos
      /\ reply.type = told.type /\ reply.data = told.data
  BY <1>8, <1>9 DEF EventFields
<1>11. QED
  BY <1>5, <1>6, <1>10 DEF HasInfo, made

\* The reply has been publishes, in the place of the request or in one of its own.
Replied(c, place, at, new) ==
    /\ UNCHANGED <<callback, known, calls, inprogress>>
    /\ serverQueue # <<>> /\ place = Head(serverQueue) /\ IsRequest(place, c)
    /\ IsList(objects') /\ DOMAIN objects' = DOMAIN objects \cup {at, new}
    /\ \A i \in DOMAIN objects : i # at => objects'[i] = objects[i]
    /\ \/ at = place /\ Outcome(calls[c]).kind = "request"
       \/ at \notin DOMAIN objects
    /\ IF SameProcess THEN new = at ELSE new \notin DOMAIN objects
    /\ IsReply(at, c)' /\ IsReply(new, c)'
    /\ callerQueue' = Append(callerQueue, new)
    /\ serverQueue' = IF SameProcess THEN Append(Tail(serverQueue), at) ELSE Tail(serverQueue)

\* So does a reply that has been publishes.
LEMMA RepliedKeeps ==
    ASSUME CallInv, NEW c \in DOMAIN calls, NEW place, NEW at, NEW new,
           Replied(c, place, at, new)
    PROVE  CallInv'
<1>1. CallTyped /\ EntriesMade /\ ObjectsMade /\ CallsMade
  BY DEF CallInv
<1>2. /\ UNCHANGED <<callback, known, calls, inprogress>>
      /\ serverQueue # <<>> /\ place = Head(serverQueue) /\ IsRequest(place, c)
      /\ IsList(objects') /\ DOMAIN objects' = DOMAIN objects \cup {at, new}
      /\ \A i \in DOMAIN objects : i # at => objects'[i] = objects[i]
      /\ at \in DOMAIN objects => at = place /\ Outcome(calls[c]).kind = "request"
      /\ SameProcess => new = at
      /\ ~SameProcess => new \notin DOMAIN objects
      /\ IsReply(at, c)' /\ IsReply(new, c)'
  <2>1. IsReply(at, c)' /\ IsReply(new, c)'
    BY DEF Replied
  <2>2. QED
    BY <2>1 DEF Replied
<1>3. /\ IsList(serverQueue') /\ IsList(callerQueue')
      /\ Range(serverQueue) = {place} \cup Range(Tail(serverQueue))
      /\ Range(serverQueue')
             = Range(Tail(serverQueue)) \cup (IF SameProcess THEN {at} ELSE {})
      /\ Range(callerQueue') = Range(callerQueue) \cup {new}
  <2>1. /\ IsList(Tail(serverQueue))
        /\ Range(serverQueue) = {place} \cup Range(Tail(serverQueue))
    BY <1>1, <1>2, ListTail DEF CallTyped
  <2>2. IsList(callerQueue') /\ Range(callerQueue') = Range(callerQueue) \cup {new}
    <3>1. IsList(callerQueue) /\ callerQueue' = Append(callerQueue, new)
      BY <1>1 DEF CallTyped, Replied
    <3>2. QED
      BY <3>1, ListMore
  <2>3. CASE SameProcess
    <3>1. serverQueue' = Append(Tail(serverQueue), at)
      BY <2>3 DEF Replied
    <3>2. IsList(serverQueue') /\ Range(serverQueue') = Range(Tail(serverQueue)) \cup {at}
      BY <2>1, <3>1, ListMore
    <3>3. QED
      BY <2>1, <2>2, <2>3, <3>2
  <2>4. CASE ~SameProcess
    <3>1. serverQueue' = Tail(serverQueue)
      BY <2>4 DEF Replied
    <3>2. QED
      BY <2>1, <2>2, <2>4, <3>1
  <2>5. QED
    BY <2>3, <2>4
<1>4. /\ Range(serverQueue) \subseteq DOMAIN objects
      /\ Range(callerQueue) \subseteq DOMAIN objects
  BY <1>1 DEF CallTyped
<1>5. \A d \in DOMAIN calls : /\ Outcome(calls[d])' = Outcome(calls[d])
                              /\ Rewritten(d)' <=> Rewritten(d)
                              /\ CanPublish(calls[d].argument)' <=> CanPublish(calls[d].argument)
                              /\ Explained(d)' <=> Explained(d)
                              /\ \A i \in DOMAIN objects : i # at =>
                                     /\ IsRequest(i, d)' <=> IsRequest(i, d)
                                     /\ IsReply(i, d)' <=> IsReply(i, d)
  BY <1>2, CallStays
\* What is in the place of the reply was the request.
<1>6. ASSUME NEW d \in DOMAIN calls, at \in DOMAIN objects
      PROVE  (IsRequest(at, d) => d = c) /\ ~IsReply(at, d)
  <2>1. objects[at].method = "REQUEST" /\ objects[at].id = RequestId(c)
    BY <1>2, <1>6 DEF IsRequest
  <2>2. IsRequest(at, d) => RequestId(c) = RequestId(d)
    BY <2>1 DEF IsRequest
  <2>3. ~IsReply(at, d)
    BY <2>1 DEF IsReply
  <2>4. QED
    BY <1>1, <2>2, <2>3, CallNumbers
<1>7. CallTyped'
  <2>1. /\ callback' \in Callbacks /\ known' \in KnownTypes
        /\ IsList(objects') /\ IsList(calls') /\ IsList(serverQueue') /\ IsList(callerQueue')
        /\ Range(serverQueue') \subseteq DOMAIN objects'
        /\ Range(callerQueue') \subseteq DOMAIN objects'
    BY <1>1, <1>2, <1>3, <1>4 DEF CallTyped
  <2>2. ASSUME NEW d \in DOMAIN calls
        PROVE  /\ DOMAIN calls'[d] = CallFields /\ calls'[d].at \in Stages
               /\ calls'[d].argument \in Arguments /\ calls'[d].request \in DOMAIN objects'
               /\ calls'[d].at # "refused" => CanPublish(calls[d].argument)'
    BY <1>1, <1>2, <1>5 DEF CallTyped, CallFields, Stages
  <2>3. QED
    BY <1>2, <2>1, <2>2 DEF CallTyped, CallFields, Stages
<1>8. EntriesMade'
  BY <1>1, <1>2, <1>5 DEF EntriesMade
<1>9. ObjectsMade'
  <2>1. ASSUME NEW i \in DOMAIN objects'
        PROVE  \E d \in DOMAIN calls : IsRequest(i, d)' \/ IsReply(i, d)'
    <3>1. CASE i \in {at, new}
      BY <1>2, <3>1
    <3>2. CASE i \notin {at, new}
      <4>1. i \in DOMAIN objects
        BY <1>2, <3>2
      <4>2. PICK d \in DOMAIN calls : IsRequest(i, d) \/ IsReply(i, d)
        BY <1>1, <4>1 DEF ObjectsMade
      <4>3. QED
        BY <1>5, <3>2, <4>1, <4>2
    <3>3. QED
      BY <3>1, <3>2
  <2>2. ASSUME NEW d \in DOMAIN calls
        PROVE  \/ IsRequest(calls[d].request, d)'
               \/ Rewritten(d)' /\ IsReply(calls[d].request, d)'
    <3>1. /\ calls[d].request \in DOMAIN objects /\ calls'[d] = calls[d]
          /\ \/ IsRequest(calls[d].request, d)
             \/ Rewritten(d) /\ IsReply(calls[d].request, d)
      BY <1>1, <1>2 DEF CallTyped, ObjectsMade
    <3>2. CASE calls[d].request # at
      BY <1>5, <3>1, <3>2
    <3>3. CASE calls[d].request = at
      <4>1. at = place /\ d = c /\ Outcome(calls[c]).kind = "request"
        BY <1>2, <1>6, <3>1, <3>3
      <4>2. SameProcess
        <5>1. place \in Range(serverQueue)
          BY <1>3
        <5>2. QED
          BY <1>1, <3>3, <4>1, <5>1 DEF ObjectsMade
      <4>3. Rewritten(d)
        BY <4>1, <4>2 DEF Rewritten
      <4>4. QED
        BY <1>2, <1>5, <3>1, <3>3, <4>1, <4>3
    <3>4. QED
      BY <3>2, <3>3
  <2>3. ASSUME ~SameProcess, NEW i \in Range(serverQueue'), NEW d \in DOMAIN calls
        PROVE  i # calls[d].request
    BY <1>1, <1>3, <2>3 DEF ObjectsMade
  <2>4. QED
    BY <1>2, <2>1, <2>2, <2>3, SameProcessStays DEF ObjectsMade
<1>10. CallsMade'
  <2>1. ASSUME NEW d \in DOMAIN calls, UnderWay(d) PROVE UnderWay(d)'
    <3>1. \/ Explained(d)'
          \/ \E i \in Range(serverQueue') : IsRequest(i, d)'
          \/ \E i \in Range(callerQueue') : IsReply(i, d)'
      <4>1. CASE Explained(d)
        BY <1>5, <4>1
      <4>2. CASE d = c
        BY <1>2, <1>3, <4>2
      <4>3. ASSUME d # c, NEW i \in Range(serverQueue), IsRequest(i, d)
            PROVE  i \in Range(serverQueue') /\ IsRequest(i, d)'
        <5>1. i # place
          <6>1. i = place => objects[i].id = RequestId(c) /\ objects[i].id = RequestId(d)
            BY <1>2, <4>3 DEF IsRequest
          <6>2. QED
            BY <1>1, <4>3, <6>1, CallNumbers
        <5>2. i \in DOMAIN objects /\ i # at
          BY <1>2, <1>4, <4>3, <5>1
        <5>3. QED
          BY <1>3, <1>5, <4>3, <5>1, <5>2
      <4>4. ASSUME NEW i \in Range(callerQueue), IsReply(i, d)
            PROVE  i \in Range(callerQueue') /\ IsReply(i, d)'
        BY <1>3, <1>4, <1>5, <1>6, <4>4
      <4>5. QED
        BY <2>1, <4>1, <4>2, <4>3, <4>4 DEF UnderWay
    <3>2. QED
      BY <3>1 DEF UnderWay
  <2>2. ASSUME NEW d \in DOMAIN calls
        PROVE  /\ calls'[d].at \in {"locked", "waiting"} => UnderWay(d)'
               /\ calls'[d].at \in {"set", "ended", "returned", "error"} =>
                      /\ calls'[d].reply \in DOMAIN objects' /\ IsReply(calls[d].reply, d)'
                      /\ calls'[d].at = "error" <=> (Outcome(calls[d])').kind = "exception"
               /\ calls'[d].at = "returned" => calls'[d].got = objects'[calls'[d].reply].data
    <3>1. /\ calls[d].at \in {"locked", "waiting"} => UnderWay(d)
          /\ calls[d].at \in {"set", "ended", "returned", "error"} =>
                 /\ calls[d].reply \in DOMAIN objects /\ IsReply(calls[d].reply, d)
                 /\ calls[d].at = "error" <=> Outcome(calls[d]).kind = "exception"
          /\ calls[d].at = "returned" => calls[d].got = objects[calls[d].reply].data
      BY <1>1 DEF CallsMade
    <3>2. calls'[d] = calls[d]
      BY <1>2
    <3>3. calls[d].reply \in DOMAIN objects /\ IsReply(calls[d].reply, d) =>
              /\ calls[d].reply # at /\ calls[d].reply \in DOMAIN objects'
              /\ objects'[calls[d].reply] = objects[calls[d].reply]
      BY <1>2, <1>6
    <3>4. QED
      BY <1>5, <2>1, <3>1, <3>2, <3>3
  <2>3. QED
    BY <1>2, <2>2 DEF CallsMade
<1>11. QED
  BY <1>7, <1>8, <1>9, <1>10 DEF CallInv

\* LocalMethod::handle publishes what the callback has made, or nothing.
LEMMA HandleRequestKeeps ==
    ASSUME CallInv, HandleRequest
    PROVE  CallInv'
<1>1. CallTyped /\ EntriesMade /\ ObjectsMade /\ CallsMade
  BY DEF CallInv
<1>2. PICK place : place = Head(serverQueue)
  OBVIOUS
<1> DEFINE request == objects[place]
           answer == callback.result[request.data]
           reply == ReplyEvent(request, answer)
           own == IF answer.kind = "request" THEN place ELSE Len(objects) + 1
           publishes == Publishes(reply, own, callerQueue, Tail(serverQueue))
<1>3. /\ serverQueue # <<>> /\ place \in DOMAIN objects
      /\ IsList(Tail(serverQueue))
      /\ Range(serverQueue) = {place} \cup Range(Tail(serverQueue))
  <2>1. serverQueue # <<>>
    BY DEF HandleRequest
  <2>2. QED
    BY <1>1, <1>2, <2>1, ListTail DEF CallTyped
<1>4. PICK c \in DOMAIN calls : IsRequest(place, c) \/ IsReply(place, c)
  BY <1>1, <1>3 DEF ObjectsMade
<1>5. CASE request.method = "REQUEST" /\ Expected(request) /\ CanPublish(reply)
  <2>1. /\ UNCHANGED <<callback, known, calls, inprogress>>
        /\ objects' = publishes.objects
        /\ callerQueue' = publishes.other /\ serverQueue' = publishes.own
    BY <1>2, <1>5 DEF HandleRequest
  <2>2. IsRequest(place, c)
    BY <1>4, <1>5 DEF IsReply
  <2>3. answer = Outcome(calls[c])
    BY <2>2 DEF Outcome, IsRequest
  <2>4. Expected(calls[c].argument)
    <3>1. request.type = calls[c].argument.type
      BY <2>2 DEF IsRequest
    <3>2. QED
      BY <1>5, <3>1 DEF Expected
  <2> DEFINE made == Outcome(calls[c])
  <2>5. /\ DOMAIN reply = EventFields
        /\ reply.method = "REPLY" /\ reply.id.sender = "server"
        /\ reply.causes = made.causes \cup {RequestId(c)}
        /\ HasInfo(reply, "rsb:error?") <=> made.kind = "exception"
        /\ reply.type = IF made.kind = "request" THEN calls[c].argument.type ELSE made.type
        /\ reply.data = IF made.kind = "request" THEN calls[c].argument.data ELSE made.data
    <3>1. reply = ReplyEvent(objects[place], Outcome(calls[c]))
      BY <2>3
    <3> HIDE DEF reply
    <3>2. QED
      BY <1>1, <2>2, <3>1, ReplyMade
  <2>6. reply.type \in ConvertedTypes => Kept(reply.type, reply.data)
    <3>1. made.kind # "request" =>
              (made.type \in ConvertedTypes => Kept(made.type, made.data))
      BY <1>1, Made
    <3>2. calls[c].argument \in Arguments
      BY <1>1 DEF CallTyped
    <3> HIDE DEF made, reply
    <3>3. QED
      BY <2>5, <3>1, <3>2, ArgumentsAssumption
  <2>7. PICK at : at = own
    OBVIOUS
  <2>8. /\ at \in 1..(Len(objects) + 1)
        /\ \/ at = place /\ Outcome(calls[c]).kind = "request"
           \/ at \notin DOMAIN objects
    <3>1. Len(objects) \in Nat /\ DOMAIN objects = 1..Len(objects)
      BY <1>1, ListIs DEF CallTyped
    <3>2. CASE answer.kind = "request"
      BY <1>3, <2>3, <2>7, <3>1, <3>2
    <3>3. CASE answer.kind # "request"
      BY <2>7, <3>1, <3>3
    <3>4. QED
      BY <3>2, <3>3
  <2>9. PICK new : /\ Put(reply, at, new)
                   /\ publishes.other = Append(callerQueue, new)
                   /\ publishes.own = IF SameProcess THEN Append(Tail(serverQueue), at)
                                      ELSE Tail(serverQueue)
    <3>1. known \in KnownTypes /\ IsList(objects)
      BY <1>1 DEF CallTyped
    <3>2. publishes = Publishes(reply, at, callerQueue, Tail(serverQueue))
      BY <2>7
    <3>3. CanPublish(reply) /\ objects' = publishes.objects
      BY <1>5, <2>1
    <3> HIDE DEF publishes, reply
    <3>4. QED
      BY <2>5, <2>6, <2>8, <3>1, <3>2, <3>3, Published
  <2> HIDE DEF publishes, reply, answer, own
  <2>10. Outcome(calls[c])' = Outcome(calls[c])
         /\ (Expected(calls[c].argument)' <=> Expected(calls[c].argument))
    BY <2>1, CallStays
  <2>11. ASSUME NEW x, Like(objects'[x], reply) PROVE IsReply(x, c)'
    BY <2>1, <2>4, <2>5, <2>10, <2>11 DEF IsReply, Like
  <2>12. IsReply(at, c)' /\ IsReply(new, c)'
    <3>1. Like(reply, reply)
      BY <2>5 DEF Like
    <3>2. Like(objects'[at], reply) /\ Like(objects'[new], reply)
      BY <2>9, <3>1 DEF Put
    <3>3. QED
      BY <2>11, <3>2
  <2>13. /\ IsList(objects') /\ DOMAIN objects' = DOMAIN objects \cup {at, new}
         /\ \A i \in DOMAIN objects : i # at => objects'[i] = objects[i]
         /\ IF SameProcess THEN new = at ELSE new \notin DOMAIN objects
    BY <2>9 DEF Put
  <2>14. Replied(c, place, at, new)
    BY <1>2, <1>3, <2>1, <2>2, <2>8, <2>9, <2>12, <2>13 DEF Replied
  <2>15. QED
    BY <2>14, RepliedKeeps
<1>6. CASE ~(request.method = "REQUEST" /\ Expected(request) /\ CanPublish(reply))
  <2>1. /\ UNCHANGED <<callback, known, calls, inprogress, objects, callerQueue, answers>>
        /\ serverQueue' = Tail(serverQueue)
    BY <1>2, <1>6 DEF HandleRequest
  <2>2. \A d \in DOMAIN calls : /\ Outcome(calls[d])' = Outcome(calls[d])
                                /\ Rewritten(d)' <=> Rewritten(d)
                                /\ CanPublish(calls[d].argument)' <=> CanPublish(calls[d].argument)
                                /\ Explained(d)' <=> Explained(d)
                                /\ \A i : /\ IsRequest(i, d)' <=> IsRequest(i, d)
                                          /\ IsReply(i, d)' <=> IsReply(i, d)
    BY <2>1, CallStays
  <2>3. ASSUME NEW d \in DOMAIN calls, IsRequest(place, d), calls[d].at # "refused"
        PROVE  Explained(d)
    <3> DEFINE made == Outcome(calls[d])
    <3>1. /\ request.method = "REQUEST" /\ request.type = calls[d].argument.type
          /\ answer = made
      BY <2>3 DEF IsRequest, Outcome
    <3>2. Expected(request) <=> Expected(calls[d].argument)
      BY <3>1 DEF Expected
    <3>3. reply.type = IF made.kind = "request" THEN calls[d].argument.type ELSE made.type
      <4>1. reply = ReplyEvent(objects[place], Outcome(calls[d]))
        BY <3>1
      <4> HIDE DEF reply
      <4>2. QED
        BY <1>1, <2>3, <4>1, ReplyMade
    <3>4. CanPublish(calls[d].argument)
      BY <1>1, <2>3 DEF CallTyped
    <3> HIDE DEF reply, request, answer, made
    <3>5. Expected(calls[d].argument) => ~CanPublish(reply)
      BY <1>6, <3>1, <3>2
    <3>6. CASE made.kind = "request"
      <4>1. CanPublish(reply)
        BY <3>3, <3>4, <3>6 DEF CanPublish
      <4>2. QED
        BY <3>5, <4>1 DEF Explained
    <3>7. CASE made.kind # "request"
      <4>1. CanPublish(reply) <=> CanPublish(made)
        BY <3>3, <3>7 DEF CanPublish
      <4>2. QED
        BY <3>5, <3>7, <4>1 DEF Explained, made
    <3>8. QED
      BY <3>6, <3>7
  <2> HIDE DEF publishes, reply, answer, request, own
  <2>4. CallTyped' /\ EntriesMade'
    <3>1. CallTyped'
      <4>1. /\ \A d \in DOMAIN calls :
                   CanPublish(calls[d].argument)' <=> CanPublish(calls[d].argument)
            /\ IsList(objects') /\ IsList(calls') /\ IsList(serverQueue') /\ IsList(callerQueue')
            /\ Range(callerQueue') \subseteq DOMAIN objects
            /\ Range(serverQueue') \subseteq DOMAIN objects
        BY <1>1, <1>3, <2>1, <2>2 DEF CallTyped
      <4>2. QED
        BY <1>1, <2>1, <4>1 DEF CallTyped
    <3>2. EntriesMade'
      BY <1>1, <2>1, <2>2 DEF EntriesMade
    <3>3. QED
      BY <3>1, <3>2
  <2>5. ObjectsMade'
    <3>1. SameProcess' <=> SameProcess
      BY <2>1 DEF SameProcess
    <3>2. Range(serverQueue') \subseteq Range(serverQueue)
      BY <1>3, <2>1
    <3>3. QED
      BY <1>1, <2>1, <2>2, <3>1, <3>2 DEF ObjectsMade
  <2>6. ASSUME NEW d \in DOMAIN calls, calls[d].at \in {"locked", "waiting"} PROVE UnderWay(d)'
    <3>1. UnderWay(d) /\ calls[d].at # "refused"
      BY <1>1, <2>6 DEF CallsMade
    <3>2. \/ Explained(d)
          \/ \E i \in Range(serverQueue') : IsRequest(i, d)
          \/ \E i \in Range(callerQueue) : IsReply(i, d)
      BY <1>3, <2>1, <2>3, <3>1 DEF UnderWay
    <3>3. QED
      BY <2>1, <2>2, <3>2 DEF UnderWay
  <2>7. CallsMade'
    BY <1>1, <2>1, <2>2, <2>6 DEF CallsMade
  <2>8. QED
    BY <2>4, <2>5, <2>7 DEF CallInv
<1>7. QED
  BY <1>5, <1>6

\* At first there is nothing.
LEMMA NoCallYet == CallInit => CallInv
<1> SUFFICES ASSUME CallInit PROVE CallInv
  OBVIOUS
<1>1. /\ callback \in Callbacks /\ known \in KnownTypes
      /\ objects = <<>> /\ calls = <<>> /\ serverQueue = <<>> /\ callerQueue = <<>>
      /\ inprogress = <<>>
  BY DEF CallInit
<1>2. IsList(<<>>) /\ Range(<<>>) = {} /\ DOMAIN <<>> = {}
  BY DEF IsList, Range
<1>3. CallTyped
  BY <1>1, <1>2 DEF CallTyped
<1>4. EntriesMade /\ ObjectsMade /\ CallsMade
  BY <1>1, <1>2 DEF EntriesMade, ObjectsMade, CallsMade
<1>5. QED
  BY <1>3, <1>4 DEF CallInv

\* What the calls, their entries and the events on their way have to do with
\* each other, at any time
LEMMA CallInductive == CallSpec => []CallInv
<1>1. CallInv /\ [CallNext]_callVars => CallInv'
  <2> SUFFICES ASSUME CallInv, [CallNext]_callVars PROVE CallInv'
    OBVIOUS
  <2>1. ASSUME NEW argument \in Arguments, PublishRequest(argument) PROVE CallInv'
    BY <2>1, PublishRequestKeeps
  <2>2. ASSUME NEW c \in DOMAIN calls, Register(c) PROVE CallInv'
    BY <2>2, RegisterKeeps
  <2>3. ASSUME NEW c \in DOMAIN calls, GetResult(c) \/ End(c) PROVE CallInv'
    BY <2>3, ResultKeeps
  <2>4. CASE HandleReply
    BY <2>4, HandleReplyKeeps
  <2>5. CASE HandleRequest
    BY <2>5, HandleRequestKeeps
  <2>6. CASE UNCHANGED callVars
    <3>1. UNCHANGED <<callback, known, objects, calls, serverQueue, callerQueue, inprogress>>
      BY <2>6 DEF callVars
    <3>2. CallTyped /\ EntriesMade /\ ObjectsMade /\ CallsMade
      BY DEF CallInv
    <3>3. \A d \in DOMAIN calls :
              /\ Outcome(calls[d])' = Outcome(calls[d])
              /\ Rewritten(d)' <=> Rewritten(d)
              /\ CanPublish(calls[d].argument)' <=> CanPublish(calls[d].argument)
              /\ Explained(d)' <=> Explained(d)
              /\ \A i : /\ IsRequest(i, d)' <=> IsRequest(i, d)
                        /\ IsReply(i, d)' <=> IsReply(i, d)
      BY <3>1, CallStays
    <3>4. CallTyped'
      BY <3>1, <3>2, <3>3 DEF CallTyped
    <3>5. EntriesMade' /\ ObjectsMade'
      <4>1. EntriesMade'
        BY <3>1, <3>2, <3>3 DEF EntriesMade
      <4>2. ObjectsMade'
        BY <3>1, <3>2, <3>3, SameProcessStays DEF ObjectsMade
      <4>3. QED
        BY <4>1, <4>2
    <3>6. CallsMade'
      <4>1. \A d \in DOMAIN calls : UnderWay(d)' <=> UnderWay(d)
        BY <3>1, <3>3 DEF UnderWay
      <4>2. QED
        BY <3>1, <3>2, <3>3, <4>1 DEF CallsMade
    <3>7. QED
      BY <3>4, <3>5, <3>6 DEF CallInv
  <2>7. QED
    BY <2>1, <2>2, <2>3, <2>4, <2>5, <2>6 DEF CallNext
<1>2. QED
  BY <1>1, NoCallYet, PTL DEF CallSpec

\* For any callbacks, arguments and converters that give back what they have been
\* given, and any number of calls: a call returns what the callback has made of
\* its own argument, fails only if it has thrown, and is without an answer only
\* for one of the reasons that the code has (LocalServer.cpp:94, RemoteServer.cpp:87,
\* RemoteServer.h:68).
THEOREM CallsAreAnswered == CallSpec => []CallsAnswered
<1>1. CallInv => CallsAnswered
  <2> SUFFICES ASSUME CallInv PROVE CallsAnswered
    OBVIOUS
  <2>1. CallTyped /\ EntriesMade /\ ObjectsMade /\ CallsMade
    BY DEF CallInv
  <2>2. ASSUME NEW c \in DOMAIN calls
        PROVE  LET call == calls[c]
                   made == Outcome(call) IN
               /\ call.at \in {"set", "ended", "returned", "error"} => Expected(call.argument)
               /\ call.at = "error" => made.kind = "exception" /\ objects[call.reply].type = "text"
               /\ call.at \in {"set", "ended", "returned"} => made.kind # "exception"
               /\ call.at = "returned" =>
                      call.got = IF made.kind = "request" THEN call.argument.data ELSE made.data
    <3> DEFINE call == calls[c]
               made == Outcome(call)
    <3>1. /\ call.at \in {"set", "ended", "returned", "error"} =>
                 IsReply(call.reply, c) /\ (call.at = "error" <=> made.kind = "exception")
          /\ call.at = "returned" => call.got = objects[call.reply].data
      BY <2>1 DEF CallsMade
    <3>2. IsReply(call.reply, c) =>
              /\ Expected(call.argument)
              /\ objects[call.reply].type = IF made.kind = "request" THEN call.argument.type
                                            ELSE made.type
              /\ objects[call.reply].data = IF made.kind = "request" THEN call.argument.data
                                            ELSE made.data
      BY DEF IsReply
    <3>3. made.kind = "exception" => made.type = "text"
      <4>1. made.kind = "exception" => made = Thrown
        BY <2>1, Made
      <4>2. Thrown.type = "text"
        BY DEF Thrown, Result
      <4>3. QED
        BY <4>1, <4>2
    <3> HIDE DEF call, made
    <3>4. /\ call.at \in {"set", "ended", "returned", "error"} => Expected(call.argument)
          /\ call.at = "error" => made.kind = "exception" /\ objects[call.reply].type = "text"
          /\ call.at \in {"set", "ended", "returned"} => made.kind # "exception"
          /\ call.at = "returned" =>
                 call.got = IF made.kind = "request" THEN call.argument.data ELSE made.data
      BY <3>1, <3>2, <3>3
    <3>5. QED
      BY <3>4 DEF call, made
  <2>3. AnsweredOrExplained
    <3> SUFFICES ASSUME serverQueue = <<>>, callerQueue = <<>>,
                        NEW c \in DOMAIN calls, calls[c].at = "waiting"
                 PROVE  Explained(c)
      BY DEF AnsweredOrExplained, Explained, RequestId
    <3>1. Range(serverQueue) = {} /\ Range(callerQueue) = {}
      BY DEF Range
    <3>2. UnderWay(c)
      BY <2>1 DEF CallsMade
    <3>3. QED
      BY <3>1, <3>2 DEF UnderWay
  <2>4. QED
    BY <2>2, <2>3 DEF CallsAnswered, CallIsApplication
<1>2. QED
  BY <1>1, CallInductive, PTL

-----------------------------------------------------------------------------
(* A collection of events, to a payload and back *)

\* An event that has been read back
ReadBack(e) == [e EXCEPT !.times = [t \in DOMAIN @ |-> IF @[t] = Unset THEN Now ELSE @[t]]]

EncodedSet(scope) ==
    [scope |-> scope, notifications |->
        [i \in DOMAIN collection[scope] |-> NotificationOf(collection[scope][i])]]

\* A scope that is not left has been encoded; a set is that of a scope; a scope
\* with events that is not among the sets any more is in the result.
MapInv ==
    /\ collection \in Collections /\ converters \in Repositories
    /\ phase \in {"encoding", "decoding", "done", "failed"}
    /\ left \subseteq DOMAIN collection /\ IsList(sets)
    /\ phase \in {"decoding", "done"} => left = {}
    /\ phase = "done" => sets = <<>>
    /\ \A scope \in DOMAIN collection \ left :
          \A i \in DOMAIN collection[scope] : Encodable(collection[scope][i])
    /\ \A set \in Range(sets) : \E scope \in DOMAIN collection \ left : set = EncodedSet(scope)
    /\ \A scope \in DOMAIN collection \ left :
          \/ scope \in DOMAIN result \/ collection[scope] = <<>>
          \/ EncodedSet(scope) \in Range(sets)
    /\ result = [scope \in DOMAIN result |-> result[scope]]
    /\ \A scope \in DOMAIN result :
          /\ scope \in DOMAIN collection /\ collection[scope] # <<>>
          /\ result[scope] = [i \in DOMAIN collection[scope] |-> ReadBack(collection[scope][i])]

\* The same converter is found for reading, and it gives back what was written.
LEMMA EventRead ==
    ASSUME collection \in Collections, converters \in Repositories,
           NEW scope \in DOMAIN collection, NEW i \in DOMAIN collection[scope],
           Encodable(collection[scope][i])
    PROVE  EventOf(NotificationOf(collection[scope][i])) = ReadBack(collection[scope][i])
<1> DEFINE e == collection[scope][i]
<1>1. e \in Range(collection[scope])
  BY DEF Range
<1>2. DOMAIN e = EventFields
  BY <1>1, CollectionsAssumption DEF IsEvent, EventFields
<1>3. /\ e.type \in {s[Type] : s \in converters}
      /\ Decoders[Encoders[e.type][Wire]][Type] = e.type
  <2>1. e.type \in DOMAIN Encoders
    BY DEF Encodable
  <2>2. Unambiguous(converters)
    BY RepositoriesAssumption
  <2> HIDE DEF e
  <2>3. QED
    BY <2>1, <2>2, OneConverter DEF Encoders, Decoders
<1>4. Deserialize(e.type, Serialize(e.type, e.data)) = e.data
  <2>1. Serializable(e.type) /\ e.type \in {s[Type] : s \in UNION Repositories}
    BY <1>3 DEF Encodable
  <2>2. Kept(e.type, e.data)
    BY <1>1, <2>1, PayloadsAssumption
  <2>3. QED
    BY <2>2 DEF Kept
<1> HIDE DEF e
<1> DEFINE n == NotificationOf(e)
<1>5. /\ n.id = e.id /\ n.scope = e.scope /\ n.method = e.method /\ n.causes = e.causes
      /\ n.infos = e.infos /\ n.times = e.times
      /\ n.schema = Encoders[e.type][Wire] /\ n.data = Serialize(e.type, e.data)
  BY DEF NotificationOf, FillNotification, EventToNotification
<1> HIDE DEF n
<1>6. EventOf(n) = [id |-> e.id, scope |-> e.scope, method |-> e.method, causes |-> e.causes,
                    type |-> e.type, data |-> e.data, infos |-> e.infos,
                    times |-> [t \in DOMAIN e.times |-> Time(e.times[t])]]
  BY <1>3, <1>4, <1>5 DEF EventOf, FillEvent
<1>7. ReadBack(e) = [e EXCEPT !.times = [t \in DOMAIN e.times |-> Time(e.times[t])]]
  BY <1>2 DEF ReadBack, Time, EventFields
<1>8. EventOf(n) = ReadBack(e)
  BY <1>2, <1>6, <1>7 DEF EventFields
<1>9. QED
  BY <1>8 DEF e, n

\* What the converters do is not changed by converting.
LEMMA ConvertersStay ==
    ASSUME UNCHANGED <<collection, converters>>
    PROVE  /\ \A e : Encodable(e)' <=> Encodable(e)
           /\ \A scope : EncodedSet(scope)' = EncodedSet(scope)
<1>1. Encoders' = Encoders
  BY DEF Encoders
<1>2. QED
  BY <1>1 DEF Encodable, EncodedSet, NotificationOf

\* A set is without notifications only for a scope without events.
LEMMA EmptySet ==
    ASSUME collection \in Collections, NEW scope \in DOMAIN collection
    PROVE  EncodedSet(scope).notifications = <<>> <=> collection[scope] = <<>>
<1> DEFINE events == collection[scope]
<1>1. events \in Seq(Range(events))
  BY CollectionsAssumption
<1> HIDE DEF events
<1>2. /\ DOMAIN events = 1..Len(events) /\ Len(events) \in Nat
      /\ events = <<>> <=> Len(events) = 0
  BY <1>1
<1> DEFINE encoded == [i \in 1..Len(events) |-> NotificationOf(events[i])]
<1>3. encoded = <<>> <=> Len(events) = 0
  <2>1. encoded \in Seq(Range(encoded)) /\ Len(encoded) = Len(events)
    BY <1>2 DEF Range
  <2>2. QED
    BY <1>2, <2>1
<1>4. EncodedSet(scope).notifications = encoded
  BY <1>2 DEF EncodedSet, events
<1>5. QED
  BY <1>2, <1>3, <1>4 DEF events

\* A set has been added to those that are encoded.
LEMMA EncodeKeeps ==
    ASSUME MapInv, NEW scope \in left, EncodeScope(scope)
    PROVE  MapInv'
<1>1. /\ UNCHANGED <<collection, converters, phase, result>> /\ phase = "encoding"
      /\ left' = left \ {scope} /\ sets' = Append(sets, EncodedSet(scope))
      /\ \A i \in DOMAIN collection[scope] : Encodable(collection[scope][i])
  BY DEF EncodeScope, EncodedSet
<1>2. /\ \A e : Encodable(e)' <=> Encodable(e)
      /\ \A s : EncodedSet(s)' = EncodedSet(s)
  BY <1>1, ConvertersStay
<1>3. IsList(sets') /\ Range(sets') = Range(sets) \cup {EncodedSet(scope)}
  BY <1>1, ListMore, ListAppend DEF MapInv
<1>4. /\ scope \in DOMAIN collection /\ left' \subseteq DOMAIN collection
      /\ DOMAIN collection \ left' = (DOMAIN collection \ left) \cup {scope}
  BY <1>1 DEF MapInv
<1>5. \A s \in DOMAIN collection \ left' :
          \A i \in DOMAIN collection[s] : Encodable(collection[s][i])
  BY <1>1, <1>4 DEF MapInv
<1>6. \A set \in Range(sets') : \E s \in DOMAIN collection \ left' : set = EncodedSet(s)
  BY <1>3, <1>4 DEF MapInv
<1>7. \A s \in DOMAIN collection \ left' :
          \/ s \in DOMAIN result \/ collection[s] = <<>> \/ EncodedSet(s) \in Range(sets')
  BY <1>3, <1>4 DEF MapInv
<1>8. QED
  BY <1>1, <1>2, <1>3, <1>4, <1>5, <1>6, <1>7 DEF MapInv

\* A set has been taken from them.
LEMMA DecodeKeeps ==
    ASSUME MapInv, DecodeScope
    PROVE  MapInv'
<1>1. /\ UNCHANGED <<collection, converters, phase, left>> /\ phase = "decoding"
      /\ sets # <<>> /\ sets' = Tail(sets)
  BY DEF DecodeScope
<1>2. /\ \A e : Encodable(e)' <=> Encodable(e)
      /\ \A s : EncodedSet(s)' = EncodedSet(s)
  BY <1>1, ConvertersStay
<1>3. IsList(sets') /\ Range(sets) = {Head(sets)} \cup Range(sets')
  BY <1>1, ListTail DEF MapInv
<1>4. PICK scope \in DOMAIN collection \ left : Head(sets) = EncodedSet(scope)
  BY <1>3 DEF MapInv
<1> DEFINE events == collection[scope]
           list == [i \in DOMAIN events |-> ReadBack(events[i])]
<1>5. CASE events = <<>>
  <2>1. result' = result
    BY <1>1, <1>4, <1>5, EmptySet DEF DecodeScope, MapInv
  <2>2. \A s \in DOMAIN collection \ left :
            \/ s \in DOMAIN result \/ collection[s] = <<>> \/ EncodedSet(s) \in Range(sets')
    <3> SUFFICES ASSUME NEW s \in DOMAIN collection \ left, s \notin DOMAIN result,
                        collection[s] # <<>>
                 PROVE  EncodedSet(s) \in Range(sets')
      OBVIOUS
    <3>1. EncodedSet(s) \in Range(sets) /\ EncodedSet(s).scope = s
      BY DEF MapInv, EncodedSet
    <3>2. EncodedSet(s) # Head(sets)
      BY <1>4, <1>5, <3>1 DEF EncodedSet
    <3>3. QED
      BY <1>3, <3>1, <3>2
  <2>3. QED
    BY <1>1, <1>2, <1>3, <2>1, <2>2 DEF MapInv
<1>6. CASE events # <<>>
  <2>1. result' = AddSet(result, EncodedSet(scope))
    BY <1>1, <1>4, <1>6, EmptySet DEF DecodeScope, MapInv
  <2>2. /\ EncodedSet(scope).scope = scope
        /\ DOMAIN EncodedSet(scope).notifications = DOMAIN events
        /\ \A i \in DOMAIN events :
               EventOf(EncodedSet(scope).notifications[i]) = ReadBack(events[i])
    <3>1. \A i \in DOMAIN events : EventOf(NotificationOf(events[i])) = ReadBack(events[i])
      BY <1>4, EventRead DEF MapInv
    <3>2. QED
      BY <3>1 DEF EncodedSet
  <2> HIDE DEF events
  <2>3. [i \in DOMAIN EncodedSet(scope).notifications |->
             EventOf(EncodedSet(scope).notifications[i])] = list
    BY <2>2
  <2> HIDE DEF list
  <2>4. result' = [s \in DOMAIN result \cup {scope} |->
                       IF s = scope THEN list ELSE result[s]]
    BY <2>1, <2>2, <2>3 DEF AddSet
  <2>5. /\ DOMAIN result' = DOMAIN result \cup {scope}
        /\ result' = [s \in DOMAIN result' |-> result'[s]]
        /\ result'[scope] = list
        /\ \A s \in DOMAIN result : s # scope => result'[s] = result[s]
    BY <2>4
  <2>6. \A s \in DOMAIN result' :
            /\ s \in DOMAIN collection /\ collection[s] # <<>>
            /\ result'[s] = [i \in DOMAIN collection[s] |-> ReadBack(collection[s][i])]
    BY <1>4, <1>6, <2>5 DEF MapInv, list, events
  <2>7. \A s \in DOMAIN collection \ left :
            \/ s \in DOMAIN result' \/ collection[s] = <<>> \/ EncodedSet(s) \in Range(sets')
    <3> SUFFICES ASSUME NEW s \in DOMAIN collection \ left, s \notin DOMAIN result',
                        collection[s] # <<>>
                 PROVE  EncodedSet(s) \in Range(sets')
      OBVIOUS
    <3>1. EncodedSet(s) \in Range(sets) /\ EncodedSet(s).scope = s /\ s # scope
      BY <2>5 DEF MapInv, EncodedSet
    <3>2. EncodedSet(s) # Head(sets)
      BY <1>4, <2>2, <3>1
    <3>3. QED
      BY <1>3, <3>1, <3>2
  <2>8. QED
    BY <1>1, <1>2, <1>3, <2>5, <2>6, <2>7 DEF MapInv
<1>7. QED
  BY <1>5, <1>6

\* What is still to be encoded, what has been and what has been read back, at
\* any time
LEMMA MapInductive == MapSpec => []MapInv
<1>1. MapInit => MapInv
  <2> SUFFICES ASSUME MapInit PROVE MapInv
    OBVIOUS
  <2>1. IsList(sets) /\ Range(sets) = {} /\ DOMAIN result = {}
    BY DEF MapInit, IsList, Range
  <2>2. result = [scope \in DOMAIN result |-> result[scope]]
    BY DEF MapInit
  <2>3. QED
    BY <2>1, <2>2 DEF MapInit, MapInv
<1>2. MapInv /\ [MapNext]_mapVars => MapInv'
  <2> SUFFICES ASSUME MapInv, [MapNext]_mapVars PROVE MapInv'
    OBVIOUS
  <2>1. ASSUME NEW scope \in left, EncodeScope(scope) PROVE MapInv'
    BY <2>1, EncodeKeeps
  <2>2. CASE DecodeScope
    BY <2>2, DecodeKeeps
  <2>3. ASSUME UNCHANGED <<collection, converters, left, sets, result>>,
               \/ phase' = phase
               \/ phase' = "failed"
               \/ phase' = "decoding" /\ left = {}
               \/ phase' = "done" /\ phase = "decoding" /\ sets = <<>>
        PROVE  MapInv'
    <3>1. /\ \A e : Encodable(e)' <=> Encodable(e)
          /\ \A s : EncodedSet(s)' = EncodedSet(s)
      BY <2>3, ConvertersStay
    <3>2. /\ phase' \in {"encoding", "decoding", "done", "failed"}
          /\ phase' \in {"decoding", "done"} => left = {}
          /\ phase' = "done" => sets = <<>>
      BY <2>3 DEF MapInv
    <3>3. QED
      BY <2>3, <3>1, <3>2 DEF MapInv
  <2>4. ASSUME NEW scope \in left, EncodeFails(scope) PROVE MapInv'
    BY <2>3, <2>4 DEF EncodeFails
  <2>5. CASE Send
    BY <2>3, <2>5 DEF Send
  <2>6. CASE Return
    BY <2>3, <2>6 DEF Return
  <2>7. CASE UNCHANGED mapVars
    BY <2>3, <2>7 DEF mapVars
  <2>8. QED
    BY <2>1, <2>2, <2>4, <2>5, <2>6, <2>7 DEF MapNext
<1>3. QED
  BY <1>1, <1>2, PTL DEF MapSpec

\* For any collection: what is read back is what was written, with everything
\* an event has, but that scopes without events are gone and that a time nobody
\* had set is that of reading (EventsByScopeMapConverter.cpp:75, MetaData.cpp:80).
THEOREM CollectionsSurvive == MapSpec => []CollectionSurvives
<1>1. MapInv => CollectionSurvives
  <2> SUFFICES ASSUME MapInv, phase = "done"
               PROVE  result = [scope \in {s \in DOMAIN collection : collection[s] # <<>>} |->
                                   [i \in DOMAIN collection[scope] |->
                                       ReadBack(collection[scope][i])]]
    BY DEF CollectionSurvives, ReadBack
  <2>1. left = {} /\ Range(sets) = {}
    BY DEF MapInv, Range
  <2>2. DOMAIN result = {s \in DOMAIN collection : collection[s] # <<>>}
    BY <2>1 DEF MapInv
  <2>3. QED
    BY <2>2 DEF MapInv
<1>2. QED
  BY <1>1, MapInductive, PTL

-----------------------------------------------------------------------------
(* An event on its way *)

\* What the configuration of a process has to do with its transports
ConfigMade ==
    /\ ConfigInv
    /\ repository \subseteq Registrable
    /\ "socket" \in DOMAIN registry => registry["socket"].remote = TRUE
    /\ \A t \in DOMAIN config.transports : \A n \in config.transports[t].converters :
          n[Type] \in Range(TypeNames)

\* What a participant was made with: converters are only added, those that the
\* configuration names are only dropped.
MadeWith(p) ==
    /\ stage = "ready"
    /\ p.known \subseteq repository /\ Named("socket") \subseteq p.named
    /\ \A n \in p.named : n[Type] \in Range(TypeNames)

Earlier(p, q) == p.known \subseteq q.known /\ q.named \subseteq p.named

InformerMade ==
    informer # NoOne =>
        /\ MadeWith(informer)
        /\ "socket" \in DOMAIN informer.connectors =>
              /\ ~Refused(informer.known, informer.named, Type)
              /\ informer.connectors["socket"] = ConvertersFor(informer.known, informer.named, Type)

ReceiverMade(l) ==
    LET r    == listeners[l]
        list == r.wish.converters IN
    r # NoOne =>
        /\ MadeWith(r)
        /\ r.wish \in Wishes \cup {NoWish}
        /\ "socket" \in DOMAIN r.connectors =>
              IF list = <<>>
              THEN /\ ~Refused(r.known, r.named, Wire)
                   /\ r.connectors["socket"] = ConvertersFor(r.known, r.named, Wire)
              ELSE r.connectors["socket"] = PredicateConverterList(list, Schemas)
        /\ informer # NoOne => Earlier(informer, r) \/ Earlier(r, informer)

ParticipantsMade ==
    /\ InformerMade
    /\ DOMAIN listeners = Listeners /\ \A l \in Listeners : ReceiverMade(l)

\* An event, or a notification, is the event of its number but for the payload.
SameHeader(e) ==
    LET original == Original(e) IN
    /\ e.id.number \in 0..(Len(published) - 1)
    /\ e.id = [sender |-> "informer", number |-> e.id.number]
    /\ e.scope = original.scope /\ e.method = original.method /\ e.causes = original.causes

IsObject(e) == e = [f \in EventFields |-> e[f]] /\ SameHeader(e)

\* The event that was published, for those who share the informer's object
Own(e) == e.type = Original(e).type /\ e.data = Original(e).data

\* The converter it was sent with
Sent(e) ==
    /\ informer # NoOne /\ "socket" \in DOMAIN informer.connectors
    /\ Finds(informer, Original(e).type) /\ Serializable(Original(e).type)

SentAs(e)   == Found(informer, Original(e).type)[Wire]
SentData(e) == Serialize(Original(e).type, Original(e).data)

\* What a receiver has made of it
Decoded(l, e) ==
    /\ Sent(e)
    /\ l \in Listeners /\ listeners[l] # NoOne
    /\ "socket" \in DOMAIN listeners[l].connectors
    /\ Finds(listeners[l], SentAs(e))
    /\ e.type = Found(listeners[l], SentAs(e))[Type]
    /\ e.data = Deserialize(e.type, SentData(e))

PublishedMade ==
    /\ IsList(published)
    /\ \A k \in DOMAIN published :
          /\ DOMAIN published[k] = EventFields
          /\ published[k].id = [sender |-> "informer", number |-> k - 1]
          /\ \E e \in Sendable : published[k].type = e.type /\ published[k].data = e.data

\* The informer's object is the first one of the event.
IsOurs(i) ==
    /\ i \in DOMAIN heap /\ heap[i].id.number = Len(published) - 1
    /\ \A j \in 1..(i - 1) : heap[j].id # heap[i].id

HeapMade ==
    /\ IsList(heap) /\ \A i \in DOMAIN heap : IsObject(heap[i])
    /\ published # <<>> => \E i \in DOMAIN heap : IsOurs(i) /\ Own(heap[i])

TodoMade ==
    /\ IsList(todo)
    /\ todo # <<>> => published # <<>> /\ informer # NoOne
    /\ \A t \in Range(todo) : t \in DOMAIN informer.connectors

QueueMade ==
    /\ DOMAIN queue = Listeners
    /\ \A l \in Listeners :
          /\ IsList(queue[l])
          /\ \A i \in Range(queue[l]) : i \in DOMAIN heap /\ (Own(heap[i]) \/ Decoded(l, heap[i]))

WireMade ==
    /\ IsList(wire)
    /\ \A n \in Range(wire) :
          SameHeader(n) /\ Sent(n) /\ n.schema = SentAs(n) /\ n.data = SentData(n)

HeardMade ==
    \A h \in heard : SameHeader(h.event) /\ (Own(h.event) \/ Decoded(h.by, h.event))

PathInv ==
    /\ ConfigMade /\ ParticipantsMade
    /\ PublishedMade /\ HeapMade /\ TodoMade /\ QueueMade /\ WireMade /\ HeardMade
    /\ NothingInTheWay

\* What is named for a key
LEMMA SelectionIs ==
    ASSUME NEW named, NEW k \in {Wire, Type}, NEW key \in DOMAIN Selection(named, k),
           \A n \in named : n[Type] \in Range(TypeNames)
    PROVE  \E n \in named : n[k] = key /\ n[Other(k)] = Selection(named, k)[key]
<1> DEFINE others == {s[Other(k)] : s \in {t \in named : t[k] = key}}
<1>1. key \in {s[k] : s \in named}
  BY DEF Selection
<1>2. others # {}
  BY <1>1
<1>3. CASE k = Type
  <2>1. Selection(named, k)[key] = CHOOSE w \in others : TRUE
    BY <1>1, <1>3 DEF Selection
  <2> HIDE DEF others
  <2>2. Selection(named, k)[key] \in others
    BY <1>2, <2>1
  <2>3. QED
    BY <2>2 DEF others
<1>4. CASE k = Wire
  <2> DEFINE P == {i \in DOMAIN TypeNames : TypeNames[i] \in others}
             last == CHOOSE i \in DOMAIN TypeNames :
                         /\ TypeNames[i] \in others
                         /\ \A j \in DOMAIN TypeNames : TypeNames[j] \in others => j <= i
  <2>1. Selection(named, k)[key] = TypeNames[last]
    BY <1>1, <1>4 DEF Selection, Wire, Type
  <2>2. Len(TypeNames) \in Nat /\ DOMAIN TypeNames = 1..Len(TypeNames)
    BY TypeNamesAssumption
  <2>3. P # {}
    <3>1. others \subseteq Range(TypeNames)
      BY <1>4 DEF Other, Wire, Type
    <3>2. PICK w \in others : w \in Range(TypeNames)
      BY <1>2, <3>1
    <3>3. QED
      BY <3>2 DEF Range
  <2> HIDE DEF others
  <2>4. \E i \in P : \A j \in P : j <= i
    BY <2>2, <2>3, LastPlace
  <2>5. \E i \in DOMAIN TypeNames :
            /\ TypeNames[i] \in others
            /\ \A j \in DOMAIN TypeNames : TypeNames[j] \in others => j <= i
    BY <2>4
  <2>6. TypeNames[last] \in others
    BY <2>5
  <2>7. QED
    BY <2>1, <2>6 DEF others
<1>5. QED
  BY <1>3, <1>4

\* What a connector's converters are
LEMMA FoundIs ==
    ASSUME NEW all, NEW named, NEW k, NEW key \in DOMAIN ConvertersFor(all, named, k)
    PROVE  LET c == ConvertersFor(all, named, k)[key] IN
           /\ c \in all /\ c[k] = key
           /\ key \in DOMAIN Selection(named, k) => c[Other(k)] = Selection(named, k)[key]
<1> DEFINE selection == Selection(named, k)
           found == Candidates(all, selection, k, key)
           keys == {s[k] : s \in {r \in all : Candidates(all, selection, k, r[k]) # {}}}
<1>1. ConvertersFor(all, named, k)
          = [x \in keys |-> CHOOSE s \in Candidates(all, selection, k, x) : TRUE]
  BY DEF ConvertersFor, Strategy
<1>2. key \in keys
  BY <1>1
<1>3. found # {}
  BY <1>2
<1>4. ConvertersFor(all, named, k)[key] = CHOOSE s \in found : TRUE
  BY <1>1, <1>2
<1> HIDE DEF keys
<1>5. PICK c : c = ConvertersFor(all, named, k)[key]
  OBVIOUS
<1>6. c \in found
  <2> HIDE DEF found
  <2>1. QED
    BY <1>3, <1>4, <1>5
<1>7. c \in all /\ c[k] = key /\ (key \in DOMAIN selection => c[Other(k)] = selection[key])
  BY <1>6 DEF Candidates
<1>8. QED
  BY <1>5, <1>7

\* A converter is not found only if another one is named.
LEMMA MissingIs ==
    ASSUME NEW all, NEW named, NEW k, NEW s \in all,
           s[k] \notin DOMAIN ConvertersFor(all, named, k)
    PROVE  s[k] \in DOMAIN Selection(named, k) /\ s[Other(k)] # Selection(named, k)[s[k]]
<1> DEFINE selection == Selection(named, k)
           keys == {r[k] : r \in {r \in all : Candidates(all, selection, k, r[k]) # {}}}
<1>1. DOMAIN ConvertersFor(all, named, k) = keys
  BY DEF ConvertersFor, Strategy
<1>2. Candidates(all, selection, k, s[k]) = {}
  BY <1>1
<1>3. QED
  BY <1>2 DEF Candidates

\* Two converters share a key only if one is named for it.
LEMMA OneCandidate ==
    ASSUME NEW all, NEW named, NEW k, ~Refused(all, named, k),
           NEW a \in all, NEW b \in all, a[k] = b[k], a # b
    PROVE  a[k] \in DOMAIN Selection(named, k)
<1> SUFFICES ASSUME a[k] \notin DOMAIN Selection(named, k) PROVE FALSE
  OBVIOUS
<1>1. a \in Candidates(all, Selection(named, k), k, a[k])
  BY DEF Candidates
<1>2. b \in Candidates(all, Selection(named, k), k, a[k])
  BY DEF Candidates
<1>3. Ambiguous(all, Selection(named, k), k)
  BY <1>1, <1>2 DEF Ambiguous
<1>4. QED
  BY <1>3 DEF Refused

\* A list of converters: the first that matches
LEMMA ListedIs ==
    ASSUME NEW list, list \in Seq(Range(list)), NEW keys,
           NEW key \in DOMAIN PredicateConverterList(list, keys)
    PROVE  \E w \in Range(list) :
               key \in w.predicate /\ PredicateConverterList(list, keys)[key] = w.converter
<1> DEFINE P == {i \in DOMAIN list : key \in list[i].predicate}
           first == CHOOSE i \in DOMAIN list : /\ key \in list[i].predicate
                                               /\ \A j \in 1..(i - 1) : key \notin list[j].predicate
<1>1. key \in {x \in keys : \E i \in DOMAIN list : x \in list[i].predicate}
  BY DEF PredicateConverterList
<1>2. PredicateConverterList(list, keys)[key] = list[first].converter
  BY <1>1 DEF PredicateConverterList
<1>3. P # {} /\ P \in SUBSET Nat
  BY <1>1
<1>4. PICK i \in P : \A j \in P : i <= j
  BY <1>3, LeastNatural
<1>5. \A j \in 1..(i - 1) : key \notin list[j].predicate
  <2> SUFFICES ASSUME NEW j \in 1..(i - 1), key \in list[j].predicate PROVE FALSE
    OBVIOUS
  <2>1. i \in 1..Len(list) /\ Len(list) \in Nat
    BY <1>4
  <2>2. j \in DOMAIN list /\ ~(i <= j)
    BY <2>1
  <2>3. QED
    BY <1>4, <2>2
<1>6. first \in DOMAIN list /\ key \in list[first].predicate
  BY <1>4, <1>5
<1>7. QED
  BY <1>2, <1>6 DEF Range

\* What the converters of bytes and of truth values do
LEMMA BytesAndBools ==
    /\ \A data : Deserialize("bytearray", data) = data
    /\ \A data : Deserializable("bool", Serialize("bool", data))
    /\ \A type, data : ~Deserializable(type, data) => type = "bool"
<1>1. \A data : Deserialize("bytearray", data) = data
  BY DEF Deserialize, FloatingPoint
<1>2. \A data : Serialize("bool", data) \in {<<0>>, <<1>>}
  BY DEF Serialize, FloatingPoint, Integer
<1>3. QED
  BY <1>1, <1>2 DEF Deserializable

\* The converter an event has been sent with
LEMMA SenderIs ==
    ASSUME ConfigMade, ParticipantsMade, NEW e, Sent(e)
    PROVE  LET c == Found(informer, Original(e).type) IN
           /\ c \in informer.known /\ c[Type] = Original(e).type
           /\ Original(e).type \in DOMAIN Selection(informer.named, Type) =>
                  c[Wire] = Selection(informer.named, Type)[Original(e).type]
           /\ informer.known \subseteq Registrable
<1>1. /\ informer.connectors["socket"] = ConvertersFor(informer.known, informer.named, Type)
      /\ informer.known \subseteq repository
  BY DEF ParticipantsMade, InformerMade, Sent, MadeWith
<1>2. PICK type : type = Original(e).type
  OBVIOUS
<1>3. type \in DOMAIN ConvertersFor(informer.known, informer.named, Type)
  BY <1>1, <1>2 DEF Sent, Finds
<1>4. LET c == ConvertersFor(informer.known, informer.named, Type)[type] IN
      /\ c \in informer.known /\ c[Type] = type
      /\ type \in DOMAIN Selection(informer.named, Type) =>
             c[Other(Type)] = Selection(informer.named, Type)[type]
  BY <1>3, FoundIs
<1>5. Other(Type) = Wire
  BY DEF Other, Type, Wire
<1>6. informer.known \subseteq Registrable
  BY <1>1 DEF ConfigMade
<1>7. QED
  BY <1>1, <1>2, <1>4, <1>5, <1>6 DEF Found

\* What comes out of the sender's converter can be turned back.
LEMMA SentKept ==
    ASSUME ConfigMade, ParticipantsMade, PublishedMade, NEW e, SameHeader(e), Sent(e)
    PROVE  Deserialize(Original(e).type, SentData(e)) = Original(e).data
<1>1. Original(e).type \in {s[Type] : s \in Registrable} /\ Serializable(Original(e).type)
  BY SenderIs DEF Sent
<1>2. e.id.number + 1 \in DOMAIN published
  BY ListIs DEF SameHeader, PublishedMade
<1>3. PICK s \in Sendable : Original(e).type = s.type /\ Original(e).data = s.data
  BY <1>2 DEF PublishedMade, Original
<1>4. Kept(Original(e).type, Original(e).data)
  BY <1>1, <1>3, SendableAssumption
<1>5. QED
  BY <1>4 DEF Kept, SentData

\* A receiver without a list of its own, that reads another type, has a converter
\* named for it, or none for the type that was sent.
LEMMA ReadOtherwise ==
    ASSUME ConfigMade, ParticipantsMade, NEW l, NEW e, Decoded(l, e),
           listeners[l].wish.converters = <<>>, e.type # Original(e).type,
           NEW s \in listeners[l].known, s[Type] = Original(e).type
    PROVE  \E n \in listeners[l].named : n[Type] = e.type
<1> DEFINE r == listeners[l]
           type == Original(e).type
           sender == Found(informer, type)
           schema == SentAs(e)
           reader == Found(r, schema)
<1>1. /\ ~Refused(r.known, r.named, Wire) /\ MadeWith(r)
      /\ r.connectors["socket"] = ConvertersFor(r.known, r.named, Wire)
      /\ Earlier(informer, r) \/ Earlier(r, informer)
  BY DEF ParticipantsMade, ReceiverMade, Decoded, Sent
<1>2. /\ informer.connectors["socket"] = ConvertersFor(informer.known, informer.named, Type)
      /\ ~Refused(informer.known, informer.named, Type) /\ MadeWith(informer)
  BY DEF ParticipantsMade, InformerMade, Decoded, Sent
<1>3. /\ sender \in informer.known /\ sender[Type] = type /\ sender[Wire] = schema
      /\ type \in DOMAIN Selection(informer.named, Type) =>
             schema = Selection(informer.named, Type)[type]
  BY SenderIs DEF Decoded, SentAs
<1>4. /\ reader \in r.known /\ reader[Wire] = schema /\ reader[Type] = e.type
      /\ schema \in DOMAIN Selection(r.named, Wire) =>
             e.type = Selection(r.named, Wire)[schema]
  <2>1. PICK key : key = SentAs(e)
    OBVIOUS
  <2>2. key \in DOMAIN ConvertersFor(r.known, r.named, Wire)
    BY <1>1, <2>1 DEF Decoded, Finds
  <2>3. LET c == ConvertersFor(r.known, r.named, Wire)[key] IN
        /\ c \in r.known /\ c[Wire] = key
        /\ key \in DOMAIN Selection(r.named, Wire) => c[Other(Wire)] = Selection(r.named, Wire)[key]
    BY <2>2, FoundIs
  <2>4. Other(Wire) = Type
    BY DEF Other, Type, Wire
  <2>5. e.type = ConvertersFor(r.known, r.named, Wire)[key][Type]
    BY <1>1, <2>1 DEF Decoded, Found
  <2>6. reader = ConvertersFor(r.known, r.named, Wire)[key]
    BY <1>1, <2>1 DEF Found
  <2>7. QED
    BY <2>1, <2>3, <2>4, <2>5, <2>6
<1> HIDE DEF r, type, sender, schema, reader
<1>5. Wire \in {Wire, Type} /\ Type \in {Wire, Type} /\ Other(Type) = Wire /\ Other(Wire) = Type
  BY DEF Other, Wire, Type
\* One is named for the schema.
<1>6. CASE schema \in DOMAIN Selection(r.named, Wire)
  <2>1. PICK n \in r.named : n[Wire] = schema /\ n[Other(Wire)] = Selection(r.named, Wire)[schema]
    BY <1>1, <1>5, <1>6, SelectionIs DEF MadeWith
  <2>2. QED
    BY <1>4, <1>5, <1>6, <2>1 DEF r
\* The sender's converter is known to the receiver: two have the schema.
<1>7. ASSUME sender \in r.known PROVE schema \in DOMAIN Selection(r.named, Wire)
  <2>1. sender # reader
    BY <1>3, <1>4 DEF type
  <2>2. QED
    BY <1>1, <1>3, <1>4, <1>7, <2>1, OneCandidate
\* It is not: the sender knows more, and two for the type.
<1>8. ASSUME sender \notin r.known PROVE schema \in DOMAIN Selection(r.named, Wire)
  <2>1. r.known \subseteq informer.known /\ informer.named \subseteq r.named
    BY <1>1, <1>3, <1>8 DEF Earlier
  <2>2. s \in informer.known /\ s # sender /\ s[Type] = sender[Type]
    BY <1>3, <1>8, <2>1 DEF r, type
  <2>3. type \in DOMAIN Selection(informer.named, Type)
    BY <1>2, <1>3, <2>2, OneCandidate
  <2>4. PICK n \in informer.named :
            n[Type] = type /\ n[Other(Type)] = Selection(informer.named, Type)[type]
    BY <1>2, <1>5, <2>3, SelectionIs DEF MadeWith
  <2>5. n \in r.named /\ n[Wire] = schema
    BY <1>3, <1>5, <2>1, <2>3, <2>4
  <2>6. DOMAIN Selection(r.named, Wire) = {m[Wire] : m \in r.named}
    BY DEF Selection
  <2>7. QED
    BY <2>5, <2>6
<1>9. QED
  BY <1>6, <1>7, <1>8

\* What has been read is what was sent, or not, for a reason (HeardAsSent).
LEMMA DecodedIs ==
    ASSUME ConfigMade, ParticipantsMade, PublishedMade,
           NEW l, NEW e, SameHeader(e), Decoded(l, e)
    PROVE  IF e.type = Original(e).type THEN e.data = Original(e).data
           ELSE \/ listeners[l].wish.converters # <<>> /\ e.data = SentData(e)
                \/ \E n \in listeners[l].named : n[Type] = e.type
                \/ \A s \in listeners[l].known : s[Type] # Original(e).type
<1>1. CASE e.type = Original(e).type
  BY <1>1, SentKept DEF Decoded
<1>2. CASE e.type # Original(e).type /\ listeners[l].wish.converters = <<>>
  BY <1>2, ReadOtherwise
<1>3. CASE e.type # Original(e).type /\ listeners[l].wish.converters # <<>>
  <2> DEFINE r == listeners[l]
             list == r.wish.converters
             schema == SentAs(e)
             sender == Found(informer, Original(e).type)
  <2>1. /\ r.wish \in Wishes \cup {NoWish}
        /\ r.connectors["socket"] = PredicateConverterList(list, Schemas)
    BY <1>3 DEF ParticipantsMade, ReceiverMade, Decoded
  <2>2. r.wish \in Wishes
    BY <1>3, <2>1 DEF NoWish
  <2>3. /\ list \in Seq(Range(list))
        /\ \A w \in Range(list) :
              \/ w.converter[Type] = "bytearray"
              \/ \A s \in Registrable : s[Wire] \in w.predicate => s = w.converter
    BY <1>3, <2>2, WishesAssumption
  <2>4. sender \in Registrable /\ sender[Wire] = schema /\ sender[Type] = Original(e).type
    BY SenderIs DEF Decoded, SentAs
  <2>5. PICK key : key = schema
    OBVIOUS
  <2>6. PICK read : read = PredicateConverterList(list, Schemas)[key]
    OBVIOUS
  <2>7. e.type = read[Type] /\ key \in DOMAIN PredicateConverterList(list, Schemas)
    BY <2>1, <2>5, <2>6 DEF Decoded, Found, Finds
  <2> HIDE DEF list
  <2>8. PICK w \in Range(list) : key \in w.predicate /\ read = w.converter
    BY <2>3, <2>6, <2>7, ListedIs
  <2>9. e.type = "bytearray"
    BY <1>3, <2>3, <2>4, <2>5, <2>7, <2>8
  <2>10. e.data = SentData(e)
    BY <2>9, BytesAndBools DEF Decoded
  <2>11. QED
    BY <1>3, <2>10
<1>4. QED
  BY <1>1, <1>2, <1>3

\* A sender fails because another converter is named, or cannot serialize.
LEMMA CannotSend ==
    ASSUME ConfigMade, ParticipantsMade, informer # NoOne,
           "socket" \in DOMAIN informer.connectors, NEW type, ~CanSend(type),
           NEW s \in informer.known, s[Type] = type
    PROVE  ~Serializable(type) \/ \E n \in informer.named : n[Type] = type /\ n # s
<1>1. /\ informer.connectors["socket"] = ConvertersFor(informer.known, informer.named, Type)
      /\ MadeWith(informer)
  BY DEF ParticipantsMade, InformerMade
<1>2. CASE Serializable(type)
  <2>1. s[Type] \notin DOMAIN ConvertersFor(informer.known, informer.named, Type)
    BY <1>1, <1>2 DEF CanSend, Finds
  <2>2. /\ type \in DOMAIN Selection(informer.named, Type)
        /\ s[Other(Type)] # Selection(informer.named, Type)[type]
    BY <2>1, MissingIs
  <2>3. PICK n \in informer.named :
            n[Type] = type /\ n[Other(Type)] = Selection(informer.named, Type)[type]
    BY <1>1, <2>2, SelectionIs DEF MadeWith
  <2>4. QED
    BY <2>2, <2>3
<1>3. QED
  BY <1>2

\* A receiver fails because another converter is named.
LEMMA CannotReceive ==
    ASSUME ConfigMade, ParticipantsMade, NEW l \in Listeners, Hears(l, "socket"),
           NEW e, Sent(e), NEW schema, schema = SentAs(e), ~CanReceive(l, schema, SentData(e)),
           NEW s \in listeners[l].known, s[Wire] = schema
    PROVE  \E n \in listeners[l].named : n[Wire] = schema /\ n # s
<1> DEFINE r == listeners[l]
           list == r.wish.converters
           sender == Found(informer, Original(e).type)
<1>1. /\ MadeWith(r) /\ r.wish \in Wishes \cup {NoWish}
      /\ IF list = <<>> THEN r.connectors["socket"] = ConvertersFor(r.known, r.named, Wire)
         ELSE r.connectors["socket"] = PredicateConverterList(list, Schemas)
  BY DEF ParticipantsMade, ReceiverMade, Hears
<1>2. sender \in Registrable /\ sender[Wire] = schema /\ sender[Type] = Original(e).type
  BY SenderIs DEF SentAs
<1>3. PICK read : read = Found(r, schema)
  OBVIOUS
<1>4. ASSUME Finds(r, schema), read \in Registrable, read[Wire] = schema PROVE FALSE
  <2>1. ~Deserializable(read[Type], SentData(e))
    BY <1>3, <1>4 DEF CanReceive
  <2>2. read[Type] = "bool"
    BY <2>1, BytesAndBools
  <2>3. read = sender
    BY <1>2, <1>4, <2>2, BoolsAssumption
  <2>4. QED
    BY <1>2, <2>1, <2>2, <2>3, BytesAndBools DEF SentData
<1>5. CASE list = <<>>
  <2>1. r.connectors["socket"] = ConvertersFor(r.known, r.named, Wire)
    BY <1>1, <1>5
  <2>2. CASE schema \in DOMAIN ConvertersFor(r.known, r.named, Wire)
    <3>1. LET c == ConvertersFor(r.known, r.named, Wire)[schema]
          IN  c \in r.known /\ c[Wire] = schema
      BY <2>2, FoundIs
    <3>2. read \in r.known /\ read[Wire] = schema
      BY <1>3, <2>1, <3>1 DEF Found
    <3>3. r.known \subseteq Registrable
      BY <1>1 DEF MadeWith, ConfigMade
    <3>4. QED
      BY <1>4, <2>1, <2>2, <3>2, <3>3 DEF Finds
  <2>3. CASE schema \notin DOMAIN ConvertersFor(r.known, r.named, Wire)
    <3>1. /\ schema \in DOMAIN Selection(r.named, Wire)
          /\ s[Other(Wire)] # Selection(r.named, Wire)[schema]
      <4>1. s \in r.known /\ s[Wire] \notin DOMAIN ConvertersFor(r.known, r.named, Wire)
        BY <2>3
      <4>2. /\ s[Wire] \in DOMAIN Selection(r.named, Wire)
            /\ s[Other(Wire)] # Selection(r.named, Wire)[s[Wire]]
        BY <4>1, MissingIs
      <4> QED
        BY <4>2
    <3>2. PICK n \in r.named : n[Wire] = schema /\ n[Other(Wire)] = Selection(r.named, Wire)[schema]
      <4>1. \A n \in r.named : n[Type] \in Range(TypeNames)
        BY <1>1 DEF MadeWith
      <4> QED
        BY <3>1, <4>1, SelectionIs
    <3>3. QED
      BY <3>1, <3>2
  <2>4. QED
    BY <2>2, <2>3
<1>6. CASE list # <<>>
  <2>1. r.wish \in Wishes
    BY <1>1, <1>6 DEF NoWish
  <2>2. /\ list \in Seq(Range(list))
        /\ Schemas \subseteq UNION {w.predicate : w \in Range(list)}
        /\ \A w \in Range(list) :
              \/ w.converter[Type] = "bytearray"
              \/ \A t \in Registrable : t[Wire] \in w.predicate => t = w.converter
    BY <1>6, <2>1, WishesAssumption
  <2>3. r.connectors["socket"] = PredicateConverterList(list, Schemas)
    BY <1>1, <1>6
  <2> HIDE DEF list
  <2>4. schema \in Schemas
    BY <1>2 DEF Schemas
  <2>5. \E i \in DOMAIN list : schema \in list[i].predicate
    BY <2>2, <2>4 DEF Range
  <2>6. schema \in DOMAIN PredicateConverterList(list, Schemas)
    BY <2>4, <2>5 DEF PredicateConverterList
  <2>7. PICK w \in Range(list) :
            schema \in w.predicate /\ PredicateConverterList(list, Schemas)[schema] = w.converter
    BY <2>2, <2>6, ListedIs
  <2>8. read = w.converter /\ Finds(r, schema)
    BY <1>3, <2>3, <2>6, <2>7 DEF Found, Finds
  <2>9. CASE w.converter[Type] = "bytearray"
    BY <1>3, <2>8, <2>9, BytesAndBools DEF CanReceive
  <2>10. CASE \A t \in Registrable : t[Wire] \in w.predicate => t = w.converter
    <3>1. read = sender
      BY <1>2, <2>7, <2>8, <2>10
    <3>2. QED
      BY <1>2, <1>4, <2>8, <3>1
  <2>11. QED
    BY <2>2, <2>9, <2>10
<1>7. QED
  BY <1>5, <1>6

-----------------------------------------------------------------------------
(* What becomes of the configuration, with participants or without *)

\* The transports of a configuration name no converters that it did not name.
NamesFewer(T) ==
    \A t \in DOMAIN T : /\ t \in DOMAIN config.transports \/ T[t].converters = {}
                        /\ t \in DOMAIN config.transports =>
                               T[t].converters \subseteq config.transports[t].converters

\* What the program does names no converters.
LEMMA ReconfiguredNames ==
    ASSUME ConfigMade, Reconfigure
    PROVE  NamesFewer(config'.transports)
<1>1. /\ IsFields(config)
      /\ \A t \in DOMAIN config.transports : IsTransport(config.transports[t])
  BY DEF ConfigMade, ConfigInv, TypedConfig, IsConfig
<1>2. \A T : [config EXCEPT !.transports = T].transports = T
  BY <1>1 DEF IsFields, ConfigFields
<1>3. config'.transports = config.transports => NamesFewer(config'.transports)
  BY DEF NamesFewer
<1>4. ASSUME NEW t, NEW value, SetEnabled(t, value) PROVE NamesFewer(config'.transports)
  <2> DEFINE x == [config.transports[t] EXCEPT !.options = With(@, "enabled", value)]
             T == [config.transports EXCEPT ![t] = x]
  <2>1. t \in DOMAIN config.transports /\ config' = [config EXCEPT !.transports = T]
    BY <1>4 DEF SetEnabled, SetDefaultConfig
  <2>2. x.converters = config.transports[t].converters
    BY <1>1, <2>1 DEF IsTransport
  <2> HIDE DEF x
  <2>3. NamesFewer(T)
    BY <2>1, <2>2 DEF NamesFewer
  <2> HIDE DEF T
  <2>4. config'.transports = T
    BY <1>2, <2>1
  <2>5. QED
    BY <2>3, <2>4
<1>5. ASSUME NEW t, NEW enabled \in BOOLEAN, AddTransport(t, enabled)
      PROVE  NamesFewer(config'.transports)
  <2> DEFINE x == NewTransport(enabled)
             T == With(config.transports, t, x)
  <2>1. config' = [config EXCEPT !.transports = T]
    BY <1>5 DEF AddTransport, SetDefaultConfig
  <2>2. x.converters = {}
    BY DEF NewTransport
  <2> HIDE DEF x
  <2>3. NamesFewer(T)
    BY <2>2 DEF NamesFewer, With
  <2> HIDE DEF T
  <2>4. config'.transports = T
    BY <1>2, <2>1
  <2>5. QED
    BY <2>3, <2>4
<1>6. ASSUME NEW t, RemoveTransport(t) PROVE NamesFewer(config'.transports)
  <2> DEFINE T == [u \in DOMAIN config.transports \ {t} |-> config.transports[u]]
  <2>1. config' = [config EXCEPT !.transports = T]
    BY <1>6 DEF RemoveTransport, SetDefaultConfig
  <2>2. NamesFewer(T)
    BY DEF NamesFewer
  <2> HIDE DEF T
  <2>3. config'.transports = T
    BY <1>2, <2>1
  <2>4. QED
    BY <2>2, <2>3
<1>7. QED
  BY <1>1, <1>3, <1>4, <1>5, <1>6, SettingsLeave DEF Reconfigure

\* An option names types that there are.
LEMMA HandledNames ==
    ASSUME ConfigMade, NEW o \in Options, HandleTransport(o)
    PROVE  \A t \in DOMAIN config'.transports : \A n \in config'.transports[t].converters :
               n[Type] \in Range(TypeNames)
<1>1. /\ IsFields(config)
      /\ \A t \in DOMAIN config.transports : /\ IsTransport(config.transports[t])
                                             /\ \A n \in config.transports[t].converters :
                                                   n[Type] \in Range(TypeNames)
  BY DEF ConfigMade, ConfigInv, TypedConfig, IsConfig
<1> DEFINE s == o.key[2]
           k == SubSeq(o.key, 3, Len(o.key))
           transport == IF s \in DOMAIN config.transports THEN config.transports[s]
                        ELSE NewTransport(TRUE)
           w == WithOption(transport, k, o.value)
           T == With(config.transports, s, w)
<1>2. config' = [config EXCEPT !.transports = T]
  BY Zenon DEF HandleTransport
<1>3. IsTransport(transport) /\ \A n \in transport.converters : n[Type] \in Range(TypeNames)
  <2>1. CASE s \in DOMAIN config.transports
    BY <1>1, <2>1
  <2>2. CASE s \notin DOMAIN config.transports
    <3>1. IsTransport(NewTransport(TRUE)) /\ NewTransport(TRUE).converters = {}
      BY New DEF NewTransport
    <3>2. QED
      BY <2>2, <3>1
  <2>3. QED
    BY <2>1, <2>2
<1>4. o.key \in Seq(Words) /\ Len(o.key) \in Nat
  BY AnOption
<1>5. Len(k) = 3 => Len(o.key) = 5
  BY <1>4
<1> HIDE DEF transport, k
<1>6. \A n \in w.converters : n[Type] \in Range(TypeNames)
  <2>1. CASE k[1] = "converter" /\ Len(k) = 3 /\ k[2] = "cpp"
    <3>1. w = [transport EXCEPT !.converters = @ \cup {<<k[3], o.value>>}]
      BY <2>1 DEF WithOption
    <3>2. w.converters = transport.converters \cup {<<k[3], o.value>>}
      BY <1>3, <3>1 DEF IsTransport
    <3>3. o.value \in Range(TypeNames)
      BY <1>5, <2>1, TypeNamesAssumption
    <3>4. QED
      BY <1>3, <3>2, <3>3 DEF Type
  <2>2. CASE ~(k[1] = "converter" /\ Len(k) = 3 /\ k[2] = "cpp")
    <3>1. w = transport \/ w = [transport EXCEPT !.options = With(@, k[1], o.value)]
      BY <2>2 DEF WithOption
    <3>2. w.converters = transport.converters
      BY <1>3, <3>1 DEF IsTransport
    <3>3. QED
      BY <1>3, <3>2
  <2>3. QED
    BY <2>1, <2>2
<1> HIDE DEF w
<1>7. config'.transports = T
  <2> HIDE DEF T
  <2>1. QED
    BY <1>1, <1>2 DEF IsFields, ConfigFields
<1>8. QED
  BY <1>1, <1>6, <1>7 DEF With

\* The configuration at any time; once there are participants the repository only
\* grows, and no converters are named any more.
LEMMA ConfigMadeKept ==
    ASSUME ConfigMade, [ConfigNext]_configVars
    PROVE  /\ ConfigMade'
           /\ repository \subseteq repository'
           /\ stage = "ready" => stage' = "ready" /\ Named("socket")' \subseteq Named("socket")
<1>1. ConfigInv'
  BY ConfigKept DEF ConfigMade
<1>2. repository' \subseteq Registrable /\ repository \subseteq repository'
  BY DEF ConfigMade, ConfigNext, configVars, LoadPlugin, RegisterConverter, SetUp, HandleSetting,
         HandleIntrospection, HandleTransport, HandleGlobal, Handle, Refuse, Complete, Reconfigure,
         SetEnabled, AddTransport, RemoveTransport, SetSetting, SetIsIntrospectionEnabled,
         SetDefaultConfig, Registrable
<1>3. registry' = registry \/ \E p \in Plugins : LoadPlugin(p)
  BY DEF ConfigNext, configVars, RegisterConverter, SetUp, HandleSetting,
         HandleIntrospection, HandleTransport, HandleGlobal, Handle, Refuse, Complete, Reconfigure,
         SetEnabled, AddTransport, RemoveTransport, SetSetting, SetIsIntrospectionEnabled,
         SetDefaultConfig
<1>4. "socket" \in DOMAIN registry' => registry'["socket"].remote = TRUE
  <2>1. ASSUME NEW p \in Plugins, LoadPlugin(p)
        PROVE  "socket" \in DOMAIN registry' => registry'["socket"].remote = TRUE
    <3>1. p.name # "socket"
      BY NamesAssumption
    <3>2. /\ DOMAIN registry' = DOMAIN registry \cup {p.name}
          /\ \A t \in DOMAIN registry : t # p.name => registry'[t] = registry[t]
      BY <2>1 DEF LoadPlugin, With
    <3>3. QED
      BY <3>1, <3>2 DEF ConfigMade
  <2>2. QED
    BY <1>3, <2>1 DEF ConfigMade
<1>5. \/ config'.transports = config.transports
      \/ Reconfigure
      \/ SetUp
      \/ \E o \in Options : HandleTransport(o)
  <2>1. CASE UNCHANGED configVars
    BY <2>1 DEF configVars
  <2>2. CASE \E p \in Plugins : LoadPlugin(p)
    BY <2>2 DEF LoadPlugin
  <2>3. CASE \E s \in OtherConverters : RegisterConverter(s)
    BY <2>3 DEF RegisterConverter
  <2>4. CASE Complete
    BY <2>4 DEF Complete
  <2>5. CASE \E o \in Options : Refuse(o)
    BY <2>5 DEF Refuse
  <2>6. IsFields(config)
    BY DEF ConfigMade, ConfigInv, TypedConfig
  <2>7. QED
    BY <2>1, <2>2, <2>3, <2>4, <2>5, <2>6, SettingsLeave DEF ConfigNext
<1>6. ASSUME NamesFewer(config'.transports)
      PROVE  /\ Named("socket")' \subseteq Named("socket")
             /\ \A t \in DOMAIN config'.transports : \A n \in config'.transports[t].converters :
                    n[Type] \in Range(TypeNames)
  BY <1>6 DEF NamesFewer, Named, ConfigMade
<1>7. ASSUME Named("socket")' \subseteq Named("socket"),
              \A t \in DOMAIN config'.transports : \A n \in config'.transports[t].converters :
                  n[Type] \in Range(TypeNames)
       PROVE  /\ ConfigMade'
              /\ stage = "ready" => stage' = "ready" /\ Named("socket")' \subseteq Named("socket")
  <2>1. stage = "ready" => stage' = "ready"
    BY DEF ConfigNext, configVars, LoadPlugin, RegisterConverter, SetUp, HandleSetting,
         HandleIntrospection, HandleTransport, HandleGlobal, Handle, Refuse, Complete, Reconfigure,
         SetEnabled, AddTransport, RemoveTransport, SetSetting, SetIsIntrospectionEnabled,
         SetDefaultConfig
  <2>2. QED
    BY <1>1, <1>2, <1>4, <1>7, <2>1 DEF ConfigMade
<1>8. CASE config'.transports = config.transports
  <2>1. NamesFewer(config'.transports)
    BY <1>8 DEF NamesFewer
  <2>2. QED
    BY <1>2, <1>6, <1>7, <2>1
<1>9. CASE Reconfigure
  <2>1. NamesFewer(config'.transports)
    BY <1>9, ReconfiguredNames
  <2>2. QED
    BY <1>2, <1>6, <1>7, <2>1
<1>10. CASE SetUp
  <2>1. stage = "plugins" /\ config' = [FreshConfig EXCEPT !.transports =
                                [t \in AvailableTransports |-> NewTransport(t = "socket")]]
    BY <1>10 DEF SetUp
  <2>2. config'.transports = [t \in AvailableTransports |-> NewTransport(t = "socket")]
    BY <2>1, Fresh DEF IsFields, ConfigFields
  <2>3. \A t \in DOMAIN config'.transports : config'.transports[t].converters = {}
    BY <2>2 DEF NewTransport
  <2>4. QED
    BY <1>1, <1>2, <1>4, <2>1, <2>3 DEF ConfigMade
<1>11. CASE \E o \in Options : HandleTransport(o)
  <2>1. stage = "options"
    BY <1>11 DEF HandleTransport, Handle
  <2>2. \A t \in DOMAIN config'.transports : \A n \in config'.transports[t].converters :
            n[Type] \in Range(TypeNames)
    BY <1>11, HandledNames
  <2>3. QED
    BY <1>1, <1>2, <1>4, <2>1, <2>2 DEF ConfigMade
<1>12. QED
  BY <1>5, <1>8, <1>9, <1>10, <1>11

-----------------------------------------------------------------------------
(* What becomes of an event *)

IsRecord(e) == e = [f \in EventFields |-> e[f]]

\* The same event, at other times
Restamped(e, s) == IsRecord(s) /\ \A f \in EventFields \ {"times"} : s[f] = e[f]

LEMMA StampsLeave ==
    ASSUME NEW e, IsRecord(e)
    PROVE  /\ Restamped(e, e)
           /\ \A time : Restamped(e, Stamped(e, time))
           /\ \A l : Restamped(e, Arrived(l, e))
<1>1. \A d : IsRecord(d) => \A time : Restamped(d, Stamped(d, time))
  BY DEF IsRecord, Restamped, Stamped, EventFields
<1>2. Restamped(e, e)
  BY DEF Restamped
<1>3. \A l : Restamped(e, Arrived(l, e))
  <2>1. \A d : Restamped(e, d) => Restamped(e, Stamped(d, "delivered"))
    BY <1>1 DEF Restamped
  <2>2. Restamped(e, Stamped(e, "received"))
    BY <1>1
  <2>3. QED
    BY <2>1, <2>2 DEF Arrived
<1>4. QED
  BY <1>1, <1>2, <1>3

\* What the sender puts on the bus
LEMMA EncodedIs ==
    ASSUME NEW e, IsRecord(e)
    PROVE  /\ IsRecord(Encoded(e))
           /\ \A f \in EventFields \ {"data", "infos"} : Encoded(e)[f] = e[f]
           /\ Encoded(e).data = Serialize(e.type, e.data)
           /\ Info(Encoded(e), "rsb.wire-schema") = Found(informer, e.type)[Wire]
<1> DEFINE data == Serialize(e.type, e.data)
           schema == Found(informer, e.type)[Wire]
           d == [e EXCEPT !.data = data]
<1>1. Encoded(e) = WithInfo(d, "rsb.wire-schema", schema)
  BY DEF Encoded
<1> HIDE DEF data, schema
<1>2. IsRecord(d) /\ d.data = data /\ \A f \in EventFields \ {"data"} : d[f] = e[f]
  BY DEF IsRecord, EventFields
<1> HIDE DEF d
<1>3. DEFINE infos == [k \in DOMAIN d.infos \cup {"rsb.wire-schema"} |->
                          IF k = "rsb.wire-schema" THEN schema ELSE d.infos[k]]
<1>4. WithInfo(d, "rsb.wire-schema", schema) = [d EXCEPT !.infos = infos]
  BY DEF WithInfo
<1>5. infos["rsb.wire-schema"] = schema
  OBVIOUS
<1> HIDE DEF infos
<1>6. LET b == [d EXCEPT !.infos = infos] IN
      IsRecord(b) /\ b.infos = infos /\ \A f \in EventFields \ {"infos"} : b[f] = d[f]
  BY <1>2 DEF IsRecord, EventFields
<1>7. QED
  BY <1>1, <1>2, <1>4, <1>5, <1>6 DEF EventFields, Info, data, schema

\* What a receiver makes of an encoded event
LEMMA ReceivedIs ==
    ASSUME NEW e, IsRecord(e), NEW l
    PROVE  LET schema == Info(e, "rsb.wire-schema")
               type   == Found(listeners[l], schema)[Type] IN
           /\ IsRecord(Received(l, e))
           /\ \A f \in EventFields \ {"type", "data", "times"} : Received(l, e)[f] = e[f]
           /\ Received(l, e).type = type /\ Received(l, e).data = Deserialize(type, e.data)
<1> DEFINE type == Found(listeners[l], Info(e, "rsb.wire-schema"))[Type]
           data == Deserialize(type, e.data)
           c == Converted(e, type, data)
<1>1. Received(l, e) = Arrived(l, c)
  BY DEF Received
<1> HIDE DEF type, data
<1>2. /\ IsRecord(c) /\ c.type = type /\ c.data = data
      /\ \A f \in EventFields \ {"type", "data"} : c[f] = e[f]
  BY DEF IsRecord, EventFields, Converted
<1> HIDE DEF c
<1>3. Restamped(c, Arrived(l, c))
  BY <1>2, StampsLeave
<1>4. /\ IsRecord(Arrived(l, c))
      /\ \A f \in EventFields \ {"type", "data", "times"} : Arrived(l, c)[f] = e[f]
      /\ Arrived(l, c).type = type /\ Arrived(l, c).data = data
  BY <1>2, <1>3 DEF Restamped, EventFields
<1>5. QED
  BY <1>1, <1>4 DEF type, data

\* The notification of an event
LEMMA NotificationIs ==
    ASSUME NEW e, NEW schema, NEW data
    PROVE  LET n == EventToNotification(e, schema, data) IN
           /\ n.id = e.id /\ n.scope = e.scope /\ n.method = e.method /\ n.causes = e.causes
           /\ n.schema = schema /\ n.data = data
  BY DEF EventToNotification

\* The event of a notification
LEMMA NotifiedIs ==
    ASSUME NEW n
    PROVE  LET e == NotificationToEvent(n) IN
           /\ IsRecord(e)
           /\ e.id = n.id /\ e.scope = n.scope /\ e.method = n.method /\ e.causes = n.causes
           /\ e.data = n.data /\ Info(e, "rsb.wire-schema") = n.schema
<1> DEFINE stamps == [NoTimes EXCEPT !.created = Time(n.times.created),
                                     !.sent = Time(n.times.sent), !.received = Now]
           d == [id |-> n.id, scope |-> n.scope, method |-> n.method, causes |-> n.causes,
                 type |-> "", data |-> n.data, infos |-> n.infos, times |-> stamps]
           infos == [k \in DOMAIN d.infos \cup {"rsb.wire-schema"} |->
                        IF k = "rsb.wire-schema" THEN n.schema ELSE d.infos[k]]
<1>1. NotificationToEvent(n) = [d EXCEPT !.infos = infos]
  BY DEF NotificationToEvent, WithInfo
<1>2. infos["rsb.wire-schema"] = n.schema
  OBVIOUS
<1> HIDE DEF infos, stamps
<1>3. LET e == [d EXCEPT !.infos = infos] IN
      /\ IsRecord(e)
      /\ e.id = n.id /\ e.scope = n.scope /\ e.method = n.method /\ e.causes = n.causes
      /\ e.data = n.data /\ e.infos = infos
  BY DEF IsRecord, EventFields
<1> HIDE DEF d
<1>4. QED
  BY <1>1, <1>2, <1>3 DEF Info

\* The informer's object of the event that is being sent
LEMMA OursIs ==
    ASSUME PublishedMade, HeapMade, published # <<>>
    PROVE  /\ Ours \in DOMAIN heap /\ heap[Ours].id.number = Len(published) - 1
           /\ SameHeader(heap[Ours]) /\ Own(heap[Ours]) /\ IsRecord(heap[Ours])
           /\ \A i : IsOurs(i) => i = Ours
<1>1. PICK i : IsOurs(i) /\ Own(heap[i])
  BY DEF HeapMade
<1>2. IsOurs(Ours)
  BY <1>1 DEF Ours, IsOurs
<1>3. \A j : IsOurs(j) => j = i
  <2> SUFFICES ASSUME NEW j, IsOurs(j) PROVE j = i
    OBVIOUS
  <2>1. i \in 1..Len(heap) /\ j \in 1..Len(heap) /\ Len(heap) \in Nat
    BY <1>1, ListIs DEF IsOurs, HeapMade
  <2>2. heap[i].id = heap[j].id
    <3>1. ASSUME NEW k \in DOMAIN heap, heap[k].id.number = Len(published) - 1
          PROVE  heap[k].id = [sender |-> "informer", number |-> Len(published) - 1]
      BY <3>1 DEF HeapMade, IsObject, SameHeader
    <3>2. QED
      BY <1>1, <3>1 DEF IsOurs
  <2>3. ~(i < j) /\ ~(j < i)
    BY <1>1, <2>1, <2>2 DEF IsOurs
  <2>4. QED
    BY <2>1, <2>3
<1>4. Ours = i
  BY <1>2, <1>3
<1>5. QED
  BY <1>1, <1>3, <1>4 DEF IsOurs, HeapMade, IsObject, IsRecord

-----------------------------------------------------------------------------
(* What stays true of events, whatever happens *)

\* Nothing published is forgotten, no participant is made twice.
Continued ==
    /\ IsList(published') /\ Len(published) <= Len(published')
    /\ \A k \in DOMAIN published : published'[k] = published[k]
    /\ informer # NoOne => informer' = informer
    /\ \A l \in Listeners : listeners[l] # NoOne => listeners'[l] = listeners[l]

\* Objects stay where they are, and get time stamps.
HeapStays ==
    /\ IsList(heap') /\ Len(heap) <= Len(heap')
    /\ \A i \in DOMAIN heap : Restamped(heap[i], heap'[i])

LEMMA StaysTrue ==
    ASSUME PublishedMade, Continued, NEW e, SameHeader(e)
    PROVE  /\ Original(e)' = Original(e) /\ SameHeader(e)'
           /\ Own(e) => Own(e)'
           /\ Sent(e) => Sent(e)' /\ SentAs(e)' = SentAs(e) /\ SentData(e)' = SentData(e)
           /\ \A l : Decoded(l, e) => Decoded(l, e)'
<1>1. Len(published) \in Nat /\ DOMAIN published = 1..Len(published) /\ Len(published') \in Nat
  BY ListIs DEF PublishedMade, Continued
<1>2. e.id.number \in 0..(Len(published) - 1)
  BY DEF SameHeader
<1>3. /\ e.id.number + 1 \in DOMAIN published
      /\ e.id.number \in 0..(Len(published') - 1)
  BY <1>1, <1>2 DEF Continued
<1>4. Original(e)' = Original(e)
  BY <1>3 DEF Continued, Original
<1>5. SameHeader(e)'
  BY <1>3, <1>4 DEF SameHeader
<1>6. Own(e) => Own(e)'
  BY <1>4 DEF Own
<1>7. ASSUME Sent(e) PROVE Sent(e)' /\ SentAs(e)' = SentAs(e) /\ SentData(e)' = SentData(e)
  <2>1. informer' = informer /\ informer # NoOne
    BY <1>7 DEF Sent, Continued
  <2>2. SentAs(e)' = SentAs(e) /\ SentData(e)' = SentData(e)
    BY <1>4, <2>1 DEF SentAs, SentData, Found
  <2>3. Sent(e)'
    BY <1>4, <1>7, <2>1 DEF Sent, Finds
  <2>4. QED
    BY <2>2, <2>3
<1>8. ASSUME NEW l, Decoded(l, e) PROVE Decoded(l, e)'
  <2>1. Sent(e)' /\ SentAs(e)' = SentAs(e) /\ SentData(e)' = SentData(e)
    BY <1>7, <1>8 DEF Decoded
  <2>2. listeners'[l] = listeners[l]
    BY <1>8 DEF Decoded, Continued
  <2>3. QED
    BY <1>8, <2>1, <2>2 DEF Decoded, Finds, Found
<1>9. QED
  BY <1>4, <1>5, <1>6, <1>7, <1>8

LEMMA SameWhenRestamped ==
    ASSUME NEW e, NEW s, Restamped(e, s)
    PROVE  /\ Original(s) = Original(e) /\ s.id = e.id
           /\ SameHeader(e) => SameHeader(s)
           /\ Own(e) => Own(s)
           /\ \A l : Decoded(l, e) => Decoded(l, s)
<1>1. /\ s.id = e.id /\ s.scope = e.scope /\ s.method = e.method /\ s.causes = e.causes
      /\ s.type = e.type /\ s.data = e.data
  BY DEF Restamped, EventFields
<1>2. Original(s) = Original(e)
  BY <1>1 DEF Original
<1>3. SameHeader(e) => SameHeader(s)
  BY <1>1, <1>2 DEF SameHeader
<1>4. Own(e) => Own(s)
  BY <1>1, <1>2 DEF Own
<1>5. \A l : Decoded(l, e) => Decoded(l, s)
  <2>1. (Sent(e) => Sent(s)) /\ SentAs(e) = SentAs(s) /\ SentData(e) = SentData(s)
    BY <1>2 DEF Sent, SentAs, SentData
  <2>2. QED
    BY <1>1, <2>1 DEF Decoded
<1>6. QED
  BY <1>1, <1>2, <1>3, <1>4, <1>5

\* Both of it, for an object of the heap
LEMMA ObjectStays ==
    ASSUME PublishedMade, HeapMade, Continued, HeapStays, NEW i \in DOMAIN heap
    PROVE  /\ i \in DOMAIN heap'
           /\ IsObject(heap[i])' /\ heap'[i].id = heap[i].id
           /\ Own(heap[i]) => Own(heap[i])'
           /\ \A l : Decoded(l, heap[i]) => Decoded(l, heap[i])'
<1>1. i \in DOMAIN heap'
  BY ListIs DEF HeapMade, HeapStays
<1>2. PICK s : s = heap'[i]
  OBVIOUS
<1>3. PICK e : e = heap[i]
  OBVIOUS
<1>4. Restamped(e, s) /\ SameHeader(e) /\ IsRecord(s) /\ s.id = e.id
  BY <1>2, <1>3, SameWhenRestamped DEF HeapStays, HeapMade, IsObject, Restamped
<1>5. /\ SameHeader(s) /\ (Own(e) => Own(s))
      /\ \A l : Decoded(l, e) => Decoded(l, s)
  BY <1>4, SameWhenRestamped
<1>6. /\ SameHeader(s)' /\ (Own(e) => Own(s)')
      /\ \A l : Decoded(l, e) => Decoded(l, s)'
  BY <1>5, StaysTrue
<1>7. IsObject(heap[i])'
  <2>1. IsObject(s)'
    BY <1>4, <1>6 DEF IsObject, IsRecord
  <2>2. QED
    BY <1>2, <2>1 DEF IsObject, SameHeader, Original
<1>8. Own(heap[i]) => Own(heap[i])'
  BY <1>2, <1>3, <1>6 DEF Own, Original
<1>9. ASSUME NEW l, Decoded(l, heap[i]) PROVE Decoded(l, heap[i])'
  <2>1. Decoded(l, s)'
    BY <1>3, <1>6, <1>9
  <2>2. QED
    BY <1>2, <2>1 DEF Decoded, Sent, SentAs, SentData, Original
<1>10. QED
  BY <1>1, <1>2, <1>3, <1>4, <1>7, <1>8, <1>9

\* The heap, while nothing is published
LEMMA HeapKept ==
    ASSUME PublishedMade, HeapMade, Continued, HeapStays, published' = published,
           \A i \in DOMAIN heap' \ DOMAIN heap : IsObject(heap[i])'
    PROVE  HeapMade'
<1>1. \A i \in DOMAIN heap' : IsObject(heap[i])'
  BY ObjectStays
<1>2. ASSUME published # <<>> PROVE \E i \in DOMAIN heap' : IsOurs(i)' /\ Own(heap[i])'
  <2>1. PICK i \in DOMAIN heap : IsOurs(i) /\ Own(heap[i])
    BY <1>2 DEF HeapMade
  <2>2. Own(heap[i])' /\ i \in DOMAIN heap' /\ heap'[i].id = heap[i].id
    BY <2>1, ObjectStays
  <2>3. \A j \in 1..(i - 1) : j \in DOMAIN heap /\ heap'[j].id = heap[j].id
    <3>1. DOMAIN heap = 1..Len(heap) /\ Len(heap) \in Nat
      BY ListIs DEF HeapMade
    <3>2. \A j \in 1..(i - 1) : j \in DOMAIN heap
      BY <2>1, <3>1
    <3>3. QED
      BY <3>2, ObjectStays
  <2>4. IsOurs(i)'
    BY <2>1, <2>2, <2>3 DEF IsOurs
  <2>5. QED
    BY <2>2, <2>4
<1>3. QED
  BY <1>1, <1>2 DEF HeapMade, HeapStays

LEMMA QueueKept ==
    ASSUME PublishedMade, HeapMade, QueueMade, Continued, HeapStays,
           DOMAIN queue' = Listeners,
           \A l \in Listeners :
              /\ IsList(queue'[l])
              /\ \A i \in Range(queue'[l]) \ Range(queue[l]) :
                    i \in DOMAIN heap' /\ (Own(heap[i])' \/ Decoded(l, heap[i])')
    PROVE  QueueMade'
<1> SUFFICES ASSUME NEW l \in Listeners, NEW i \in Range(queue[l])
             PROVE  i \in DOMAIN heap' /\ (Own(heap[i])' \/ Decoded(l, heap[i])')
  BY DEF QueueMade
<1>1. i \in DOMAIN heap /\ (Own(heap[i]) \/ Decoded(l, heap[i]))
  BY DEF QueueMade
<1>2. QED
  BY <1>1, ObjectStays

IsMessage(n) == SameHeader(n) /\ Sent(n) /\ n.schema = SentAs(n) /\ n.data = SentData(n)

LEMMA WireKept ==
    ASSUME PublishedMade, WireMade, Continued, IsList(wire'),
           \A n \in Range(wire') \ Range(wire) : IsMessage(n)'
    PROVE  WireMade'
<1> SUFFICES ASSUME NEW n \in Range(wire) PROVE IsMessage(n)'
  BY DEF WireMade, IsMessage
<1>1. IsMessage(n)
  BY DEF WireMade, IsMessage
<1>2. QED
  BY <1>1, StaysTrue DEF IsMessage

LEMMA HeardKept ==
    ASSUME PublishedMade, HeardMade, Continued,
           \A h \in heard' \ heard :
              SameHeader(h.event)' /\ (Own(h.event)' \/ Decoded(h.by, h.event)')
    PROVE  HeardMade'
<1> SUFFICES ASSUME NEW h \in heard
             PROVE  SameHeader(h.event)' /\ (Own(h.event)' \/ Decoded(h.by, h.event)')
  BY DEF HeardMade
<1>1. PICK e : e = h.event
  OBVIOUS
<1>2. PICK l : l = h.by
  OBVIOUS
<1>3. SameHeader(e) /\ (Own(e) \/ Decoded(l, e))
  BY <1>1, <1>2 DEF HeardMade
<1>4. SameHeader(e)' /\ (Own(e)' \/ Decoded(l, e)')
  BY <1>3, StaysTrue
<1>5. QED
  BY <1>1, <1>2, <1>4

\* The participants that there are, while the configuration changes
LEMMA ParticipantsKept ==
    ASSUME ConfigMade, ParticipantsMade, [ConfigNext]_configVars, UNCHANGED <<informer, listeners>>
    PROVE  ParticipantsMade'
<1>1. \A p : MadeWith(p) => MadeWith(p)'
  <2> SUFFICES ASSUME NEW p, MadeWith(p) PROVE MadeWith(p)'
    OBVIOUS
  <2>1. /\ stage' = "ready" /\ repository \subseteq repository'
        /\ Named("socket")' \subseteq Named("socket")
    BY ConfigMadeKept DEF MadeWith
  <2>2. QED
    BY <2>1 DEF MadeWith
<1>2. InformerMade'
  BY <1>1 DEF ParticipantsMade, InformerMade
<1>3. \A l \in Listeners : ReceiverMade(l)'
  BY <1>1 DEF ParticipantsMade, ReceiverMade
<1>4. QED
  BY <1>2, <1>3 DEF ParticipantsMade

-----------------------------------------------------------------------------
(* The steps *)

LEMMA ConnectedAs ==
    ASSUME ConfigMade, NEW direction \in Directions, NEW list, Creatable(direction, list),
           "socket" \in DOMAIN ConnectorsFor(direction, list)
    PROVE  /\ list = <<>> => ~Refused(repository, Named("socket"), Key(direction))
           /\ direction = "out" => ConnectorsFor(direction, list)["socket"]
                                       = ConvertersFor(repository, Named("socket"), Type)
           /\ direction = "in-pull" => ConnectorsFor(direction, list)["socket"]
                                           = ConvertersFor(repository, Named("socket"), Wire)
           /\ direction = "in-push" => ConnectorsFor(direction, list)["socket"]
                                           = InPushConverters("socket", list)
<1>1. "socket" \in EnabledTransports
  BY DEF ConnectorsFor
<1>2. "socket" \in DOMAIN registry
  BY <1>1 DEF Creatable
<1>3. IsRemote("socket")
  BY <1>2 DEF ConfigMade, IsRemote
<1>4. list = <<>> => ~Refused(repository, Named("socket"), Key(direction))
  BY <1>1, <1>3, Zenon DEF Creatable
<1>5. CASE direction = "out"
  <2>1. ConnectorsFor(direction, list)["socket"] = OutConverters("socket")
    BY <1>1, <1>3, <1>5 DEF ConnectorsFor
  <2>2. QED
    BY <1>4, <1>5, <2>1 DEF OutConverters
<1>6. CASE direction = "in-pull"
  <2>1. ConnectorsFor(direction, list)["socket"] = InPullConverters("socket")
    BY <1>1, <1>3, <1>6 DEF ConnectorsFor
  <2>2. QED
    BY <1>4, <1>6, <2>1 DEF InPullConverters
<1>7. CASE direction = "in-push"
  <2>1. ConnectorsFor(direction, list)["socket"] = InPushConverters("socket", list)
    BY <1>1, <1>3, <1>7 DEF ConnectorsFor
  <2>2. QED
    BY <1>4, <1>7, <2>1
<1>8. QED
  BY <1>5, <1>6, <1>7 DEF Directions

\* What a participant is made with
LEMMA MadeNow ==
    ASSUME ConfigMade, stage = "ready", NEW p, p.known = repository, p.named = Named("socket")
    PROVE  MadeWith(p)
<1>1. \A n \in Named("socket") : n[Type] \in Range(TypeNames)
  BY DEF ConfigMade, Named
<1>2. QED
  BY <1>1 DEF MadeWith

\* What has been published, is on the wire and has been heard
LEMMA PastKept ==
    ASSUME PathInv, Continued
    PROVE  /\ published' = published => PublishedMade'
           /\ wire' = wire => WireMade'
           /\ heard' = heard => HeardMade'
           /\ failures' = failures => NothingInTheWay'
<1>1. published' = published => PublishedMade'
  BY DEF PathInv, PublishedMade
<1>2. ASSUME wire' = wire PROVE WireMade'
  <2>1. IsList(wire') /\ Range(wire') \ Range(wire) = {}
    BY <1>2 DEF PathInv, WireMade
  <2>2. QED
    BY <2>1, WireKept DEF PathInv
<1>3. heard' = heard => HeardMade'
  BY HeardKept DEF PathInv
<1>4. failures' = failures => NothingInTheWay'
  BY DEF PathInv, NothingInTheWay
<1>5. QED
  BY <1>1, <1>2, <1>3, <1>4

\* What is under way is untouched by new participants.
LEMMA RestKept ==
    ASSUME PathInv, Continued, UNCHANGED <<heap, wire, queue, published, heard, failures>>
    PROVE  /\ PublishedMade' /\ HeapMade' /\ QueueMade' /\ WireMade' /\ HeardMade'
           /\ NothingInTheWay'
<1>1. HeapStays
  <2>1. IsList(heap) /\ Len(heap) \in Nat /\ heap' = heap
    BY ListIs DEF PathInv, HeapMade
  <2>2. \A i \in DOMAIN heap : Restamped(heap[i], heap[i])
    BY StampsLeave DEF PathInv, HeapMade, IsObject, IsRecord
  <2>3. QED
    BY <2>1, <2>2 DEF HeapStays
<1>2. HeapMade'
  BY <1>1, HeapKept DEF PathInv
<1>3. QueueMade'
  <2>1. DOMAIN queue' = Listeners /\ \A l \in Listeners : IsList(queue'[l])
    BY DEF PathInv, QueueMade
  <2>2. \A l \in Listeners : Range(queue'[l]) \ Range(queue[l]) = {}
    OBVIOUS
  <2>3. QED
    BY <1>1, <2>1, <2>2, QueueKept DEF PathInv
<1>4. QED
  BY <1>2, <1>3, PastKept

LEMMA InformerCreated ==
    ASSUME PathInv, NEW i, CreateInformerBase(i)
    PROVE  PathInv'
<1>1. PICK connectors : connectors = ConnectorsFor("out", <<>>)
  OBVIOUS
<1>2. PICK new : new = [scope |-> i.scope, type |-> i.type, connectors |-> connectors,
                        known |-> repository, named |-> Named("socket")]
  OBVIOUS
<1>3. /\ stage = "ready" /\ informer = NoOne /\ Creatable("out", <<>>) /\ informer' = new
      /\ UNCHANGED <<configVars, listeners, heap, todo, wire, queue, published, heard, failures>>
  BY <1>1, <1>2 DEF CreateInformerBase, histories
<1>4. UNCHANGED <<stage, registry, repository, config, given>> /\ ConfigMade
  BY <1>3 DEF configVars, PathInv
<1>5. ConfigMade'
  BY <1>3, <1>4, ConfigMadeKept
<1>6. /\ new.connectors = connectors /\ new.known = repository /\ new.named = Named("socket")
      /\ MadeWith(new)
  BY <1>2, <1>3, <1>4, MadeNow
<1>7. "socket" \in DOMAIN connectors =>
          /\ ~Refused(repository, Named("socket"), Type)
          /\ connectors["socket"] = ConvertersFor(repository, Named("socket"), Type)
  BY <1>1, <1>3, <1>4, ConnectedAs DEF Key, Directions
<1>8. \A p : MadeWith(p) => MadeWith(p)'
  BY <1>4 DEF MadeWith, Named
<1>9. InformerMade'
  BY <1>3, <1>6, <1>7, <1>8 DEF InformerMade
<1>10. ASSUME NEW l \in Listeners PROVE ReceiverMade(l)'
  <2>1. ReceiverMade(l)
    BY DEF PathInv, ParticipantsMade
  <2>2. ASSUME listeners[l] # NoOne PROVE Earlier(listeners[l], new)
    BY <1>6, <2>1, <2>2 DEF ReceiverMade, MadeWith, Earlier
  <2>3. QED
    BY <1>3, <1>8, <2>1, <2>2 DEF ReceiverMade, Earlier
<1>11. ParticipantsMade'
  BY <1>3, <1>9, <1>10 DEF ParticipantsMade, PathInv
<1>12. Continued
  BY <1>3 DEF Continued, PathInv, PublishedMade
<1>13. PublishedMade' /\ HeapMade' /\ QueueMade' /\ WireMade' /\ HeardMade' /\ NothingInTheWay'
  BY <1>3, <1>12, RestKept
<1>14. TodoMade'
  <2>1. todo = <<>> /\ IsList(todo)
    BY <1>3 DEF PathInv, TodoMade
  <2>2. Range(todo) = {}
    BY <2>1 DEF Range
  <2>3. QED
    BY <1>3, <2>1, <2>2 DEF TodoMade
<1>15. QED
  BY <1>5, <1>11, <1>13, <1>14 DEF PathInv

LEMMA ReceiverCreated ==
    ASSUME PathInv, NEW l \in Listeners, NEW direction \in {"in-push", "in-pull"}, NEW wish,
           IF direction = "in-push" THEN wish \in Wishes ELSE wish = NoWish,
           MakeReceiver(l, direction, wish)
    PROVE  PathInv'
<1>1. PICK connectors : connectors = ConnectorsFor(direction, wish.converters)
  OBVIOUS
<1>2. PICK new : new = [direction |-> direction, wish |-> wish, known |-> repository,
                        named |-> Named("socket"), connectors |-> connectors]
  OBVIOUS
<1>3. /\ stage = "ready" /\ listeners[l] = NoOne /\ Creatable(direction, wish.converters)
      /\ listeners' = [listeners EXCEPT ![l] = new]
      /\ UNCHANGED <<configVars, informer, heap, todo, wire, queue, published, heard, failures>>
  BY <1>1, <1>2 DEF MakeReceiver, histories
<1>4. UNCHANGED <<stage, registry, repository, config, given>> /\ ConfigMade
  BY <1>3 DEF configVars, PathInv
<1>5. ConfigMade'
  BY <1>3, <1>4, ConfigMadeKept
<1>6. DOMAIN listeners = Listeners /\ listeners'[l] = new
      /\ \A m \in Listeners \ {l} : listeners'[m] = listeners[m]
  BY <1>3 DEF PathInv, ParticipantsMade
<1>7. /\ new.connectors = connectors /\ new.wish = wish
      /\ new.known = repository /\ new.named = Named("socket")
      /\ MadeWith(new)
  BY <1>2, <1>3, <1>4, MadeNow
<1>8. direction = "in-pull" => wish.converters = <<>>
  BY DEF NoWish
<1>9. "socket" \in DOMAIN connectors =>
          IF wish.converters = <<>>
          THEN /\ ~Refused(repository, Named("socket"), Wire)
               /\ connectors["socket"] = ConvertersFor(repository, Named("socket"), Wire)
          ELSE connectors["socket"] = PredicateConverterList(wish.converters, Schemas)
  <2> HAVE "socket" \in DOMAIN connectors
  <2>1. Key(direction) = Wire /\ direction \in Directions
    BY DEF Key, Directions
  <2>2. wish.converters = <<>> => ~Refused(repository, Named("socket"), Wire)
    BY <1>1, <1>3, <1>4, <2>1, ConnectedAs
  <2>3. CASE direction = "in-pull"
    <3>1. connectors["socket"] = ConvertersFor(repository, Named("socket"), Wire)
      BY <1>1, <1>3, <1>4, <2>1, <2>3, ConnectedAs
    <3>2. QED
      BY <1>8, <2>2, <2>3, <3>1
  <2>4. CASE direction = "in-push"
    <3>1. connectors["socket"] = InPushConverters("socket", wish.converters)
      BY <1>1, <1>3, <1>4, <2>1, <2>4, ConnectedAs
    <3>2. QED
      BY <2>2, <3>1 DEF InPushConverters
  <2>5. QED
    BY <2>3, <2>4
<1>10. \A p : MadeWith(p) => MadeWith(p)'
  BY <1>4 DEF MadeWith, Named
<1>11. InformerMade'
  BY <1>3, <1>10 DEF PathInv, ParticipantsMade, InformerMade
<1>12. informer # NoOne => Earlier(informer, new)
  BY <1>7 DEF PathInv, ParticipantsMade, InformerMade, MadeWith, Earlier
<1>13. ReceiverMade(l)'
  BY <1>3, <1>6, <1>7, <1>9, <1>10, <1>12 DEF ReceiverMade, Earlier
<1>14. ASSUME NEW m \in Listeners \ {l} PROVE ReceiverMade(m)'
  <2>1. ReceiverMade(m)
    BY DEF PathInv, ParticipantsMade
  <2>2. QED
    BY <1>3, <1>6, <1>10, <2>1 DEF ReceiverMade, Earlier
<1>15. ParticipantsMade'
  <2>1. DOMAIN listeners' = Listeners
    BY <1>3, <1>6
  <2>2. QED
    BY <1>11, <1>13, <1>14, <2>1 DEF ParticipantsMade
<1>16. Continued
  BY <1>3, <1>6 DEF Continued, PathInv, PublishedMade
<1>17. PublishedMade' /\ HeapMade' /\ QueueMade' /\ WireMade' /\ HeardMade' /\ NothingInTheWay'
  BY <1>3, <1>16, RestKept
<1>18. TodoMade'
  BY <1>3 DEF PathInv, TodoMade
<1>19. QED
  BY <1>5, <1>15, <1>17, <1>18 DEF PathInv

\* The process, and its program, change the configuration.
LEMMA ConfigurationChanged ==
    ASSUME PathInv, [ConfigNext]_configVars, UNCHANGED dataVars
    PROVE  PathInv'
<1>1. UNCHANGED <<informer, listeners, heap, todo, wire, queue, published, heard, failures>>
  BY DEF dataVars
<1>2. ConfigMade' /\ ParticipantsMade'
  BY <1>1, ConfigMadeKept, ParticipantsKept DEF PathInv
<1>3. Continued
  BY <1>1 DEF Continued, PathInv, PublishedMade
<1>4. PublishedMade' /\ HeapMade' /\ QueueMade' /\ WireMade' /\ HeardMade' /\ NothingInTheWay'
  BY <1>1, <1>3, RestKept
<1>5. TodoMade'
  BY <1>1 DEF PathInv, TodoMade
<1>6. QED
  BY <1>2, <1>4, <1>5 DEF PathInv

\* What a step changes if it neither makes participants nor changes the configuration
LEMMA PathKept ==
    ASSUME PathInv, UNCHANGED <<configVars, informer, listeners>>,
           PublishedMade', HeapMade', QueueMade', WireMade', HeardMade', TodoMade',
           NothingInTheWay'
    PROVE  PathInv'
<1>1. [ConfigNext]_configVars
  OBVIOUS
<1>2. ConfigMade' /\ ParticipantsMade'
  BY <1>1, ConfigMadeKept, ParticipantsKept DEF PathInv
<1>3. QED
  BY <1>2 DEF PathInv

\* A list of one, and one after another
LEMMA SingleIs ==
    ASSUME NEW x, NEW s, s = <<x>>
    PROVE  IsList(s) /\ Range(s) = {x}
<1>1. DOMAIN s = 1..1 /\ s[1] = x /\ Len(s) = 1
  OBVIOUS
<1>2. Range(s) = {x}
  BY <1>1 DEF Range
<1>3. s \in Seq({x})
  OBVIOUS
<1>4. QED
  BY <1>2, <1>3 DEF IsList

LEMMA BothAre ==
    ASSUME NEW a, IsList(a), NEW b, IsList(b)
    PROVE  IsList(a \o b) /\ Range(a \o b) = Range(a) \cup Range(b)
<1> DEFINE S == Range(a) \cup Range(b)
<1>1. a \in Seq(S) /\ b \in Seq(S)
  BY DEF IsList
<1>2. /\ a \o b \in Seq(S) /\ Len(a) \in Nat /\ Len(b) \in Nat
      /\ DOMAIN a = 1..Len(a) /\ DOMAIN b = 1..Len(b)
      /\ DOMAIN (a \o b) = 1..(Len(a) + Len(b))
      /\ \A i \in 1..Len(a) : (a \o b)[i] = a[i]
      /\ \A i \in 1..Len(b) : (a \o b)[Len(a) + i] = b[i]
  <2> HIDE DEF S
  <2>1. QED
    BY <1>1
<1>3. S \subseteq Range(a \o b)
  <2>1. \A i \in 1..Len(a) : i \in DOMAIN (a \o b)
    BY <1>2
  <2>2. \A i \in 1..Len(b) : Len(a) + i \in DOMAIN (a \o b)
    BY <1>2
  <2>3. QED
    BY <1>2, <2>1, <2>2 DEF Range
<1>4. Range(a \o b) = S
  <2>1. Range(a \o b) \subseteq S
    BY <1>2 DEF Range
  <2>2. QED
    BY <1>3, <2>1
<1>5. QED
  BY <1>2, <1>4 DEF IsList
\* The transports an event is sent by
LEMMA SendersAre ==
    ASSUME NEW D, NEW list,
           list = If("inprocess" \in D, <<"inprocess">>) \o If("socket" \in D, <<"socket">>)
    PROVE  IsList(list) /\ \A t \in Range(list) : t \in D
<1>1. ASSUME NEW x, NEW s, s = If(x \in D, <<x>>)
      PROVE  IsList(s) /\ Range(s) \subseteq D
  <2>1. CASE x \in D
    <3>1. s = <<x>>
      BY <1>1, <2>1 DEF If
    <3>2. QED
      BY <2>1, <3>1, SingleIs
  <2>2. CASE x \notin D
    <3>1. s = <<>>
      BY <1>1, <2>2 DEF If
    <3>2. Range(s) = {}
      BY <3>1 DEF Range
    <3>3. QED
      BY <3>1, <3>2 DEF IsList
  <2>3. QED
    BY <2>1, <2>2
<1>2. PICK a : a = If("inprocess" \in D, <<"inprocess">>)
  OBVIOUS
<1>3. PICK b : b = If("socket" \in D, <<"socket">>)
  OBVIOUS
<1>4. IsList(a) /\ IsList(b) /\ Range(a) \subseteq D /\ Range(b) \subseteq D
  BY <1>1, <1>2, <1>3, Zenon
<1>5. list = a \o b
  BY <1>2, <1>3
<1>6. IsList(a \o b) /\ Range(a \o b) = Range(a) \cup Range(b)
  BY <1>4, BothAre
<1>7. IsList(list) /\ Range(list) = Range(a) \cup Range(b)
  BY <1>5, <1>6
<1>8. QED
  BY <1>4, <1>7

LEMMA PublishKeeps ==
    ASSUME PathInv, NEW e, \E s \in Sendable : e.type = s.type /\ e.data = s.data,
           UncheckedPublish(e)
    PROVE  PathInv' /\ HeapStays
<1>1. PICK event : event = WithId(NewEvent(NoId, e.scope, e.method, e.causes, e.type, e.data),
                                  "informer", Len(published))
  OBVIOUS
<1>2. /\ informer # NoOne
      /\ heap' = Append(heap, event) /\ published' = Append(published, event)
      /\ todo' = If("inprocess" \in DOMAIN informer.connectors, <<"inprocess">>)
                    \o If("socket" \in DOMAIN informer.connectors, <<"socket">>)
      /\ UNCHANGED <<configVars, informer, listeners, wire, queue, heard, failures>>
  BY <1>1 DEF UncheckedPublish
<1>3. /\ DOMAIN event = EventFields /\ IsRecord(event)
      /\ event.id = [sender |-> "informer", number |-> Len(published)]
      /\ event.type = e.type /\ event.data = e.data
  BY <1>1 DEF WithId, NewEvent, EventFields, IsRecord
<1>4. /\ IsList(published) /\ Len(published) \in Nat /\ DOMAIN published = 1..Len(published)
      /\ IsList(heap) /\ Len(heap) \in Nat /\ DOMAIN heap = 1..Len(heap)
  BY ListIs DEF PathInv, PublishedMade, HeapMade
<1>5. /\ IsList(published') /\ Len(published') = Len(published) + 1
      /\ DOMAIN published' = 1..(Len(published) + 1)
      /\ \A k \in 1..Len(published) : published'[k] = published[k]
      /\ published'[Len(published) + 1] = event
  BY <1>2, <1>4, ListAppend
<1>6. /\ IsList(heap') /\ Len(heap') = Len(heap) + 1
      /\ DOMAIN heap' = 1..(Len(heap) + 1)
      /\ \A i \in 1..Len(heap) : heap'[i] = heap[i]
      /\ heap'[Len(heap) + 1] = event
  BY <1>2, <1>4, ListAppend
<1>7. Continued
  BY <1>2, <1>4, <1>5 DEF Continued
<1>8. HeapStays
  <2>1. \A i \in DOMAIN heap : Restamped(heap[i], heap'[i])
    BY <1>4, <1>6, StampsLeave DEF PathInv, HeapMade, IsObject, IsRecord
  <2>2. QED
    BY <1>4, <1>6, <2>1 DEF HeapStays
<1>9. PublishedMade'
  <2>1. ASSUME NEW k \in DOMAIN published'
        PROVE  /\ DOMAIN published'[k] = EventFields
               /\ published'[k].id = [sender |-> "informer", number |-> k - 1]
               /\ \E s \in Sendable : published'[k].type = s.type /\ published'[k].data = s.data
    <3>1. CASE k \in DOMAIN published
      BY <1>4, <1>5, <3>1 DEF PathInv, PublishedMade
    <3>2. CASE k = Len(published) + 1
      BY <1>3, <1>4, <1>5, <3>2
    <3>3. QED
      BY <1>4, <1>5, <3>1, <3>2
  <2>2. QED
    BY <1>5, <2>1 DEF PublishedMade
<1>10. Original(event)' = event
  BY <1>3, <1>4, <1>5 DEF Original
<1>11. IsObject(event)' /\ Own(event)'
  BY <1>3, <1>4, <1>5, <1>10 DEF IsObject, SameHeader, Own, IsRecord
<1>12. HeapMade'
  <2> DEFINE new == Len(heap) + 1
  <2>1. ASSUME NEW i \in DOMAIN heap' PROVE IsObject(heap[i])'
    <3>1. CASE i \in DOMAIN heap
      BY <1>7, <1>8, <3>1, ObjectStays DEF PathInv
    <3>2. CASE i = new
      BY <1>6, <1>11, <3>2 DEF IsObject, SameHeader, Original
    <3>3. QED
      BY <1>4, <1>6, <3>1, <3>2
  <2>2. PICK n : n = Len(heap) + 1
    OBVIOUS
  <2>3. n \in DOMAIN heap' /\ heap'[n] = event
    BY <1>4, <1>6, <2>2
  <2>4. Own(heap[n])'
    BY <1>11, <2>3 DEF Own, Original
  <2>5. ASSUME NEW j \in 1..(n - 1) PROVE heap'[j].id # heap'[n].id
    <3>1. j \in DOMAIN heap /\ heap'[j] = heap[j]
      BY <1>4, <1>6, <2>2
    <3>2. SameHeader(heap[j])
      BY <3>1 DEF PathInv, HeapMade, IsObject
    <3>3. heap[j].id.number \in 0..(Len(published) - 1)
      BY <3>2 DEF SameHeader
    <3>4. heap'[n].id.number = Len(published)
      BY <1>3, <2>3
    <3>5. heap[j].id.number # heap'[n].id.number
      BY <1>4, <3>3, <3>4
    <3>6. QED
      BY <3>1, <3>5
  <2>6. IsOurs(n)'
    BY <1>3, <1>4, <1>5, <2>3, <2>5 DEF IsOurs
  <2>7. QED
    BY <1>6, <2>1, <2>3, <2>4, <2>6 DEF HeapMade
<1>13. TodoMade'
  <2>1. published' # <<>>
    BY <1>4, <1>5
  <2>2. IsList(todo') /\ \A t \in Range(todo') : t \in DOMAIN informer.connectors
    BY <1>2, SendersAre
  <2>3. QED
    BY <1>2, <2>1, <2>2 DEF TodoMade
<1>14. QueueMade'
  <2>1. DOMAIN queue' = Listeners /\ \A l \in Listeners : IsList(queue'[l])
    BY <1>2 DEF PathInv, QueueMade
  <2>2. \A l \in Listeners : Range(queue'[l]) \ Range(queue[l]) = {}
    BY <1>2
  <2>3. QED
    BY <1>7, <1>8, <2>1, <2>2, QueueKept DEF PathInv
<1>15. WireMade' /\ HeardMade' /\ NothingInTheWay'
  BY <1>2, <1>7, PastKept
<1>16. QED
  BY <1>2, <1>8, <1>9, <1>12, <1>13, <1>14, <1>15, PathKept

\* Every way to publish is this one.
LEMMA Publishing ==
    ASSUME PathInv, NEW e \in Sendable,
           \/ CheckedPublish(e) \/ UncheckedPublishData(e.data, e.type)
           \/ PublishData(e.data, e.type) \/ PublishTyped(e.data, e.type)
    PROVE  PathInv' /\ HeapStays
<1>1. PICK d : d = CreateEvent(e.data, e.type)
  OBVIOUS
<1>2. d.type = e.type /\ d.data = e.data
  BY <1>1 DEF CreateEvent
<1>3. CASE UncheckedPublish(e)
  BY <1>3, PublishKeeps
<1>4. CASE UncheckedPublish(d)
  BY <1>2, <1>4, PublishKeeps
<1>5. UncheckedPublish(e) \/ UncheckedPublish(d)
  <2>1. PublishTyped(e.data, e.type) => PublishData(e.data, e.type)
    BY DEF PublishTyped
  <2>2. PublishData(e.data, e.type) => UncheckedPublish(d)
    BY <1>1 DEF PublishData, CheckedPublish
  <2>3. UncheckedPublishData(e.data, e.type) => UncheckedPublish(d)
    BY <1>1 DEF UncheckedPublishData
  <2>4. CheckedPublish(e) => UncheckedPublish(e)
    BY DEF CheckedPublish
  <2>5. QED
    BY <2>1, <2>2, <2>3, <2>4
<1>6. QED
  BY <1>3, <1>4, <1>5

\* A list with other elements in the same places
LEMMA ListLike ==
    ASSUME NEW s, IsList(s), NEW t, t = [i \in DOMAIN s |-> t[i]]
    PROVE  IsList(t) /\ Len(t) = Len(s) /\ DOMAIN t = DOMAIN s
<1>1. Len(s) \in Nat /\ DOMAIN s = 1..Len(s)
  BY ListIs
<1>2. t = [i \in 1..Len(s) |-> t[i]]
  BY <1>1
<1>3. QED
  BY <1>1, <1>2, ListOf

\* The informer's object gets other time stamps.
LEMMA OneRestamped ==
    ASSUME PublishedMade, HeapMade, NEW i \in DOMAIN heap, NEW x, Restamped(heap[i], x),
           heap' = [heap EXCEPT ![i] = x]
    PROVE  HeapStays /\ DOMAIN heap' = DOMAIN heap
<1>1. IsList(heap) /\ Len(heap) \in Nat
  BY ListIs DEF HeapMade
<1>2. /\ heap' = [j \in DOMAIN heap |-> heap'[j]] /\ heap'[i] = x
      /\ \A j \in DOMAIN heap \ {i} : heap'[j] = heap[j]
  OBVIOUS
<1>3. IsList(heap') /\ Len(heap') = Len(heap) /\ DOMAIN heap' = DOMAIN heap
  BY <1>1, <1>2, ListLike
<1>4. \A j \in DOMAIN heap : Restamped(heap[j], heap[j])
  BY StampsLeave DEF HeapMade, IsObject, IsRecord
<1>5. QED
  BY <1>1, <1>2, <1>3, <1>4 DEF HeapStays

\* ... and there is a new object.
LEMMA OneMoreObject ==
    ASSUME PublishedMade, HeapMade, NEW i \in DOMAIN heap, NEW x, Restamped(heap[i], x), NEW new,
           heap' = Append([heap EXCEPT ![i] = x], new)
    PROVE  /\ HeapStays /\ DOMAIN heap' = DOMAIN heap \cup {Len(heap) + 1}
           /\ heap'[Len(heap) + 1] = new
<1>1. IsList(heap) /\ Len(heap) \in Nat /\ DOMAIN heap = 1..Len(heap)
  BY ListIs DEF HeapMade
<1>2. PICK t : t = [heap EXCEPT ![i] = x]
  OBVIOUS
<1>3. /\ t = [j \in DOMAIN heap |-> t[j]] /\ t[i] = x
      /\ \A j \in DOMAIN heap \ {i} : t[j] = heap[j]
      /\ IsList(t) /\ Len(t) = Len(heap)
  <2>1. /\ t = [j \in DOMAIN heap |-> t[j]] /\ t[i] = x
        /\ \A j \in DOMAIN heap \ {i} : t[j] = heap[j]
    BY <1>2
  <2>2. QED
    BY <1>1, <2>1, ListLike
<1>4. heap' = Append(t, new)
  BY <1>2
<1>5. /\ IsList(heap') /\ Len(heap') = Len(heap) + 1 /\ DOMAIN heap' = 1..(Len(heap) + 1)
      /\ \A j \in 1..Len(heap) : heap'[j] = t[j]
      /\ heap'[Len(heap) + 1] = new
  <2>1. /\ IsList(Append(t, new)) /\ Len(Append(t, new)) = Len(t) + 1
        /\ DOMAIN Append(t, new) = 1..(Len(t) + 1)
        /\ \A j \in 1..Len(t) : Append(t, new)[j] = t[j]
        /\ Append(t, new)[Len(t) + 1] = new
    BY <1>3, ListAppend
  <2>2. QED
    BY <1>3, <1>4, <2>1
<1>6. \A j \in DOMAIN heap : Restamped(heap[j], heap'[j])
  <2>1. \A j \in DOMAIN heap : Restamped(heap[j], heap[j])
    BY StampsLeave DEF HeapMade, IsObject, IsRecord
  <2>2. QED
    BY <1>1, <1>3, <1>5, <2>1
<1>7. HeapStays
  BY <1>1, <1>5, <1>6 DEF HeapStays
<1>8. QED
  BY <1>1, <1>5, <1>7

\* An object is queued for a listener.
LEMMA OneQueued ==
    ASSUME PublishedMade, HeapMade, QueueMade, Continued, HeapStays,
           NEW l \in Listeners, NEW i, queue' = Queued(l, i),
           i \in DOMAIN heap', Own(heap[i])' \/ Decoded(l, heap[i])'
    PROVE  QueueMade'
<1>1. DOMAIN queue' = Listeners /\ queue'[l] = Append(queue[l], i)
      /\ \A m \in Listeners \ {l} : queue'[m] = queue[m]
  BY DEF QueueMade, Queued
<1>2. IsList(queue'[l]) /\ Range(queue'[l]) = Range(queue[l]) \cup {i}
  BY <1>1, ListMore DEF QueueMade
<1>3. ASSUME NEW m \in Listeners
      PROVE  /\ IsList(queue'[m])
             /\ \A j \in Range(queue'[m]) \ Range(queue[m]) :
                   j \in DOMAIN heap' /\ (Own(heap[j])' \/ Decoded(m, heap[j])')
  <2>1. CASE m = l
    BY <1>2, <2>1
  <2>2. CASE m # l
    <3>1. queue'[m] = queue[m] /\ IsList(queue[m])
      BY <1>1, <2>2 DEF QueueMade
    <3>2. QED
      BY <3>1
  <2>3. QED
    BY <2>1, <2>2
<1>4. QED
  BY <1>1, <1>3, QueueKept

\* Nothing is queued, or the first is taken.
LEMMA NoneQueued ==
    ASSUME PublishedMade, HeapMade, QueueMade, Continued, HeapStays,
           \/ queue' = queue
           \/ \E l \in Listeners : queue[l] # <<>> /\ queue' = [queue EXCEPT ![l] = Tail(@)]
    PROVE  QueueMade'
<1>1. DOMAIN queue' = Listeners
  BY DEF QueueMade
<1>2. ASSUME NEW m \in Listeners
      PROVE  IsList(queue'[m]) /\ Range(queue'[m]) \ Range(queue[m]) = {}
  <2>1. IsList(queue[m])
    BY DEF QueueMade
  <2>2. CASE queue'[m] = queue[m]
    BY <2>1, <2>2
  <2>3. CASE queue[m] # <<>> /\ queue'[m] = Tail(queue[m])
    BY <2>1, <2>3, ListTail
  <2>4. QED
    BY <2>2, <2>3 DEF QueueMade
<1>3. QED
  BY <1>1, <1>2, QueueKept

\* The event that is being sent
LEMMA BeingSent ==
    ASSUME PathInv, todo # <<>>
    PROVE  /\ informer # NoOne /\ published # <<>>
           /\ Head(todo) \in DOMAIN informer.connectors
           /\ todo' = Tail(todo) /\ UNCHANGED <<informer, published>> => TodoMade'
<1>1. IsList(todo) /\ informer # NoOne /\ published # <<>>
  BY DEF PathInv, TodoMade
<1>2. IsList(Tail(todo)) /\ Head(todo) \in Range(todo) /\ Range(Tail(todo)) \subseteq Range(todo)
  BY <1>1, ListTail
<1>3. Head(todo) \in DOMAIN informer.connectors
  BY <1>2 DEF PathInv, TodoMade
<1>4. ASSUME todo' = Tail(todo), UNCHANGED <<informer, published>> PROVE TodoMade'
  BY <1>1, <1>2, <1>4 DEF PathInv, TodoMade
<1>5. QED
  BY <1>1, <1>3, <1>4

LEMMA SameProcessReached ==
    ASSUME PathInv, SendInprocess
    PROVE  PathInv' /\ HeapStays
<1>1. /\ todo # <<>> /\ todo' = Tail(todo)
      /\ UNCHANGED <<configVars, informer, listeners, wire, published, heard, failures>>
  BY DEF SendInprocess, histories
<1>2. published # <<>> /\ TodoMade'
  BY <1>1, BeingSent
<1>3. PICK i : i = Ours
  OBVIOUS
<1>4. i \in DOMAIN heap /\ Own(heap[i]) /\ IsRecord(heap[i])
  BY <1>2, <1>3, OursIs DEF PathInv
<1>5. PICK sent : sent = Stamped(heap[i], "sent")
  OBVIOUS
<1>6. Restamped(heap[i], sent) /\ IsRecord(sent)
  BY <1>4, <1>5, StampsLeave DEF Restamped, IsRecord
<1>7. Restamped(heap[i], Arrived("local", sent))
  <2>1. Restamped(sent, Arrived("local", sent))
    BY <1>6, StampsLeave
  <2>2. QED
    BY <1>6, <2>1 DEF Restamped
<1>8. Continued
  BY <1>1 DEF Continued, PathInv, PublishedMade
<1>9. \/ heap' = [heap EXCEPT ![i] = Arrived("local", sent)] /\ queue' = Queued("local", i)
      \/ heap' = [heap EXCEPT ![i] = sent] /\ queue' = queue
  BY <1>3, <1>5 DEF SendInprocess
<1>10. HeapStays /\ DOMAIN heap' = DOMAIN heap
  BY <1>4, <1>6, <1>7, <1>9, OneRestamped DEF PathInv
<1>11. HeapMade'
  BY <1>1, <1>8, <1>10, HeapKept DEF PathInv
<1>12. QueueMade'
  <2>1. Own(heap[i])' /\ i \in DOMAIN heap'
    BY <1>4, <1>8, <1>10, ObjectStays DEF PathInv
  <2>2. "local" \in Listeners
    BY DEF Listeners
  <2>3. CASE queue' = Queued("local", i)
    BY <1>8, <1>10, <2>1, <2>2, <2>3, OneQueued DEF PathInv
  <2>4. CASE queue' = queue
    BY <1>8, <1>10, <2>4, NoneQueued DEF PathInv
  <2>5. QED
    BY <1>9, <2>3, <2>4
<1>13. PublishedMade' /\ WireMade' /\ HeardMade' /\ NothingInTheWay'
  BY <1>1, <1>8, PastKept
<1>14. QED
  BY <1>1, <1>2, <1>10, <1>11, <1>12, <1>13, PathKept

\* The event that the socket transport sends, and its converter
LEMMA SentBy ==
    ASSUME PathInv, todo # <<>>, Head(todo) = "socket"
    PROVE  /\ Ours \in DOMAIN heap /\ IsRecord(heap[Ours])
           /\ SameHeader(heap[Ours]) /\ Own(heap[Ours])
           /\ informer # NoOne /\ "socket" \in DOMAIN informer.connectors
           /\ CanSend(heap[Ours].type) =>
                 /\ Sent(heap[Ours])
                 /\ SentAs(heap[Ours]) = Found(informer, heap[Ours].type)[Wire]
                 /\ SentData(heap[Ours]) = Serialize(heap[Ours].type, heap[Ours].data)
<1>1. informer # NoOne /\ published # <<>> /\ "socket" \in DOMAIN informer.connectors
  BY BeingSent
<1>2. PICK e : e = heap[Ours]
  OBVIOUS
<1>3. Ours \in DOMAIN heap /\ IsRecord(e) /\ SameHeader(e) /\ Own(e)
  BY <1>1, <1>2, OursIs DEF PathInv
<1>4. CanSend(e.type) => /\ Sent(e) /\ SentAs(e) = Found(informer, e.type)[Wire]
                         /\ SentData(e) = Serialize(e.type, e.data)
  BY <1>1, <1>3 DEF Own, CanSend, Sent, SentAs, SentData
<1>5. QED
  BY <1>1, <1>2, <1>3, <1>4

\* One more conversion has failed.
Harmless(f) ==
    \A s \in f.known : s[f.k] = f.key => \/ f.k = Type /\ ~Serializable(f.key)
                                         \/ \E n \in f.named : n[f.k] = f.key /\ n # s

LEMMA FailureIs ==
    ASSUME NEW p, NEW k, NEW key
    PROVE  LET f == Failure(p, k, key) IN
           f.known = p.known /\ f.named = p.named /\ f.k = k /\ f.key = key
  BY DEF Failure

LEMMA SendingFails ==
    ASSUME PathInv, SendFails
    PROVE  PathInv' /\ HeapStays
<1>1. /\ todo # <<>> /\ Head(todo) = "socket" /\ todo' = <<>>
      /\ UNCHANGED <<configVars, informer, listeners, wire, queue, published, heard>>
  BY DEF SendFails
<1>2. PICK i : i = Ours
  OBVIOUS
<1>3. PICK e : e = heap[i]
  OBVIOUS
<1>4. /\ i \in DOMAIN heap /\ IsRecord(e) /\ SameHeader(e) /\ Own(e)
      /\ informer # NoOne /\ "socket" \in DOMAIN informer.connectors
      /\ CanSend(e.type) => /\ Sent(e) /\ SentAs(e) = Found(informer, e.type)[Wire]
                            /\ SentData(e) = Serialize(e.type, e.data)
  BY <1>1, <1>2, <1>3, SentBy
<1>5. Continued
  BY <1>1 DEF Continued, PathInv, PublishedMade
<1>6. HeapStays /\ DOMAIN heap' = DOMAIN heap
  <2>1. PICK x : x = Stamped(e, "sent")
    OBVIOUS
  <2>2. Restamped(e, x)
    BY <1>4, <2>1, StampsLeave
  <2>3. heap' = [heap EXCEPT ![i] = x]
    BY <1>2, <1>3, <2>1 DEF SendFails
  <2>4. QED
    BY <1>3, <1>4, <2>2, <2>3, OneRestamped DEF PathInv
<1>7. HeapMade' /\ QueueMade'
  BY <1>1, <1>5, <1>6, HeapKept, NoneQueued DEF PathInv
<1>8. TodoMade'
  <2>1. IsList(todo')
    BY <1>1 DEF IsList
  <2>2. Range(todo') = {}
    BY <1>1 DEF Range
  <2>3. QED
    BY <1>1, <2>1, <2>2 DEF TodoMade
<1>9. NothingInTheWay'
  <2>1. PICK schema : schema = Found(informer, e.type)[Wire]
    OBVIOUS
  <2>2. CASE ~CanSend(e.type) /\ failures' = failures \cup {Failure(informer, Type, e.type)}
    <3>1. PICK f : f = Failure(informer, Type, e.type)
      OBVIOUS
    <3>2. f.known = informer.known /\ f.named = informer.named /\ f.k = Type /\ f.key = e.type
      BY <3>1, FailureIs
    <3>3. Harmless(f)
      BY <1>4, <2>2, <3>2, CannotSend DEF PathInv, Harmless
    <3>4. QED
      BY <2>2, <3>1, <3>3 DEF PathInv, NothingInTheWay, Harmless
  <2>3. CASE /\ CanSend(e.type) /\ Hears("local", "socket")
             /\ ~CanReceive("local", schema, Serialize(e.type, e.data))
             /\ failures' = failures \cup {Failure(listeners["local"], Wire, schema)}
    <3>1. PICK f : f = Failure(listeners["local"], Wire, schema)
      OBVIOUS
    <3>2. PICK p : p = listeners["local"]
      OBVIOUS
    <3>3. f.known = p.known /\ f.named = p.named /\ f.k = Wire /\ f.key = schema
      BY <3>1, <3>2, FailureIs
    <3>4. /\ "local" \in Listeners /\ Sent(e) /\ schema = SentAs(e)
          /\ ~CanReceive("local", schema, SentData(e))
      BY <1>4, <2>1, <2>3 DEF Listeners
    <3>5. \A s \in p.known : s[Wire] = schema => \E n \in p.named : n[Wire] = schema /\ n # s
      BY <2>3, <3>2, <3>4, CannotReceive DEF PathInv
    <3>6. Harmless(f)
      BY <3>3, <3>5 DEF Harmless
    <3>7. QED
      BY <2>3, <3>1, <3>6 DEF PathInv, NothingInTheWay, Harmless
  <2>4. QED
    BY <1>2, <1>3, <2>1, <2>2, <2>3 DEF SendFails
<1>10. PublishedMade' /\ WireMade' /\ HeardMade'
  BY <1>1, <1>5, PastKept
<1>11. QED
  BY <1>1, <1>6, <1>7, <1>8, <1>9, <1>10, PathKept

\* What a receiver has made of an encoded event
LEMMA ReceivedWell ==
    ASSUME NEW l \in Listeners, Hears(l, "socket"), NEW e, IsRecord(e),
           NEW original, SameHeader(original), Sent(original),
           e.id = original.id, e.scope = original.scope, e.method = original.method,
           e.causes = original.causes, e.data = SentData(original),
           Info(e, "rsb.wire-schema") = SentAs(original),
           CanReceive(l, SentAs(original), SentData(original)),
           NEW new, new = Received(l, e)
    PROVE  IsObject(new) /\ Decoded(l, new)
<1>1. /\ IsRecord(new)
      /\ new.id = e.id /\ new.scope = e.scope /\ new.method = e.method /\ new.causes = e.causes
      /\ new.type = Found(listeners[l], SentAs(original))[Type]
      /\ new.data = Deserialize(new.type, SentData(original))
  BY ReceivedIs DEF EventFields
<1>2. Original(new) = Original(original)
  BY <1>1 DEF Original
<1>3. SameHeader(new)
  BY <1>1, <1>2 DEF SameHeader
<1>4. Sent(new) /\ SentAs(new) = SentAs(original) /\ SentData(new) = SentData(original)
  BY <1>2 DEF Sent, SentAs, SentData
<1>5. Decoded(l, new)
  BY <1>1, <1>4 DEF Decoded, Hears, CanReceive
<1>6. QED
  BY <1>1, <1>3, <1>5 DEF IsObject, IsRecord

LEMMA PeersReached ==
    ASSUME PathInv, SendSocket
    PROVE  PathInv' /\ HeapStays
<1>1. /\ todo # <<>> /\ Head(todo) = "socket" /\ todo' = Tail(todo)
      /\ UNCHANGED <<configVars, informer, listeners, peerUp, published, heard, failures>>
  BY DEF SendSocket, histories
<1>2. PICK i : i = Ours
  OBVIOUS
<1>3. PICK e : e = heap[i]
  OBVIOUS
<1>4. PICK sent : sent = Stamped(e, "sent")
  OBVIOUS
<1>5. PICK bus : bus = Encoded(sent)
  OBVIOUS
<1>6. CanSend(e.type) /\ Sends(bus, sent)
  BY <1>2, <1>3, <1>4, <1>5 DEF SendSocket
<1>7. /\ i \in DOMAIN heap /\ IsRecord(e) /\ SameHeader(e) /\ Own(e) /\ Sent(e)
      /\ SentAs(e) = Found(informer, e.type)[Wire]
      /\ SentData(e) = Serialize(e.type, e.data)
  BY <1>1, <1>2, <1>3, <1>6, SentBy
<1>8. Restamped(e, sent) /\ IsRecord(sent)
  BY <1>4, <1>7, StampsLeave DEF Restamped, IsRecord
<1>9. /\ IsRecord(bus) /\ bus.id = e.id /\ bus.scope = e.scope /\ bus.method = e.method
      /\ bus.causes = e.causes /\ bus.data = SentData(e)
      /\ Info(bus, "rsb.wire-schema") = SentAs(e)
  <2>1. sent.type = e.type /\ sent.data = e.data /\ sent.id = e.id /\ sent.scope = e.scope
        /\ sent.method = e.method /\ sent.causes = e.causes
    BY <1>8 DEF Restamped, EventFields
  <2>2. /\ IsRecord(bus) /\ bus.id = sent.id /\ bus.scope = sent.scope /\ bus.method = sent.method
        /\ bus.causes = sent.causes /\ bus.data = Serialize(sent.type, sent.data)
        /\ Info(bus, "rsb.wire-schema") = Found(informer, sent.type)[Wire]
    BY <1>5, <1>8, EncodedIs DEF EventFields
  <2>3. QED
    BY <1>7, <2>1, <2>2
<1>10. Continued
  BY <1>1 DEF Continued, PathInv, PublishedMade
<1>11. "local" \in Listeners
  BY DEF Listeners
<1>12. HeapStays /\ HeapMade' /\ QueueMade'
  <2>1. CASE Hears("local", "socket")
    <3>1. PICK new : new = Received("local", bus)
      OBVIOUS
    <3>2. /\ CanReceive("local", SentAs(e), SentData(e))
          /\ heap' = Append([heap EXCEPT ![i] = sent], new)
          /\ queue' = Queued("local", Len(heap) + 1)
      BY <1>2, <1>6, <1>9, <2>1, <3>1 DEF Sends
    <3>3. IsObject(new) /\ Decoded("local", new)
      BY <1>7, <1>9, <1>11, <2>1, <3>1, <3>2, ReceivedWell
    <3>4. /\ HeapStays /\ DOMAIN heap' = DOMAIN heap \cup {Len(heap) + 1}
          /\ heap'[Len(heap) + 1] = new
      BY <1>3, <1>7, <1>8, <3>2, OneMoreObject DEF PathInv
    <3>5. IsObject(new)' /\ Decoded("local", new)'
      BY <1>10, <3>3, StaysTrue DEF PathInv, IsObject
    <3>6. PICK n : n = Len(heap) + 1
      OBVIOUS
    <3>7. n \in DOMAIN heap' /\ IsObject(heap[n])' /\ Decoded("local", heap[n])'
      BY <3>4, <3>5, <3>6 DEF IsObject, SameHeader, Original, Decoded, Sent, SentAs, SentData
    <3>8. \A j \in DOMAIN heap' \ DOMAIN heap : IsObject(heap[j])'
      BY <3>4, <3>6, <3>7
    <3>9. HeapMade'
      BY <1>1, <1>10, <3>4, <3>8, HeapKept DEF PathInv
    <3>10. queue' = Queued("local", n)
      BY <3>2, <3>6
    <3>11. QueueMade'
      BY <1>10, <1>11, <3>4, <3>7, <3>10, OneQueued DEF PathInv
    <3>12. QED
      BY <3>4, <3>9, <3>11
  <2>2. CASE ~Hears("local", "socket")
    <3>1. heap' = [heap EXCEPT ![i] = sent] /\ queue' = queue
      BY <1>2, <1>6, <2>2 DEF Sends
    <3>2. HeapStays /\ DOMAIN heap' = DOMAIN heap
      BY <1>3, <1>7, <1>8, <3>1, OneRestamped DEF PathInv
    <3>3. QED
      BY <1>1, <1>10, <3>1, <3>2, HeapKept, NoneQueued DEF PathInv
  <2>3. QED
    BY <2>1, <2>2
<1>13. WireMade'
  <2>1. PICK n : n = EventToNotification(bus, Info(bus, "rsb.wire-schema"), bus.data)
    OBVIOUS
  <2>2. /\ n.id = e.id /\ n.scope = e.scope /\ n.method = e.method /\ n.causes = e.causes
        /\ n.schema = SentAs(e) /\ n.data = SentData(e)
    BY <1>9, <2>1, NotificationIs
  <2>3. IsMessage(n)
    <3>1. Original(n) = Original(e)
      BY <2>2 DEF Original
    <3>2. SameHeader(n)
      BY <1>7, <2>2, <3>1 DEF SameHeader
    <3>3. Sent(n) /\ SentAs(n) = SentAs(e) /\ SentData(n) = SentData(e)
      BY <1>7, <3>1 DEF Sent, SentAs, SentData
    <3>4. QED
      BY <2>2, <3>2, <3>3 DEF IsMessage
  <2>4. IsMessage(n)'
    BY <1>10, <2>3, StaysTrue DEF PathInv, IsMessage
  <2>5. wire' = Append(wire, n) \/ wire' = wire
    BY <1>6, <2>1 DEF Sends, Transmitted
  <2>6. IsList(wire') /\ Range(wire') \subseteq Range(wire) \cup {n}
    BY <2>5, ListMore DEF PathInv, WireMade
  <2>7. QED
    BY <1>10, <2>4, <2>6, WireKept DEF PathInv
<1>14. TodoMade' /\ PublishedMade' /\ HeardMade' /\ NothingInTheWay'
  BY <1>1, <1>10, BeingSent, PastKept
<1>15. QED
  BY <1>1, <1>12, <1>13, <1>14, PathKept

\* A new object, while the others are left alone
LEMMA OnlyNew ==
    ASSUME HeapMade, NEW new, heap' = Append(heap, new)
    PROVE  /\ HeapStays /\ DOMAIN heap' = DOMAIN heap \cup {Len(heap) + 1}
           /\ heap'[Len(heap) + 1] = new
<1>1. IsList(heap) /\ Len(heap) \in Nat /\ DOMAIN heap = 1..Len(heap)
  BY ListIs DEF HeapMade
<1>2. /\ IsList(heap') /\ Len(heap') = Len(heap) + 1 /\ DOMAIN heap' = 1..(Len(heap) + 1)
      /\ \A i \in 1..Len(heap) : heap'[i] = heap[i]
      /\ heap'[Len(heap) + 1] = new
  BY <1>1, ListAppend
<1>3. \A i \in DOMAIN heap : Restamped(heap[i], heap[i])
  BY StampsLeave DEF HeapMade, IsObject, IsRecord
<1>4. QED
  BY <1>1, <1>2, <1>3 DEF HeapStays

LEMMA NoneNew ==
    ASSUME HeapMade, heap' = heap
    PROVE  HeapStays
<1>1. IsList(heap) /\ Len(heap) \in Nat
  BY ListIs DEF HeapMade
<1>2. \A i \in DOMAIN heap : Restamped(heap[i], heap[i])
  BY StampsLeave DEF HeapMade, IsObject, IsRecord
<1>3. QED
  BY <1>1, <1>2 DEF HeapStays

LEMMA PeerReceives ==
    ASSUME PathInv, ReceiveAtPeer
    PROVE  PathInv' /\ HeapStays
<1>1. /\ wire # <<>> /\ wire' = Tail(wire)
      /\ UNCHANGED <<configVars, informer, listeners, todo, published, heard>>
  BY DEF ReceiveAtPeer
<1>2. PICK n : n = Head(wire)
  OBVIOUS
<1>3. /\ IsList(wire') /\ Range(wire') \subseteq Range(wire) /\ n \in Range(wire)
  BY <1>1, <1>2, ListTail DEF PathInv, WireMade
<1>4. SameHeader(n) /\ Sent(n) /\ n.schema = SentAs(n) /\ n.data = SentData(n)
  BY <1>3 DEF PathInv, WireMade
<1>5. PICK event : event = NotificationToEvent(n)
  OBVIOUS
<1>6. /\ IsRecord(event)
      /\ event.id = n.id /\ event.scope = n.scope /\ event.method = n.method
      /\ event.causes = n.causes /\ event.data = SentData(n)
      /\ Info(event, "rsb.wire-schema") = SentAs(n)
  BY <1>4, <1>5, NotifiedIs
<1>7. Continued
  BY <1>1 DEF Continued, PathInv, PublishedMade
<1>8. "peer" \in Listeners
  BY DEF Listeners
<1>9. PICK schema : schema = n.schema
  OBVIOUS
<1>10. \/ UNCHANGED <<heap, queue, failures>>
       \/ /\ Hears("peer", "socket") /\ CanReceive("peer", schema, n.data)
          /\ heap' = Append(heap, Received("peer", event))
          /\ queue' = Queued("peer", Len(heap) + 1) /\ failures' = failures
       \/ /\ Hears("peer", "socket") /\ ~CanReceive("peer", schema, n.data)
          /\ failures' = failures \cup {Failure(listeners["peer"], Wire, schema)}
          /\ UNCHANGED <<heap, queue>>
  BY <1>2, <1>5, <1>9 DEF ReceiveAtPeer
<1>11. WireMade' /\ PublishedMade' /\ HeardMade' /\ TodoMade'
  <2>1. WireMade'
    BY <1>3, <1>7, WireKept DEF PathInv
  <2>2. TodoMade'
    BY <1>1 DEF PathInv, TodoMade
  <2>3. QED
    BY <1>1, <1>7, <2>1, <2>2, PastKept
<1>12. HeapStays /\ HeapMade' /\ QueueMade' /\ NothingInTheWay'
  <2>1. CASE UNCHANGED <<heap, queue, failures>>
    <3>1. HeapStays /\ \A i \in DOMAIN heap' \ DOMAIN heap : IsObject(heap[i])'
      BY <2>1, NoneNew DEF PathInv
    <3>2. QED
      BY <1>1, <1>7, <2>1, <3>1, HeapKept, NoneQueued, PastKept DEF PathInv
  <2>2. CASE /\ Hears("peer", "socket") /\ CanReceive("peer", schema, n.data)
             /\ heap' = Append(heap, Received("peer", event))
             /\ queue' = Queued("peer", Len(heap) + 1) /\ failures' = failures
    <3>1. PICK new : new = Received("peer", event)
      OBVIOUS
    <3>2. IsObject(new) /\ Decoded("peer", new)
      BY <1>4, <1>6, <1>8, <1>9, <2>2, <3>1, ReceivedWell
    <3>3. heap' = Append(heap, new)
      BY <2>2, <3>1
    <3>4. /\ HeapStays /\ DOMAIN heap' = DOMAIN heap \cup {Len(heap) + 1}
          /\ heap'[Len(heap) + 1] = new
      BY <3>3, OnlyNew DEF PathInv
    <3>5. IsObject(new)' /\ Decoded("peer", new)'
      BY <1>7, <3>2, StaysTrue DEF PathInv, IsObject
    <3>6. PICK k : k = Len(heap) + 1
      OBVIOUS
    <3>7. k \in DOMAIN heap' /\ IsObject(heap[k])' /\ Decoded("peer", heap[k])'
      BY <3>4, <3>5, <3>6 DEF IsObject, SameHeader, Original, Decoded, Sent, SentAs, SentData
    <3>8. \A j \in DOMAIN heap' \ DOMAIN heap : IsObject(heap[j])'
      BY <3>4, <3>6, <3>7
    <3>9. HeapMade'
      BY <1>1, <1>7, <3>4, <3>8, HeapKept DEF PathInv
    <3>10. queue' = Queued("peer", k)
      BY <2>2, <3>6
    <3>11. QueueMade'
      BY <1>7, <1>8, <3>4, <3>7, <3>10, OneQueued DEF PathInv
    <3>12. QED
      BY <1>7, <2>2, <3>4, <3>9, <3>11, PastKept
  <2>3. CASE /\ Hears("peer", "socket") /\ ~CanReceive("peer", schema, n.data)
             /\ failures' = failures \cup {Failure(listeners["peer"], Wire, schema)}
             /\ UNCHANGED <<heap, queue>>
    <3>1. HeapStays /\ \A i \in DOMAIN heap' \ DOMAIN heap : IsObject(heap[i])'
      BY <2>3, NoneNew DEF PathInv
    <3>2. HeapMade' /\ QueueMade'
      BY <1>1, <1>7, <2>3, <3>1, HeapKept, NoneQueued DEF PathInv
    <3>3. PICK p : p = listeners["peer"]
      OBVIOUS
    <3>4. PICK f : f = Failure(p, Wire, schema)
      OBVIOUS
    <3>5. f.known = p.known /\ f.named = p.named /\ f.k = Wire /\ f.key = schema
      BY <3>4, FailureIs
    <3>6. ~CanReceive("peer", schema, SentData(n)) /\ schema = SentAs(n)
      BY <1>4, <1>9, <2>3
    <3>7. \A s \in p.known : s[Wire] = schema => \E m \in p.named : m[Wire] = schema /\ m # s
      BY <1>4, <1>8, <2>3, <3>3, <3>6, CannotReceive DEF PathInv
    <3>8. Harmless(f)
      BY <3>5, <3>7 DEF Harmless
    <3>9. NothingInTheWay'
      BY <2>3, <3>3, <3>4, <3>8 DEF PathInv, NothingInTheWay, Harmless
    <3>10. QED
      BY <3>1, <3>2, <3>9
  <2>4. QED
    BY <1>10, <2>1, <2>2, <2>3
<1>13. QED
  BY <1>1, <1>11, <1>12, PathKept

\* A handler, or a reader, gets what has been queued for it.
LEMMA HandedOut ==
    ASSUME PathInv, NEW l \in Listeners, queue[l] # <<>>,
           queue' = [queue EXCEPT ![l] = Tail(@)],
           \/ heard' = heard
           \/ heard' = heard \cup {[by |-> l, event |-> heap[Head(queue[l])]]},
           UNCHANGED <<configVars, informer, listeners, heap, todo, wire, published, failures>>
    PROVE  PathInv'
<1>1. PICK i : i = Head(queue[l])
  OBVIOUS
<1>2. i \in Range(queue[l])
  BY <1>1, ListTail DEF PathInv, QueueMade
<1>3. PICK e : e = heap[i]
  OBVIOUS
<1>4. SameHeader(e) /\ (Own(e) \/ Decoded(l, e))
  BY <1>2, <1>3 DEF PathInv, QueueMade, HeapMade, IsObject
<1>5. Continued
  BY DEF Continued, PathInv, PublishedMade
<1>6. SameHeader(e)' /\ (Own(e)' \/ Decoded(l, e)')
  BY <1>4, <1>5, StaysTrue DEF PathInv
<1>7. HeardMade'
  <2>1. PICK h : h = [by |-> l, event |-> e]
    OBVIOUS
  <2>2. heard' \subseteq heard \cup {h} /\ h.by = l /\ h.event = e
    BY <1>1, <1>3, <2>1
  <2>3. \A g \in heard' \ heard :
            SameHeader(g.event)' /\ (Own(g.event)' \/ Decoded(g.by, g.event)')
    BY <1>6, <2>2
  <2>4. QED
    BY <1>5, <2>3, HeardKept DEF PathInv
<1>8. HeapStays
  BY NoneNew DEF PathInv
<1>9. HeapMade' /\ QueueMade'
  BY <1>5, <1>8, HeapKept, NoneQueued DEF PathInv
<1>10. PublishedMade' /\ WireMade' /\ NothingInTheWay' /\ TodoMade'
  <2>1. TodoMade'
    BY DEF PathInv, TodoMade
  <2>2. QED
    BY <1>5, <2>1, PastKept
<1>11. QED
  BY <1>7, <1>9, <1>10, PathKept

LEMMA Heard ==
    ASSUME PathInv, NEW l \in Listeners, Deliver(l) \/ Read(l)
    PROVE  PathInv'
<1>1. CASE Deliver(l)
  <2>1. /\ queue[l] # <<>> /\ queue' = [queue EXCEPT ![l] = Tail(@)]
        /\ UNCHANGED <<configVars, informer, listeners, heap, todo, wire, published, failures>>
    BY <1>1 DEF Deliver
  <2>2. \/ heard' = heard
        \/ heard' = heard \cup {[by |-> l, event |-> heap[Head(queue[l])]]}
    BY <1>1 DEF Deliver
  <2>3. QED
    BY <2>1, <2>2, HandedOut
<1>2. CASE Read(l)
  <2>1. /\ queue[l] # <<>> /\ queue' = [queue EXCEPT ![l] = Tail(@)]
        /\ UNCHANGED <<configVars, informer, listeners, heap, todo, wire, published, failures>>
        /\ heard' = heard \cup {[by |-> l, event |-> heap[Head(queue[l])]]}
    BY <1>2 DEF Read
  <2>2. QED
    BY <2>1, HandedOut
<1>3. QED
  BY <1>1, <1>2

LEMMA NothingYet == DataInit => PathInv
<1> SUFFICES ASSUME DataInit PROVE PathInv
  OBVIOUS
<1>1. /\ ConfigInit /\ informer = NoOne /\ listeners = [l \in Listeners |-> NoOne]
      /\ heap = <<>> /\ todo = <<>> /\ wire = <<>> /\ queue = [l \in Listeners |-> <<>>]
      /\ published = <<>> /\ heard = {} /\ failures = {}
  BY DEF DataInit
<1>2. ConfigMade
  <2>1. ConfigInv
    BY <1>1, Started
  <2>2. repository \subseteq Registrable
    BY <1>1 DEF ConfigInit, Registrable
  <2>3. "socket" \in DOMAIN registry => registry["socket"].remote = TRUE
    BY <1>1 DEF ConfigInit, DefaultTransports
  <2>4. config.transports = <<>>
    BY <1>1, Fresh DEF ConfigInit
  <2>5. QED
    BY <2>1, <2>2, <2>3, <2>4 DEF ConfigMade
<1>3. ParticipantsMade
  BY <1>1 DEF ParticipantsMade, InformerMade, ReceiverMade
<1>4. IsList(<<>>) /\ \A i : i \notin Range(<<>>)
  BY DEF IsList, Range
<1>5. PublishedMade /\ HeapMade /\ TodoMade /\ QueueMade /\ WireMade /\ HeardMade
  BY <1>1, <1>4 DEF PublishedMade, HeapMade, TodoMade, QueueMade, WireMade, HeardMade
<1>6. NothingInTheWay
  BY <1>1 DEF NothingInTheWay
<1>7. QED
  BY <1>2, <1>3, <1>5, <1>6 DEF PathInv

LEMMA PathStep ==
    ASSUME PathInv, [DataNext]_<<configVars, dataVars>>
    PROVE  PathInv' /\ HeapStays
<1>1. heap' = heap => HeapStays
  BY NoneNew DEF PathInv
<1>2. CASE UNCHANGED <<configVars, dataVars>>
  BY <1>1, <1>2, ConfigurationChanged DEF dataVars
<1>3. CASE ConfigNext /\ UNCHANGED dataVars
  BY <1>1, <1>3, ConfigurationChanged DEF dataVars
<1>4. CASE \E i \in Informers : CreateInformer(i) \/ CreateInformerBase(i)
  <2>1. PICK i : CreateInformerBase(i)
    BY <1>4 DEF CreateInformer
  <2>2. heap' = heap
    BY <2>1 DEF CreateInformerBase
  <2>3. QED
    BY <1>1, <2>1, <2>2, InformerCreated
<1>5. ASSUME NEW l \in Listeners, CreateReader(l) \/ \E wish \in Wishes : CreateListener(l, wish)
      PROVE  PathInv' /\ HeapStays
  <2>1. CASE CreateReader(l)
    <3>1. MakeReceiver(l, "in-pull", NoWish)
      BY <2>1 DEF CreateReader
    <3>2. heap' = heap
      BY <3>1 DEF MakeReceiver
    <3>3. QED
      BY <1>1, <3>1, <3>2, ReceiverCreated
  <2>2. CASE \E wish \in Wishes : CreateListener(l, wish)
    <3>1. PICK wish \in Wishes : MakeReceiver(l, "in-push", wish)
      BY <2>2 DEF CreateListener
    <3>2. heap' = heap
      BY <3>1 DEF MakeReceiver
    <3>3. QED
      BY <1>1, <3>1, <3>2, ReceiverCreated
  <2>3. QED
    BY <1>5, <2>1, <2>2
<1>6. ASSUME NEW l \in Listeners, Deliver(l) \/ Read(l) PROVE PathInv' /\ HeapStays
  <2>1. heap' = heap
    BY <1>6 DEF Deliver, Read
  <2>2. QED
    BY <1>1, <1>6, <2>1, Heard
<1>7. QED
  BY <1>2, <1>3, <1>4, <1>5, <1>6, Publishing, SameProcessReached, SendingFails, PeersReached,
     PeerReceives DEF DataNext

LEMMA PathInductive == DataSpec => []PathInv
<1>1. PathInv /\ [DataNext]_<<configVars, dataVars>> => PathInv'
  BY PathStep
<1>2. QED
  BY <1>1, NothingYet, PTL DEF DataSpec

\* What has been heard is what was published, or not, for a reason.
LEMMA HeardIs ==
    ASSUME PathInv
    PROVE  HeardAsSent
<1> SUFFICES ASSUME NEW h \in heard
             PROVE  LET sent == Original(h.event) IN
                    IF h.event.type = sent.type THEN h.event.data = sent.data
                    ELSE \/ /\ listeners[h.by].wish.converters # <<>>
                            /\ h.event.data = Serialize(sent.type, sent.data)
                         \/ \E n \in listeners[h.by].named : n[Type] = h.event.type
                         \/ \A s \in listeners[h.by].known : s[Type] # sent.type
  BY DEF HeardAsSent
<1>1. PICK e : e = h.event
  OBVIOUS
<1>2. PICK l : l = h.by
  OBVIOUS
<1>3. SameHeader(e) /\ (Own(e) \/ Decoded(l, e))
  BY <1>1, <1>2 DEF PathInv, HeardMade
<1>4. IF e.type = Original(e).type THEN e.data = Original(e).data
      ELSE \/ listeners[l].wish.converters # <<>> /\ e.data = SentData(e)
           \/ \E n \in listeners[l].named : n[Type] = e.type
           \/ \A s \in listeners[l].known : s[Type] # Original(e).type
  BY <1>3, DecodedIs DEF PathInv, Own
<1>5. QED
  BY <1>1, <1>2, <1>4 DEF SentData

\* Whoever looks at a copy sees what it would see of the original.
LEMMA CopiesAre ==
    ASSUME PathInv
    PROVE  CopiesAgree
<1> SUFFICES ASSUME NEW i \in DOMAIN heap
             PROVE  LET e == Original(heap[i]) IN
                    /\ heap[i].scope = e.scope /\ heap[i].method = e.method
                    /\ heap[i].causes = e.causes
                    /\ heap[i].type = e.type => \A wish \in Wishes :
                           /\ Accepts(wish, heap[i]) <=> Accepts(wish, e)
                           /\ Reaches(wish.handler, heap[i]) <=> Reaches(wish.handler, e)
  BY DEF CopiesAgree
<1>1. PICK c : c = heap[i]
  OBVIOUS
<1>2. PICK e : e = Original(c)
  OBVIOUS
<1>3. SameHeader(c)
  BY <1>1 DEF PathInv, HeapMade, IsObject
<1>4. c.scope = e.scope /\ c.method = e.method /\ c.causes = e.causes /\ c.id = e.id
  <2>1. c.id.number + 1 \in DOMAIN published
    BY <1>3, ListIs DEF SameHeader, PathInv, PublishedMade
  <2>2. e.id = [sender |-> "informer", number |-> (c.id.number + 1) - 1]
    BY <1>2, <2>1 DEF Original, PathInv, PublishedMade
  <2>3. (c.id.number + 1) - 1 = c.id.number
    BY <1>3, ListIs DEF SameHeader, PathInv, PublishedMade
  <2>4. QED
    BY <1>2, <1>3, <2>2, <2>3 DEF SameHeader
<1>5. ASSUME c.type = e.type, NEW f PROVE Match(f, c) <=> Match(f, e)
  BY <1>4, <1>5 DEF Match, ScopeMatch, MethodMatch, TypeMatch, OriginMatch, CauseMatch
<1>6. ASSUME c.type = e.type, NEW wish \in Wishes
      PROVE  /\ Accepts(wish, c) <=> Accepts(wish, e)
             /\ Reaches(wish.handler, c) <=> Reaches(wish.handler, e)
  BY <1>4, <1>5, <1>6 DEF Accepts, Reaches
<1>7. QED
  BY <1>1, <1>2, <1>4, <1>6

\* Whatever the configuration, the filters, the handlers and the way an event
\* takes, and however participants come and settings change meanwhile: all who
\* hear it get what was published, unless their own converters are for something
\* else (InPushConnector.cpp:91, Serialization.cpp:40).
THEOREM HeardAsPublished == DataSpec => []HeardAlike
<1>1. PathInv => HeardAlike
  BY HeardIs, CopiesAre DEF HeardAlike
<1>2. QED
  BY <1>1, PathInductive, PTL

\* No conversion fails for a type and a wire-schema that both sides have a
\* converter for, but if the configuration has put another one in its place
\* (Repository.h:66, Factory.cpp:56).
THEOREM ConvertersAreFound == DataSpec => []NothingInTheWay
<1>1. PathInv => NothingInTheWay
  BY DEF PathInv
<1>2. QED
  BY <1>1, PathInductive, PTL

\* Neither sending nor receiving changes an event that others may hold, but for
\* its time stamps (OutConnector.cpp:92).
THEOREM SharedEventsAreIntact == DataSpec => SharedIntact
<1> DEFINE Intact == \A i \in DOMAIN heap :
                         heap'[i] = [heap[i] EXCEPT !.times = heap'[i].times]
<1>1. ASSUME PathInv, [DataNext]_<<configVars, dataVars>> PROVE [Intact]_heap
  <2>1. HeapStays
    BY <1>1, PathStep
  <2>2. ASSUME NEW i \in DOMAIN heap
        PROVE  heap'[i] = [heap[i] EXCEPT !.times = heap'[i].times]
    <3>1. PICK e : e = heap[i]
      OBVIOUS
    <3>2. PICK s : s = heap'[i]
      OBVIOUS
    <3>3. IsRecord(e) /\ Restamped(e, s)
      BY <1>1, <2>1, <3>1, <3>2 DEF PathInv, HeapMade, IsObject, IsRecord, HeapStays
    <3>4. s = [e EXCEPT !.times = s.times]
      BY <3>3 DEF IsRecord, Restamped, EventFields
    <3>5. QED
      BY <3>1, <3>2, <3>4
  <2>3. QED
    BY <2>2
<1>2. QED
  BY <1>1, PathInductive, PTL DEF DataSpec, SharedIntact

-----------------------------------------------------------------------------
(* The string of a scope *)

Char == Letters \cup {Separator}
Names == Seq(Letters) \ {<<>>}

\* What stands behind the n-th component
Written(s, g, n) == IF n = 0 THEN <<Separator>> ELSE Append(g[n - 1] \o s[n], Separator)

LEMMA NameIs ==
    ASSUME NEW x \in Names
    PROVE  x \in Seq(Char) /\ Len(x) \in Nat /\ Len(x) > 0
           /\ \A i \in 1..Len(x) : x[i] \in Letters /\ x[i] # Separator
<1>1. \A i \in 1..Len(x) : x[i] \in Letters /\ x[i] # Separator
  BY CharactersAssumption DEF Names
<1>2. x \in Seq(Letters) /\ x # <<>> /\ Len(x) \in Nat
  BY DEF Names
<1>3. x \in Seq(Char)
  BY <1>1, <1>2 DEF Char
<1> QED
  BY <1>1, <1>2, <1>3

\* A text, a name and a separator
Consists(u, t, x) ==
    /\ u \in Seq(Char) /\ Len(u) = Len(t) + Len(x) + 1
    /\ \A i \in 1..Len(t) : u[i] = t[i]
    /\ \A i \in 1..Len(x) : u[Len(t) + i] = x[i]
    /\ u[Len(u)] = Separator

LEMMA WrittenIsText ==
    ASSUME NEW t \in Seq(Char), NEW x \in Names
    PROVE  Consists(Append(t \o x, Separator), t, x)
<1>1. x \in Seq(Char) /\ Len(x) \in Nat /\ Separator \in Char
  BY NameIs DEF Char
<1> HIDE DEF Char, Separator
<1>2. t \o x \in Seq(Char) /\ Len(t \o x) = Len(t) + Len(x)
  BY <1>1
<1>3. \A i \in 1..Len(t) : (t \o x)[i] = t[i]
  BY <1>1
<1>4. \A i \in 1..Len(x) : (t \o x)[Len(t) + i] = x[i]
  BY <1>1
<1> QED
  BY <1>1, <1>2, <1>3, <1>4 DEF Consists

\* The loop of updateStringCache comes to an end.
LEMMA StringIsWritten ==
    ASSUME NEW s \in Seq(Names), NEW k \in Nat, k <= Len(s)
    PROVE  \E g \in [0..k -> Seq(Char)] : \A n \in 0..k : g[n] = Written(s, g, n)
<1> DEFINE Possible(m) == \E g \in [0..m -> Seq(Char)] : \A n \in 0..m : g[n] = Written(s, g, n)
           T == {m \in Nat : m <= Len(s) /\ ~Possible(m)}
<1>1. SUFFICES T = {}
  BY <1>1
<1>2. SUFFICES ASSUME T # {} PROVE FALSE
  OBVIOUS
<1>3. PICK m \in T : \A y \in T : m <= y
  BY <1>2, LeastNatural
<1>4. m \in Nat /\ m <= Len(s) /\ ~Possible(m)
  BY <1>3
<1> HIDE DEF Possible
<1>5. m # 0
  <2>1. Possible(0)
    <3> USE DEF Possible
    <3> DEFINE g == [n \in 0..0 |-> <<Separator>>]
    <3>1. g \in [0..0 -> Seq(Char)]
      BY DEF Char
    <3>2. \A n \in 0..0 : g[n] = Written(s, g, n)
      BY DEF Written
    <3> QED
      BY <3>1, <3>2
  <2> QED
    BY <2>1, <1>4
<1>6. Possible(m - 1)
  <2>1. m - 1 \in Nat /\ m - 1 <= Len(s) /\ ~ (m <= m - 1)
    BY <1>4, <1>5
  <2>2. m - 1 \notin T
    BY <2>1, <1>3
  <2> QED
    BY <2>1, <2>2
<1>7. PICK f \in [0..(m - 1) -> Seq(Char)] : \A n \in 0..(m - 1) : f[n] = Written(s, f, n)
  BY <1>6 DEF Possible
<1>8. s[m] \in Names /\ f[m - 1] \in Seq(Char)
  BY <1>4, <1>5, <1>7
<1>9. Append(f[m - 1] \o s[m], Separator) \in Seq(Char)
  BY <1>8, WrittenIsText DEF Consists
<1> DEFINE g == [n \in 0..m |-> IF n = m THEN Append(f[m - 1] \o s[m], Separator) ELSE f[n]]
<1>10. g \in [0..m -> Seq(Char)]
  BY <1>4, <1>5, <1>7, <1>9
<1>11. \A n \in 0..m : g[n] = Written(s, g, n)
  <2>0. m \in 0..m /\ \A n \in 0..(m - 1) : n \in 0..m /\ n # m
    BY <1>4
  <2>1. g[m] = Append(f[m - 1] \o s[m], Separator)
    BY <2>0
  <2>2. \A n \in 0..(m - 1) : g[n] = f[n]
    BY <2>0
  <2> HIDE DEF g
  <2>3. g[m] = Written(s, g, m)
    <3>1. m - 1 \in 0..(m - 1) /\ g[m - 1] = f[m - 1]
      BY <2>2, <1>4, <1>5
    <3> QED
      BY <3>1, <2>1, <1>5 DEF Written
  <2>4. ASSUME NEW n \in 0..(m - 1) PROVE g[n] = Written(s, g, n)
    <3>1. CASE n = 0
      BY <3>1, <2>2, <2>4, <1>7 DEF Written
    <3>2. CASE n # 0
      <4>1. n - 1 \in 0..(m - 1) /\ g[n - 1] = f[n - 1]
        BY <3>2, <2>2, <2>4, <1>4
      <4> QED
        BY <4>1, <3>2, <2>2, <2>4, <1>7 DEF Written
    <3> QED
      BY <3>1, <3>2
  <2> QED
    BY <2>3, <2>4, <1>4
<1> QED
  BY <1>4, <1>10, <1>11 DEF Possible

\* What the loop has written after each component of a scope
LEMMA StringIs ==
    ASSUME NEW s \in Seq(Names)
    PROVE  \E g \in [0..Len(s) -> Seq(Char)] :
              /\ \A n \in 0..Len(s) : g[n] = Written(s, g, n)
              /\ CachedString(s) = g[Len(s)]
<1> DEFINE F(g) == [n \in 0..Len(s) |-> IF n = 0 THEN <<Separator>>
                                         ELSE Append(g[n - 1] \o s[n], Separator)]
           w == CHOOSE g : g = F(g)
<1>1. PICK f \in [0..Len(s) -> Seq(Char)] : \A n \in 0..Len(s) : f[n] = Written(s, f, n)
  <2>1. Len(s) \in Nat /\ Len(s) <= Len(s)
    OBVIOUS
  <2> QED
    BY <2>1, StringIsWritten, Zenon
<1>2. f = F(f)
  BY <1>1 DEF Written, F
<1> HIDE DEF F
<1>3. w = F(w)
  BY <1>2
<1>4. CachedString(s) = w[Len(s)]
  BY DEF CachedString, F
<1> HIDE DEF w
<1>5. \A n \in 0..Len(s) : w[n] = Written(s, w, n)
  BY <1>3 DEF Written, F
<1>6. \A n \in 0..Len(s) : w[n] = f[n]
  <2> DEFINE T == {n \in 0..Len(s) : w[n] # f[n]}
  <2>1. SUFFICES ASSUME T # {} PROVE FALSE
    OBVIOUS
  <2>2. PICK n \in T : \A m \in T : n <= m
    <3>1. T \in SUBSET Nat
      OBVIOUS
    <3> QED
      BY <3>1, <2>1, LeastNatural
  <2>3. CASE n = 0
    BY <2>2, <2>3, <1>1, <1>5 DEF Written
  <2>4. CASE n # 0
    <3>1. n - 1 \in 0..Len(s) /\ ~ (n - 1 \in T)
      BY <2>2, <2>4
    <3>2. w[n - 1] = f[n - 1]
      BY <3>1
    <3> QED
      BY <3>2, <2>2, <2>4, <1>1, <1>5 DEF Written
  <2> QED
    BY <2>3, <2>4
<1>7. w \in [0..Len(s) -> Seq(Char)]
  BY <1>1, <1>3, <1>6 DEF F
<1> QED
  BY <1>4, <1>5, <1>7

LEMMA RootString == CachedString(<<>>) = <<Separator>>
<1>1. <<>> \in Seq(Names) /\ Len(<<>>) = 0
  OBVIOUS
<1>2. PICK g : /\ \A n \in 0..Len(<<>>) : g[n] = Written(<<>>, g, n)
               /\ CachedString(<<>>) = g[Len(<<>>)]
  BY <1>1, StringIs
<1>3. g[0] = Written(<<>>, g, 0) /\ CachedString(<<>>) = g[0]
  BY <1>1, <1>2
<1> QED
  BY <1>3 DEF Written

\* One more component adds itself and a separator.
LEMMA StringGrows ==
    ASSUME NEW s \in Seq(Names), NEW x \in Names
    PROVE  CachedString(Append(s, x)) = Append(CachedString(s) \o x, Separator)
<1> DEFINE t == Append(s, x)
<1>1. /\ t \in Seq(Names) /\ Len(t) = Len(s) + 1 /\ Len(s) \in Nat
      /\ t[Len(t)] = x /\ \A n \in 1..Len(s) : t[n] = s[n]
  OBVIOUS
<1> HIDE DEF t
<1>2. PICK g : (\A n \in 0..Len(s) : g[n] = Written(s, g, n)) /\ CachedString(s) = g[Len(s)]
  BY StringIs
<1>3. PICK h : (\A n \in 0..Len(t) : h[n] = Written(t, h, n)) /\ CachedString(t) = h[Len(t)]
  BY <1>1, StringIs
<1>4. \A n \in 0..Len(s) : h[n] = g[n]
  <2> DEFINE T == {n \in 0..Len(s) : h[n] # g[n]}
  <2>1. SUFFICES ASSUME T # {} PROVE FALSE
    OBVIOUS
  <2>2. T \in SUBSET Nat
    OBVIOUS
  <2>3. PICK n \in T : \A m \in T : n <= m
    BY <2>1, <2>2, LeastNatural
  <2>4. n \in 0..Len(s) /\ n \in 0..Len(t) /\ n \in Nat /\ h[n] # g[n]
    BY <2>3, <1>1
  <2>5. CASE n = 0
    BY <2>4, <2>5, <1>2, <1>3 DEF Written
  <2>6. CASE n # 0
    <3>1. n - 1 \in 0..Len(s) /\ ~ (n <= n - 1)
      BY <2>4, <2>6
    <3>2. h[n - 1] = g[n - 1] /\ t[n] = s[n]
      BY <3>1, <2>3, <2>4, <2>6, <1>1
    <3>3. h[n] = Written(t, h, n) /\ g[n] = Written(s, g, n)
      BY <2>4, <1>2, <1>3
    <3> QED
      BY <3>2, <3>3, <2>4, <2>6 DEF Written
  <2> QED
    BY <2>5, <2>6
<1>5. h[Len(t)] = Written(t, h, Len(t)) /\ Len(t) # 0 /\ Len(t) - 1 = Len(s) /\ Len(s) \in 0..Len(s)
  BY <1>1, <1>3
<1>6. h[Len(t)] = Append(h[Len(s)] \o t[Len(t)], Separator)
  BY <1>5 DEF Written
<1> QED
  BY <1>1, <1>2, <1>3, <1>4, <1>5, <1>6 DEF t

\* The string begins and ends with a separator.
LEMMA StringEnds ==
    ASSUME NEW s \in Seq(Names)
    PROVE  /\ CachedString(s) \in Seq(Char)
           /\ Len(CachedString(s)) \in Nat /\ Len(CachedString(s)) >= 1
           /\ CachedString(s)[Len(CachedString(s))] = Separator
<1> DEFINE t == CachedString(s)
<1> SUFFICES t \in Seq(Char) /\ Len(t) \in Nat /\ Len(t) >= 1 /\ t[Len(t)] = Separator
  OBVIOUS
<1>1. PICK g \in [0..Len(s) -> Seq(Char)] :
           (\A n \in 0..Len(s) : g[n] = Written(s, g, n)) /\ t = g[Len(s)]
  BY StringIs
<1> HIDE DEF t
<1>2. Len(s) \in Nat /\ Len(s) \in 0..Len(s) /\ t \in Seq(Char) /\ t = g[Len(s)]
  BY <1>1
<1>3. t = Written(s, g, Len(s))
  BY <1>1, <1>2
<1>4. CASE Len(s) = 0
  BY <1>1, <1>2, <1>3, <1>4 DEF Written
<1>5. CASE Len(s) # 0
  <2>1. s[Len(s)] \in Names /\ Len(s) - 1 \in 0..Len(s)
    BY <1>2, <1>5
  <2>2. g[Len(s) - 1] \in Seq(Char)
    BY <2>1, <1>1
  <2>3. t = Append(g[Len(s) - 1] \o s[Len(s)], Separator)
    BY <1>3, <1>5 DEF Written
  <2>4. Len(t) = Len(g[Len(s) - 1]) + Len(s[Len(s)]) + 1 /\ t[Len(t)] = Separator
    <3>1. Consists(t, g[Len(s) - 1], s[Len(s)])
      BY <2>1, <2>2, <2>3, WrittenIsText, Zenon
    <3> QED
      BY <3>1 DEF Consists
  <2>5. Len(g[Len(s) - 1]) \in Nat /\ Len(s[Len(s)]) \in Nat
    <3>1. Len(s[Len(s)]) \in Nat
      BY <2>1, NameIs, Zenon
    <3> QED
      BY <2>2, <3>1
  <2>6. Len(t) \in Nat /\ Len(t) >= 1
    BY <2>4, <2>5
  <2> QED
    BY <1>2, <2>4, <2>6
<1> QED
  BY <1>4, <1>5

\* The last component begins behind the last separator but one.
LEMMA NotLonger ==
    ASSUME NEW a \in Seq(Char), NEW x \in Names,
           NEW b \in Seq(Char), Len(b) >= 1, b[Len(b)] = Separator, NEW y \in Names,
           NEW u, Consists(u, a, x), Consists(u, b, y)
    PROVE  Len(b) <= Len(a)
<1>1. /\ Len(u) = Len(a) + Len(x) + 1
      /\ \A i \in 1..Len(x) : u[Len(a) + i] = x[i]
  BY DEF Consists
<1>2. /\ Len(u) = Len(b) + Len(y) + 1
      /\ \A i \in 1..Len(b) : u[i] = b[i]
  BY DEF Consists
<1>3. /\ Len(x) \in Nat /\ \A i \in 1..Len(x) : x[i] # Separator
      /\ Len(y) \in Nat /\ Len(y) > 0
  BY NameIs
<1>4. Len(a) \in Nat /\ Len(b) \in Nat
  OBVIOUS
<1>5. SUFFICES ASSUME Len(a) < Len(b) PROVE FALSE
  BY <1>4
<1>6. Len(b) - Len(a) \in 1..Len(x)
  BY <1>1, <1>2, <1>3, <1>4, <1>5
<1>7. u[Len(a) + (Len(b) - Len(a))] # Separator
  BY <1>1, <1>3, <1>6
<1>8. Len(a) + (Len(b) - Len(a)) = Len(b) /\ Len(b) \in 1..Len(b)
  BY <1>4
<1>9. u[Len(b)] = Separator
  BY <1>2, <1>8
<1> QED
  BY <1>7, <1>8, <1>9

LEMMA LastApart ==
    ASSUME NEW a \in Seq(Char), Len(a) >= 1, a[Len(a)] = Separator, NEW x \in Names,
           NEW b \in Seq(Char), Len(b) >= 1, b[Len(b)] = Separator, NEW y \in Names,
           NEW u, Consists(u, a, x), Consists(u, b, y)
    PROVE  a = b /\ x = y
<1>1. /\ Len(u) = Len(a) + Len(x) + 1
      /\ \A i \in 1..Len(a) : u[i] = a[i]
      /\ \A i \in 1..Len(x) : u[Len(a) + i] = x[i]
  BY DEF Consists
<1>2. /\ Len(u) = Len(b) + Len(y) + 1
      /\ \A i \in 1..Len(b) : u[i] = b[i]
      /\ \A i \in 1..Len(y) : u[Len(b) + i] = y[i]
  BY DEF Consists
<1>3. Len(a) \in Nat /\ Len(b) \in Nat
  OBVIOUS
<1>4. x \in Seq(Char) /\ Len(x) \in Nat /\ y \in Seq(Char) /\ Len(y) \in Nat
  BY NameIs
<1>5. Len(b) <= Len(a) /\ Len(a) <= Len(b)
  BY NotLonger, Zenon
<1>6. Len(a) = Len(b) /\ Len(x) = Len(y)
  BY <1>1, <1>2, <1>3, <1>4, <1>5
<1>7. \A i \in 1..Len(a) : a[i] = b[i]
  BY <1>1, <1>2, <1>6
<1>8. \A i \in 1..Len(x) : x[i] = y[i]
  BY <1>1, <1>2, <1>6
<1>9. a = b
  BY <1>6, <1>7
<1>10. x = y
  BY <1>4, <1>6, <1>8
<1> QED
  BY <1>9, <1>10

\* A scope that is not the root one
LEMMA ScopeParts ==
    ASSUME NEW s \in Seq(Names), Len(s) # 0
    PROVE  \E f \in Seq(Names), x \in Names : s = Append(f, x) /\ Len(f) = Len(s) - 1
<1> DEFINE f == [i \in 1..(Len(s) - 1) |-> s[i]]
<1>0. Len(s) \in Nat /\ Len(s) - 1 \in 0..Len(s) /\ Len(s) \in 1..Len(s)
  OBVIOUS
<1>1. f \in Seq(Names) /\ Len(f) = Len(s) - 1 /\ s[Len(s)] \in Names
  <2>1. f \in [1..(Len(s) - 1) -> Names]
    BY <1>0
  <2> QED
    BY <2>1, <1>0
<1>2. s = Append(f, s[Len(s)])
  <2>1. Append(f, s[Len(s)]) \in Seq(Names) /\ Len(Append(f, s[Len(s)])) = Len(s)
    BY <1>1
  <2>2. \A i \in 1..Len(s) : Append(f, s[Len(s)])[i] = s[i]
    BY <1>1
  <2> QED
    BY <2>1, <2>2
<1> QED
  BY <1>1, <1>2

\* Two scopes have two strings.
LEMMA StringsApart ==
    ASSUME NEW s \in Seq(Names), NEW t \in Seq(Names), CachedString(s) = CachedString(t)
    PROVE  s = t
<1> DEFINE Bad(n) == \E p, q \in Seq(Names) :
                         Len(p) = n /\ p # q /\ CachedString(p) = CachedString(q)
           T == {n \in Nat : Bad(n)}
<1>1. SUFFICES T = {}
  <2>1. Len(s) \in Nat
    OBVIOUS
  <2> QED
    BY <2>1
<1>2. SUFFICES ASSUME T # {} PROVE FALSE
  OBVIOUS
<1>3. PICK n \in T : \A m \in T : n <= m
  BY <1>2, LeastNatural
<1>4. PICK p \in Seq(Names), q \in Seq(Names) :
           Len(p) = n /\ p # q /\ CachedString(p) = CachedString(q)
  BY <1>3
<1>5. n \in Nat /\ \A m \in T : ~ (m < n)
  BY <1>3
<1> HIDE DEF T
\* The string of the root scope is that of no other.
<1>6. ASSUME NEW r \in Seq(Names), CachedString(r) = <<Separator>> PROVE r = <<>>
  <2> SUFFICES ASSUME Len(r) # 0 PROVE FALSE
    BY <1>6
  <2>1. PICK f \in Seq(Names), x \in Names : r = Append(f, x)
    BY ScopeParts
  <2>2. CachedString(r) = Append(CachedString(f) \o x, Separator)
    BY <2>1, StringGrows
  <2>3. CachedString(f) \in Seq(Char) /\ Len(CachedString(f)) \in Nat
    BY StringEnds
  <2>4. Len(CachedString(r)) = Len(CachedString(f)) + Len(x) + 1 /\ Len(x) \in Nat /\ Len(x) > 0
    BY <2>2, <2>3, WrittenIsText, NameIs DEF Consists
  <2> QED
    BY <2>3, <2>4, <1>6
<1>7. CASE Len(p) = 0
  <2>1. p = <<>> /\ CachedString(q) = <<Separator>>
    BY <1>4, <1>7, RootString
  <2> QED
    BY <2>1, <1>4, <1>6
<1>8. CASE Len(q) = 0
  <2>1. q = <<>> /\ CachedString(p) = <<Separator>>
    BY <1>4, <1>8, RootString
  <2> QED
    BY <2>1, <1>4, <1>6
<1>9. CASE Len(p) # 0 /\ Len(q) # 0
  <2>1. PICK f \in Seq(Names), x \in Names : p = Append(f, x) /\ Len(f) = Len(p) - 1
    BY <1>4, <1>9, ScopeParts
  <2>2. PICK g \in Seq(Names), y \in Names : q = Append(g, y) /\ Len(g) = Len(q) - 1
    BY <1>4, <1>9, ScopeParts
  <2>3. Append(CachedString(f) \o x, Separator) = Append(CachedString(g) \o y, Separator)
    BY <1>4, <2>1, <2>2, StringGrows
  <2>4. CachedString(f) = CachedString(g) /\ x = y
    <3> DEFINE a == CachedString(f)
               b == CachedString(g)
               u == Append(a \o x, Separator)
    <3>1. /\ a \in Seq(Char) /\ Len(a) >= 1 /\ a[Len(a)] = Separator
          /\ b \in Seq(Char) /\ Len(b) >= 1 /\ b[Len(b)] = Separator
      BY StringEnds
    <3> HIDE DEF a, b
    <3>2. Consists(u, a, x) /\ Consists(u, b, y)
      BY <2>3, <3>1, WrittenIsText DEF a, b
    <3> HIDE DEF u
    <3>3. a = b /\ x = y
      BY <3>1, <3>2, LastApart
    <3> QED
      BY <3>3 DEF a, b
  <2>5. f # g
    BY <1>4, <2>1, <2>2, <2>4
  <2>6. n - 1 \in Nat /\ Len(f) = n - 1 /\ n - 1 < n
    BY <1>4, <1>5, <1>9, <2>1
  <2>7. n - 1 \in T
    BY <2>4, <2>5, <2>6 DEF T
  <2> QED
    BY <2>6, <2>7, <1>5
<1> QED
  BY <1>7, <1>8, <1>9

\* Part of a text
LEMMA PartIs ==
    ASSUME NEW S, NEW s \in Seq(S), NEW m \in Nat \ {0}, NEW n \in Nat, n <= Len(s), m <= n + 1
    PROVE  /\ SubSeq(s, m, n) \in Seq(S) /\ Len(SubSeq(s, m, n)) = n - m + 1
           /\ \A j \in 1..(n - m + 1) : SubSeq(s, m, n)[j] = s[m + j - 1]
<1>1. /\ Len(SubSeq(s, m, n)) = n - m + 1
      /\ \A j \in 1..(n - m + 1) : SubSeq(s, m, n)[j] = s[m + j - 1]
  OBVIOUS
<1>2. SubSeq(s, m, n) = [j \in 1..(n - m + 1) |-> s[m + j - 1]]
  OBVIOUS
<1>3. \A j \in 1..(n - m + 1) : s[m + j - 1] \in S
  OBVIOUS
<1>4. n - m + 1 \in Nat
  OBVIOUS
<1>5. \A k \in Nat : \A f :
           f = [j \in 1..k |-> f[j]] /\ (\A j \in 1..k : f[j] \in S) => f \in Seq(S)
  OBVIOUS
<1> QED
  BY <1>1, <1>2, <1>3, <1>4, <1>5

LEMMA PartsJoin ==
    ASSUME NEW S, NEW s \in Seq(S), NEW m \in Nat, NEW n \in Nat, m <= n, n <= Len(s)
    PROVE  SubSeq(s, 1, m) \o SubSeq(s, m + 1, n) = SubSeq(s, 1, n)
<1> DEFINE a == SubSeq(s, 1, m)
           b == SubSeq(s, m + 1, n)
           c == SubSeq(s, 1, n)
<1>1. a \in Seq(S) /\ Len(a) = m /\ \A j \in 1..m : a[j] = s[j]
  BY PartIs
<1>2. b \in Seq(S) /\ Len(b) = n - m /\ \A j \in 1..(n - m) : b[j] = s[m + j]
  BY PartIs
<1>3. c \in Seq(S) /\ Len(c) = n /\ \A j \in 1..n : c[j] = s[j]
  BY PartIs
<1> HIDE DEF a, b, c
<1>4. a \o b \in Seq(S) /\ Len(a \o b) = n
  <2>0. a \in Seq(S) /\ b \in Seq(S)
    BY <1>1, <1>2
  <2>1. a \o b \in Seq(S) /\ Len(a \o b) = Len(a) + Len(b)
    BY <2>0
  <2>2. m + (n - m) = n
    OBVIOUS
  <2> QED
    BY <2>1, <2>2, <1>1, <1>2
<1>5. \A j \in 1..m : (a \o b)[j] = s[j]
  BY <1>1, <1>2
<1>6. ASSUME NEW j \in 1..n, j > m PROVE (a \o b)[j] = s[j]
  <2>1. j - m \in 1..(n - m) /\ m + (j - m) = j
    BY <1>6
  <2>2. (a \o b)[j] = b[j - m]
    BY <1>1, <1>2, <1>6
  <2> QED
    BY <2>1, <2>2, <1>2
<1>7. ASSUME NEW j \in 1..n PROVE (a \o b)[j] = c[j]
  <2>1. c[j] = s[j] /\ (j > m \/ j \in 1..m)
    BY <1>3
  <2> QED
    BY <2>1, <1>5, <1>6
<1>8. a \o b = c
  BY <1>3, <1>4, <1>7
<1> QED
  BY <1>8 DEF a, b, c

LEMMA PartGrows ==
    ASSUME NEW S, NEW s \in Seq(S), NEW n \in Nat \ {0}, n <= Len(s)
    PROVE  Append(SubSeq(s, 1, n - 1), s[n]) = SubSeq(s, 1, n)
<1> DEFINE a == SubSeq(s, 1, n - 1)
           c == SubSeq(s, 1, n)
<1>1. a \in Seq(S) /\ Len(a) = n - 1 /\ \A j \in 1..(n - 1) : a[j] = s[j]
  BY PartIs
<1>2. c \in Seq(S) /\ Len(c) = n /\ \A j \in 1..n : c[j] = s[j]
  BY PartIs
<1>3. s[n] \in S
  OBVIOUS
<1> HIDE DEF a, c
<1>4. Append(a, s[n]) \in Seq(S) /\ Len(Append(a, s[n])) = n
  BY <1>1, <1>3
<1>5. \A j \in 1..n : Append(a, s[n])[j] = c[j]
  BY <1>1, <1>2, <1>3
<1>6. Append(a, s[n]) = c
  BY <1>2, <1>4, <1>5
<1> QED
  BY <1>6 DEF a, c

LEMMA WholeIs ==
    ASSUME NEW S, NEW s \in Seq(S)
    PROVE  SubSeq(s, 1, Len(s)) = s
<1>1. /\ SubSeq(s, 1, Len(s)) \in Seq(S) /\ Len(SubSeq(s, 1, Len(s))) = Len(s)
      /\ \A j \in 1..Len(s) : SubSeq(s, 1, Len(s))[j] = s[j]
  OBVIOUS
<1> QED
  BY <1>1

-----------------------------------------------------------------------------
(* The hierarchy of scopes *)

\* The scopes a bus visits are those that cover the event's.
LEMMA SupersCover ==
    ASSUME NEW S, NEW s \in Seq(S), NEW t \in Seq(S)
    PROVE  t \in Range(SuperScopes(s)) <=> Covers(t, s)
<1>0. Len(s) \in Nat /\ Len(t) \in Nat
  OBVIOUS
<1>1. Range(SuperScopes(s)) = {SubSeq(s, 1, i - 1) : i \in 1..(Len(s) + 1)}
  BY DEF Range, SuperScopes
<1>2. ASSUME NEW i \in 1..(Len(s) + 1), t = SubSeq(s, 1, i - 1) PROVE Covers(t, s)
  <2>1. Len(t) = i - 1 /\ \A j \in 1..(i - 1) : t[j] = s[j]
    BY <1>0, <1>2, PartIs
  <2>2. CASE i = Len(s) + 1
    BY <1>0, <1>2, <2>2, WholeIs DEF Covers
  <2>3. CASE i # Len(s) + 1
    BY <1>0, <2>1, <2>3 DEF Covers, IsSuperScopeOf
  <2> QED
    BY <2>2, <2>3
<1>3. ASSUME Covers(t, s) PROVE \E i \in 1..(Len(s) + 1) : t = SubSeq(s, 1, i - 1)
  <2>1. Len(t) <= Len(s) /\ \A j \in 1..Len(t) : t[j] = s[j]
    BY <1>0, <1>3 DEF Covers, IsSuperScopeOf
  <2>2. /\ SubSeq(s, 1, Len(t)) \in Seq(S) /\ Len(SubSeq(s, 1, Len(t))) = Len(t)
        /\ \A j \in 1..Len(t) : SubSeq(s, 1, Len(t))[j] = s[j]
    BY <1>0, <2>1, PartIs
  <2>3. t = SubSeq(s, 1, Len(t))
    BY <2>1, <2>2
  <2>4. Len(t) + 1 \in 1..(Len(s) + 1) /\ (Len(t) + 1) - 1 = Len(t)
    BY <1>0, <2>1
  <2> QED
    BY <2>3, <2>4
<1> QED
  BY <1>1, <1>2, <1>3

LEMMA SupersAreApart ==
    ASSUME NEW S, NEW s \in Seq(S)
    PROVE  IsInjective(SuperScopes(s))
<1>1. DOMAIN SuperScopes(s) = 1..(Len(s) + 1) /\ Len(s) \in Nat
  BY DEF SuperScopes
<1>2. \A i \in 1..(Len(s) + 1) : SuperScopes(s)[i] = SubSeq(s, 1, i - 1)
  BY DEF SuperScopes
<1>3. ASSUME NEW i \in 1..(Len(s) + 1) PROVE Len(SuperScopes(s)[i]) = i - 1
  BY <1>1, <1>2, PartIs
<1>4. ASSUME NEW i \in 1..(Len(s) + 1), NEW j \in 1..(Len(s) + 1),
             SuperScopes(s)[i] = SuperScopes(s)[j]
      PROVE  i = j
  <2>1. i - 1 = j - 1
    BY <1>3, <1>4
  <2> QED
    BY <2>1
<1> QED
  BY <1>1, <1>4 DEF IsInjective

LEMMA HierarchyIs ==
    ASSUME components \in Seq(Names), OneString
    PROVE  HierarchyAgrees
<1>1. ASSUME NEW n \in 0..Len(components), NEW other \in Near(SubSeq(components, 1, n))
      PROVE  other \in Seq(Names)
  <2>1. SubSeq(components, 1, n) \in Seq(Names)
    BY PartIs
  <2>2. ASSUME NEW c \in Range(components)
        PROVE  Concat(SubSeq(components, 1, n), <<c>>) \in Seq(Names)
    <3>1. c \in Names
      BY DEF Range
    <3> QED
      BY <2>1, <3>1 DEF Concat
  <2> QED
    BY <2>1, <2>2, <1>1 DEF Near
<1>2. ASSUME status = "scope", NEW other \in Seq(Names)
      PROVE  /\ other \in Range(SuperScopes(components)) <=> Covers(other, components)
             /\ IsSubScopeOf(other, components) <=> IsSuperScopeOf(components, other)
             /\ CachedString(other) = string => other = components
  <2>1. other \in Range(SuperScopes(components)) <=> Covers(other, components)
    BY SupersCover
  <2>2. IsSubScopeOf(other, components) <=> IsSuperScopeOf(components, other)
    BY DEF IsSubScopeOf, IsSuperScopeOf
  <2>3. CachedString(other) = string => other = components
    BY <1>2, StringsApart DEF OneString
  <2> QED
    BY <2>1, <2>2, <2>3
<1>3. IsInjective(SuperScopes(components))
  BY SupersAreApart
<1> QED
  BY <1>1, <1>2, <1>3, Zenon DEF HierarchyAgrees

-----------------------------------------------------------------------------
(* The parser of scopes *)

TextChars == Letters \cup Illegal \cup {Separator}

\* What has been read can begin a text of the grammar.
ReadOn ==
    /\ prev \in Nat /\ next \in Nat /\ 1 <= prev /\ prev < next /\ next <= Len(text) + 1
    /\ text[1] = Separator /\ text[prev] = Separator
    /\ \A i \in 1..(next - 1) : text[i] \in Char
    /\ \A i \in (prev + 1)..(next - 1) : text[i] \in Letters
    /\ \A i \in 1..(next - 2) : ~ (text[i] = Separator /\ text[i + 1] = Separator)

\* What has been read is the string of the components found.
ScanInv == ReadOn /\ SubSeq(text, 1, prev) = CachedString(components)

ParseInv ==
    /\ text \in Seq(TextChars)
    /\ components \in Seq(Names)
    /\ status \in {"start", "scan", "scope", "invalid"}
    /\ status = "start" => prev = 1 /\ next = 1 /\ components = <<>>
    /\ status = "scan" => ScanInv
    /\ GrammarDecides /\ OneString

LEMMA TextIs ==
    ASSUME NEW t \in Texts
    PROVE  t \in Seq(TextChars)
<1>1. PICK m \in 0..MaxLength : t \in [1..m -> TextChars]
  BY DEF Texts, SeqOf, TextChars
<1>2. m \in Nat
  BY MaxLengthAssumption
<1> HIDE DEF TextChars
<1> QED
  BY <1>1, <1>2

\* A text that does not belong to the grammar, and cannot by one more separator
LEMMA NotInGrammar ==
    ASSUME NEW t \in Seq(TextChars), t # <<>>,
           \/ t[1] # Separator
           \/ \E i \in 1..Len(t) : t[i] \notin Char
           \/ \E i \in 1..(Len(t) - 1) : t[i] = Separator /\ t[i + 1] = Separator
    PROVE  ~Grammar(t) /\ ~Grammar(Append(t, Separator))
<1> DEFINE u == Append(t, Separator)
<1>1. /\ Len(t) \in Nat /\ Len(t) >= 1 /\ DOMAIN t = 1..Len(t)
      /\ Len(u) = Len(t) + 1 /\ DOMAIN u = 1..Len(u) /\ \A i \in 1..Len(t) : u[i] = t[i]
  <2>1. Separator \in TextChars
    BY DEF TextChars
  <2> HIDE DEF TextChars, Separator
  <2> QED
    BY <2>1
<1> HIDE DEF u
<1>2. CASE t[1] # Separator
  BY <1>1, <1>2 DEF Grammar
<1>3. CASE \E i \in 1..Len(t) : t[i] \notin Char
  <2>1. PICK i \in 1..Len(t) : t[i] \notin Char
    BY <1>3
  <2>2. i \in DOMAIN t /\ i \in DOMAIN u /\ u[i] \notin Char
    BY <1>1, <2>1
  <2> QED
    BY <2>1, <2>2 DEF Grammar, Char, u
<1>4. CASE \E i \in 1..(Len(t) - 1) : t[i] = Separator /\ t[i + 1] = Separator
  <2>1. PICK i \in 1..(Len(t) - 1) : t[i] = Separator /\ t[i + 1] = Separator
    BY <1>4
  <2>2. i \in 1..(Len(u) - 1) /\ u[i] = Separator /\ u[i + 1] = Separator
    BY <1>1, <2>1
  <2> QED
    BY <2>1, <2>2 DEF Grammar, u
<1> QED
  BY <1>2, <1>3, <1>4

LEMMA InGrammar ==
    ASSUME NEW t \in Seq(TextChars), t # <<>>, t[1] = Separator, t[Len(t)] = Separator,
           \A i \in 1..Len(t) : t[i] \in Char,
           \A i \in 1..(Len(t) - 1) : ~ (t[i] = Separator /\ t[i + 1] = Separator)
    PROVE  Grammar(t)
<1>1. DOMAIN t = 1..Len(t) /\ Head(t) = t[1] /\ Last(t) = t[Len(t)]
  BY DEF Last
<1>2. \A i \in 1..(Len(t) - 1) : {t[i], t[i + 1]} # {Separator}
  OBVIOUS
<1> QED
  BY <1>1, <1>2 DEF Grammar, Char

LEMMA ParseInit == ASSUME Init PROVE ParseInv
<1>1. text \in Seq(TextChars)
  BY TextIs DEF Init
<1>2. <<>> \in Seq(Names)
  OBVIOUS
<1> QED
  BY <1>1, <1>2 DEF Init, ParseInv, GrammarDecides, OneString

LEMMA StartKeeps == ASSUME ParseInv, Start PROVE ParseInv'
<1>0. /\ text \in Seq(TextChars) /\ components \in Seq(Names) /\ prev = 1 /\ components = <<>>
      /\ text' = text /\ components' = components /\ prev' = prev /\ string' = string
  BY DEF ParseInv, Start
<1>1. CASE text # <<>> /\ Head(text) = Separator
  <2>1. status' = "scan" /\ next' = 2
    BY <1>0, <1>1 DEF Start
  <2>2. text[1] = Separator /\ Len(text) \in Nat /\ Len(text) >= 1 /\ text[1] \in TextChars
    BY <1>0, <1>1
  <2>3. ReadOn'
    BY <1>0, <2>1, <2>2 DEF ReadOn, Char
  <2>4. SubSeq(text, 1, 1) = <<Separator>>
    <3>1. SubSeq(text, 1, 1) \in Seq(TextChars) /\ Len(SubSeq(text, 1, 1)) = 1
          /\ SubSeq(text, 1, 1)[1] = text[1]
      BY <1>0, <2>2, PartIs
    <3> DEFINE w == <<Separator>>
    <3>2. w \in Seq(TextChars) /\ Len(w) = 1 /\ w[1] = Separator
      BY DEF TextChars
    <3> HIDE DEF w
    <3>3. SubSeq(text, 1, 1) = w
      BY <2>2, <3>1, <3>2
    <3> QED
      BY <3>3 DEF w
  <2>5. CachedString(components) = <<Separator>>
    BY <1>0, RootString
  <2> QED
    BY <1>0, <2>1, <2>3, <2>4, <2>5 DEF ParseInv, ScanInv, GrammarDecides, OneString
<1>2. CASE text = <<>> \/ Head(text) # Separator
  <2>1. status' = "invalid"
    BY <1>2 DEF Start
  <2>2. text = <<>> \/ ~(Grammar(text) \/ Grammar(Append(text, Separator)))
    <3>1. CASE text # <<>>
      <4>1. text[1] # Separator
        BY <1>2, <3>1
      <4> QED
        BY <1>0, <3>1, <4>1, NotInGrammar
    <3> QED
      BY <3>1
  <2> QED
    BY <1>0, <2>1, <2>2 DEF ParseInv, GrammarDecides, OneString
<1> QED
  BY <1>1, <1>2

LEMMA ReadCharacterKeeps == ASSUME ParseInv, ReadCharacter PROVE ParseInv'
<1>0. /\ text \in Seq(TextChars) /\ components \in Seq(Names) /\ ScanInv /\ ReadOn
      /\ text' = text /\ components' = components /\ prev' = prev /\ string' = string
      /\ next <= Len(text) /\ text[next] # Separator
      /\ next \in Nat /\ next >= 1 /\ Len(text) \in Nat
  BY DEF ParseInv, ReadCharacter, ScanInv, ReadOn
<1>1. CASE text[next] \in Letters
  <2>1. status' = "scan" /\ next' = next + 1
    BY <1>1 DEF ReadCharacter
  <2>2. ReadOn'
    BY <1>0, <1>1, <2>1 DEF ReadOn, Char
  <2> QED
    BY <1>0, <2>1, <2>2 DEF ParseInv, ScanInv, GrammarDecides, OneString
<1>2. CASE text[next] \notin Letters
  <2>1. status' = "invalid"
    BY <1>2 DEF ReadCharacter
  <2>2. text # <<>> /\ next \in 1..Len(text) /\ text[next] \notin Char
    BY <1>0, <1>2 DEF Char
  <2>3. ~(Grammar(text) \/ Grammar(Append(text, Separator)))
    BY <1>0, <2>2, NotInGrammar
  <2> QED
    BY <1>0, <2>1, <2>3 DEF ParseInv, GrammarDecides, OneString
<1> QED
  BY <1>1, <1>2

\* What is between two separators is a component.
LEMMA CurrentIs ==
    ASSUME text \in Seq(TextChars), ReadOn, prev + 1 # next
    PROVE  /\ Current \in Names
           /\ SubSeq(text, 1, prev) \o Current = SubSeq(text, 1, next - 1)
<1>1. prev \in Nat /\ next \in Nat /\ prev + 1 <= next - 1 /\ next - 1 <= Len(text)
  BY DEF ReadOn
<1>2. SubSeq(text, 1, prev) \o Current = SubSeq(text, 1, next - 1)
  BY <1>1, PartsJoin DEF Current
<1>3. /\ Current \in Seq(TextChars) /\ Len(Current) = next - prev - 1
      /\ \A j \in 1..(next - prev - 1) : Current[j] = text[prev + j]
  <2>1. /\ Current \in Seq(TextChars) /\ Len(Current) = (next - 1) - (prev + 1) + 1
        /\ \A j \in 1..((next - 1) - (prev + 1) + 1) : Current[j] = text[(prev + 1) + j - 1]
    BY <1>1, PartIs DEF Current
  <2>2. (next - 1) - (prev + 1) + 1 = next - prev - 1
    BY <1>1
  <2>3. \A j \in 1..(next - prev - 1) : (prev + 1) + j - 1 = prev + j
    BY <1>1
  <2>4. QED
    BY <2>1, <2>2, <2>3
<1>4. ASSUME NEW j \in 1..Len(Current) PROVE Current[j] \in Letters
  <2>1. prev + j \in (prev + 1)..(next - 1) /\ j \in 1..(next - prev - 1)
    BY <1>1, <1>3, <1>4
  <2> QED
    BY <1>3, <2>1 DEF ReadOn
<1>5. Len(Current) \in Nat /\ Len(Current) > 0
  BY <1>1, <1>3
<1>6. Current \in Seq(Letters) /\ Current # <<>>
  BY <1>3, <1>4, <1>5
<1> QED
  BY <1>2, <1>6 DEF Names

LEMMA ReadSeparatorKeeps == ASSUME ParseInv, ReadSeparator PROVE ParseInv'
<1>z. /\ text \in Seq(TextChars) /\ components \in Seq(Names) /\ ScanInv
      /\ text' = text /\ string' = string
      /\ next <= Len(text) /\ text[next] = Separator
  BY DEF ParseInv, ReadSeparator
<1>0. /\ text \in Seq(TextChars) /\ components \in Seq(Names) /\ ScanInv /\ ReadOn
      /\ text' = text /\ string' = string
      /\ next <= Len(text) /\ text[next] = Separator /\ Len(text) \in Nat
      /\ prev \in Nat /\ next \in Nat /\ 1 <= prev /\ prev < next
  BY <1>z DEF ScanInv, ReadOn
<1>1. CASE next - prev = 1
  <2>1. status' = "invalid" /\ components' = components
    BY <1>1 DEF ReadSeparator
  <2>2. /\ text # <<>> /\ prev \in 1..(Len(text) - 1)
        /\ text[prev] = Separator /\ text[prev + 1] = Separator
    BY <1>0, <1>1 DEF ReadOn
  <2>3. ~(Grammar(text) \/ Grammar(Append(text, Separator)))
    BY <1>0, <2>2, NotInGrammar
  <2> QED
    BY <1>0, <2>1, <2>3 DEF ParseInv, GrammarDecides, OneString
<1>2. CASE next - prev # 1
  <2>1. /\ status' = "scan" /\ components' = Append(components, Current)
        /\ prev' = next /\ next' = next + 1
    BY <1>0, <1>2 DEF ReadSeparator, ParseInv
  <2>2. Current \in Names /\ SubSeq(text, 1, prev) \o Current = SubSeq(text, 1, next - 1)
    BY <1>0, <1>2, CurrentIs
  <2>3. Append(components, Current) \in Seq(Names)
    BY <1>0, <2>2
  <2>4. CachedString(Append(components, Current)) = SubSeq(text, 1, next)
    <3>1. CachedString(Append(components, Current))
              = Append(CachedString(components) \o Current, Separator)
      BY <1>0, <2>2, StringGrows
    <3>2. Append(SubSeq(text, 1, next - 1), Separator) = SubSeq(text, 1, next)
      BY <1>0, PartGrows
    <3> QED
      BY <1>0, <2>2, <3>1, <3>2 DEF ScanInv
  <2>5. ReadOn'
    <3>1. text[next - 1] # Separator
      <4>1. next - 1 \in (prev + 1)..(next - 1)
        BY <1>0, <1>2
      <4> QED
        BY <1>0, <4>1, CharactersAssumption DEF ReadOn
    <3>2. \A i \in 1..((next + 1) - 2) : ~ (text[i] = Separator /\ text[i + 1] = Separator)
      <4> TAKE i \in 1..((next + 1) - 2)
      <4>1. i = next - 1 \/ i \in 1..(next - 2)
        BY <1>0
      <4> QED
        BY <1>0, <3>1, <4>1 DEF ReadOn
    <3>3. \A i \in 1..((next + 1) - 1) : text[i] \in Char
      BY <1>0 DEF ReadOn, Char
    <3> QED
      BY <1>0, <2>1, <3>2, <3>3 DEF ReadOn
  <2> QED
    BY <1>0, <2>1, <2>3, <2>4, <2>5 DEF ParseInv, ScanInv, GrammarDecides, OneString
<1> QED
  BY <1>1, <1>2

LEMMA FinishKeeps == ASSUME ParseInv, Finish PROVE ParseInv'
<1>0. /\ text \in Seq(TextChars) /\ components \in Seq(Names) /\ ScanInv /\ ReadOn
      /\ text' = text /\ status' = "scope"
      /\ next = Len(text) + 1 /\ Len(text) \in Nat
      /\ prev \in Nat /\ next \in Nat /\ 1 <= prev /\ prev < next
  BY DEF ParseInv, Finish, ScanInv, ReadOn
<1>1. /\ text # <<>> /\ text[1] = Separator
      /\ \A i \in 1..Len(text) : text[i] \in Char
      /\ \A i \in 1..(Len(text) - 1) : ~ (text[i] = Separator /\ text[i + 1] = Separator)
  BY <1>0 DEF ReadOn
<1>2. CASE prev + 1 = next
  <2>1. text[Len(text)] = Separator /\ prev = Len(text)
    BY <1>0, <1>2 DEF ReadOn
  <2>2. string' = text /\ components' = components
    BY <1>2, <2>1 DEF Finish, Last
  <2>3. Grammar(text)
    BY <1>0, <1>1, <2>1, InGrammar
  <2>4. text = CachedString(components)
    BY <1>0, <2>1, WholeIs DEF ScanInv
  <2> QED
    BY <1>0, <2>2, <2>3, <2>4 DEF ParseInv, GrammarDecides, OneString
<1>3. CASE prev + 1 # next
  <2>1. Current \in Names /\ SubSeq(text, 1, prev) \o Current = SubSeq(text, 1, next - 1)
    BY <1>0, <1>3, CurrentIs
  <2>2. text[Len(text)] # Separator
    <3>1. Len(text) \in (prev + 1)..(next - 1)
      BY <1>0, <1>3
    <3> QED
      BY <1>0, <3>1, CharactersAssumption DEF ReadOn
  <2>3. string' = Append(text, Separator) /\ components' = Append(components, Current)
    BY <1>3, <2>2 DEF Finish, Last
  <2>4. Append(components, Current) \in Seq(Names)
    BY <1>0, <2>1
  <2>5. CachedString(Append(components, Current)) = Append(text, Separator)
    <3>1. CachedString(Append(components, Current))
              = Append(CachedString(components) \o Current, Separator)
      BY <1>0, <2>1, StringGrows
    <3>2. SubSeq(text, 1, next - 1) = text
      BY <1>0, WholeIs
    <3> QED
      BY <1>0, <2>1, <3>1, <3>2 DEF ScanInv
  <2>6. Grammar(Append(text, Separator))
    <3> DEFINE u == Append(text, Separator)
    <3>1. /\ u \in Seq(TextChars) /\ Len(u) = Len(text) + 1
          /\ \A i \in 1..Len(text) : u[i] = text[i]
          /\ u[Len(u)] = Separator
      <4>1. Separator \in TextChars
        BY DEF TextChars
      <4> HIDE DEF TextChars, Separator
      <4> QED
        BY <1>0, <4>1
    <3> HIDE DEF u
    <3>2. u # <<>> /\ u[1] = Separator /\ \A i \in 1..Len(u) : u[i] \in Char
      BY <1>0, <1>1, <3>1 DEF Char
    <3>3. \A i \in 1..(Len(u) - 1) : ~ (u[i] = Separator /\ u[i + 1] = Separator)
      <4> TAKE i \in 1..(Len(u) - 1)
      <4>1. i = Len(text) \/ (i \in 1..(Len(text) - 1) /\ i + 1 \in 1..Len(text))
        BY <1>0, <3>1
      <4>2. i \in 1..Len(text) /\ u[i] = text[i]
        BY <1>0, <3>1, <4>1
      <4> QED
        BY <1>0, <1>1, <2>2, <3>1, <4>1, <4>2
    <3>4. Grammar(u)
      BY <3>1, <3>2, <3>3, InGrammar
    <3> QED
      BY <3>4 DEF u
  <2> QED
    BY <1>0, <2>3, <2>4, <2>5, <2>6 DEF ParseInv, GrammarDecides, OneString
<1> QED
  BY <1>2, <1>3

\* A text becomes a scope if and only if it belongs to the grammar that
\* Scope.cpp:45 gives or lacks only the last separator; the scope then has the
\* one string that its components are written as, and what the buses ask of the
\* hierarchy in different ways they are answered alike.
THEOREM OneScopeOneString == Spec => []ScopesAgree
<1>1. Init => ParseInv
  BY ParseInit
<1>2. ParseInv /\ [Next]_vars => ParseInv'
  <2> SUFFICES ASSUME ParseInv, [Next]_vars PROVE ParseInv'
    OBVIOUS
  <2>1. CASE Start
    BY <2>1, StartKeeps
  <2>2. CASE ReadSeparator
    BY <2>2, ReadSeparatorKeeps
  <2>3. CASE ReadCharacter
    BY <2>3, ReadCharacterKeeps
  <2>4. CASE Finish
    BY <2>4, FinishKeeps
  <2>5. CASE UNCHANGED vars
    BY <2>5 DEF vars, ParseInv, ScanInv, ReadOn, GrammarDecides, OneString
  <2> QED
    BY <2>1, <2>2, <2>3, <2>4, <2>5 DEF Next
<1>3. ParseInv => ScopesAgree
  BY HierarchyIs DEF ParseInv, ScopesAgree
<1> QED
  BY <1>1, <1>2, <1>3, PTL DEF Spec
==============================================================================
