---------------------------- MODULE Configuration ----------------------------
(***************************************************************************)
(* What a process does before its first participant: the constructor of      *)
(* rsb/Factory.cpp with the registries it fills (transport/transports.cpp,   *)
(* transport/Factory.h, converter/converters.cpp, converter/Repository.h)    *)
(* and the options it hands to rsb/ParticipantConfig.cpp, those of           *)
(* configuration files first and those of the environment after them.        *)
(*                                                                         *)
(* An option is a key, a sequence of components, and a value.  "0" and "1"   *)
(* are the only truth values; keys have the components the code reads.       *)
(* Once there is a factory, the program can change its default configuration: *)
(* it gets a copy, and sets it again.                                        *)
(***************************************************************************)
EXTENDS Naturals, Sequences, FiniteSets

CONSTANTS Options,            \* the options that may be given
          MaxOptions,         \* bound on the options that are given
          WithSocket,         \* RSB_WITH_SOCKET_TRANSPORT
          Plugins,            \* connectors of plugins: name, directions, remote
          DefaultConverters,  \* the signatures registerDefaultConverters registers
          OtherConverters     \* those a program or a plugin may register

Strategies == {"receivingstrategy", "sendingstrategy"}
Directions == {"in-push", "in-pull", "out"}

ASSUME OptionsAssumption ==
    /\ Options \subseteq [key : Seq(STRING), value : STRING]
    /\ \A o \in Options : Len(o.key) >= 1
    /\ \A o \in Options : o.key[1] \in {"errorhandling", "eventprocessing"} => Len(o.key) >= 2
ASSUME SocketAssumption == WithSocket \in BOOLEAN

\* ConnectorFactory::ConnectorInfo, for all three directions
IsConnectorInfo(info) == info.directions \subseteq Directions /\ info.remote \in BOOLEAN

ASSUME PluginsAssumption == \A p \in Plugins : p.name \in STRING /\ IsConnectorInfo(p)

VARIABLES stage,      \* how far the constructor of Factory has come
          registry,   \* the connectors of getInPushFactory, ... by transport
          repository, \* converterRepository: signatures
          config,     \* Factory::defaultConfig
          given,      \* the options handled so far, those that do what the program
                      \* has done by itself included (history)
          anew        \* the transports the program has added or removed: nothing
                      \* that was said of them before counts (history)

configVars == <<stage, registry, repository, config, given, anew>>

\* A table with an entry that is new or replaces the one with that key
With(table, key, entry) ==
    [k \in DOMAIN table \cup {key} |-> IF k = key THEN entry ELSE table[k]]

\* registerDefaultTransports
DefaultTransports ==
    [name \in {"inprocess"} \cup IF WithSocket THEN {"socket"} ELSE {} |->
        [directions |-> Directions, remote |-> name = "socket"]]

\* getAvailableTransports with all three directions required
AvailableTransports == {t \in DOMAIN registry : registry[t].directions = Directions}

\* isRemote; the connectors of a transport agree about it.
IsRemote(t) == registry[t].remote

\* ParticipantConfig::Transport: its options, and the converters it names
IsTransport(transport) ==
    /\ DOMAIN transport = {"options", "converters"}
    /\ \A n \in transport.converters : Len(n) = 2

NewTransport(enabled) ==
    [options |-> IF enabled THEN <<>> ELSE With(<<>>, "enabled", "0"), converters |-> {}]

\* QualityOfServiceSpec
QualityOfService == [reliability |-> {"UNRELIABLE", "RELIABLE"}, ordering |-> {"UNORDERED", "ORDERED"}]

ErrorStrategies == {"LOG", "PRINT", "EXIT"}

\* ParticipantConfig
IsConfig(c) ==
    /\ c.reliability \in QualityOfService.reliability /\ c.ordering \in QualityOfService.ordering
    /\ c.onhandlererror \in ErrorStrategies
    /\ DOMAIN c.strategyOptions = Strategies
    /\ \A t \in DOMAIN c.transports : IsTransport(c.transports[t])

\* ParticipantConfig::ParticipantConfig
FreshConfig ==
    [reliability |-> "RELIABLE", ordering |-> "UNORDERED", onhandlererror |-> "LOG",
     receivingstrategy |-> "parallel", sendingstrategy |-> "direct",
     strategyOptions |-> [s \in Strategies |-> <<>>],
     introspection |-> "1", options |-> <<>>, transports |-> <<>>]

\* getTransports(false): enabled unless an option says otherwise
EnabledTransports ==
    {t \in DOMAIN config.transports :
        LET options == config.transports[t].options
        IN  "enabled" \in DOMAIN options => options["enabled"] = "1"}

ConfigInit ==
    /\ stage = "plugins"
    /\ registry = DefaultTransports
    /\ repository = DefaultConverters
    /\ config = FreshConfig
    /\ given = <<>>
    /\ anew = {}

-----------------------------------------------------------------------------
(* Before the options *)

\* A plugin registers the connectors of a new transport.
LoadPlugin(p) ==
    /\ stage = "plugins"
    /\ p.name \notin DOMAIN registry
    /\ registry' = With(registry, p.name, [directions |-> p.directions, remote |-> p.remote])
    /\ UNCHANGED <<stage, repository, config, given, anew>>

\* Repository::registerConverter, by a plugin or by the program at any time
RegisterConverter(s) ==
    /\ stage # "failed"
    /\ s \notin repository
    /\ repository' = repository \cup {s}
    /\ UNCHANGED <<stage, registry, config, given, anew>>

\* Only the socket transport starts enabled.  The rule for a single transport
\* counts the enabled ones: what it enables is enabled already.
SetUp ==
    /\ stage = "plugins"
    /\ stage' = "options"
    /\ config' = [FreshConfig EXCEPT !.transports =
                     [t \in AvailableTransports |-> NewTransport(t = "socket")]]
    /\ UNCHANGED <<registry, repository, given, anew>>

-----------------------------------------------------------------------------
(* ParticipantConfig::handleOption, a section each *)

\* The keys that mean something in a section, and their values
Settings ==
    [qualityofservice |-> QualityOfService,
     errorhandling    |-> [onhandlererror |-> ErrorStrategies],
     eventprocessing  |-> [s \in Strategies |-> STRING]]

HasSetting(o) == o.key[1] \in DOMAIN Settings /\ o.key[2] \in DOMAIN Settings[o.key[1]]

\* The options that end the constructor with an exception
Invalid(o) ==
    LET section == o.key[1] IN
    \/ section = "qualityofservice" /\ Len(o.key) # 2
    \/ HasSetting(o) /\ o.value \notin Settings[section][o.key[2]]
    \/ section = "eventprocessing" /\ (~HasSetting(o) \/ Len(o.key) > 3)
    \/ section = "transport" /\ Len(o.key) < 3
    \/ /\ section = "transport" /\ Len(o.key) > 3
       /\ o.key[3] = "converter" => o.key[4] = "cpp" /\ Len(o.key) # 5

Handle(o) ==
    /\ stage = "options" /\ Len(given) < MaxOptions
    /\ ~Invalid(o)
    /\ given' = Append(given, o)
    /\ UNCHANGED <<stage, registry, repository, anew>>

\* qualityofservice, errorhandling and eventprocessing; other keys are ignored
HandleSetting(o) ==
    /\ o.key[1] \in DOMAIN Settings
    /\ Handle(o)
    /\ config' = CASE ~HasSetting(o) -> config
                   [] o.key[1] = "eventprocessing" /\ Len(o.key) = 3 ->
                          [config EXCEPT !.strategyOptions[o.key[2]] = With(@, o.key[3], o.value)]
                   [] OTHER -> [config EXCEPT ![o.key[2]] = o.value]

HandleIntrospection(o) ==
    /\ o.key[1] = "introspection"
    /\ Handle(o)
    /\ config' = IF o.key = <<"introspection", "enabled">>
                 THEN [config EXCEPT !.introspection = o.value] ELSE config

\* Mutated: an option that is there already keeps its value.
WithOption_insert(transport, key, value) ==
    CASE key[1] = "converter" /\ Len(key) = 3 /\ key[2] = "cpp" ->
             [transport EXCEPT !.converters = @ \cup {<<key[3], value>>}]
      [] key[1] = "converter" /\ Len(key) >= 2 /\ key[2] # "cpp" -> transport
      [] OTHER -> [transport EXCEPT !.options = IF key[1] \in DOMAIN @ THEN @ ELSE With(@, key[1], value)]

\* Transport::handleOption: converters accumulate, other options are overwritten.
WithOption(transport, key, value) ==
    CASE key[1] = "converter" /\ Len(key) = 3 /\ key[2] = "cpp" ->
             [transport EXCEPT !.converters = @ \cup {<<key[3], value>>}]
      [] key[1] = "converter" /\ Len(key) >= 2 /\ key[2] # "cpp" -> transport
      [] OTHER -> [transport EXCEPT !.options = With(@, key[1], value)]

\* A transport nobody has registered is added, and enabled, when it is mentioned.
HandleTransport(o) ==
    /\ o.key[1] = "transport"
    /\ Handle(o)
    /\ LET t == o.key[2]
           transport == IF t \in DOMAIN config.transports THEN config.transports[t] ELSE NewTransport(TRUE)
       IN  config' = [config EXCEPT !.transports =
                         With(@, t, WithOption(transport, SubSeq(o.key, 3, Len(o.key)), o.value))]

\* An option for all participants
HandleGlobal(o) ==
    /\ o.key[1] \notin DOMAIN Settings \cup {"introspection", "transport"}
    /\ Handle(o)
    /\ config' = IF Len(o.key) = 1
                 THEN [config EXCEPT !.options = With(@, o.key[1], o.value)] ELSE config

\* The exception leaves the constructor: there is no factory.
Refuse(o) ==
    /\ stage = "options" /\ Len(given) < MaxOptions
    /\ Invalid(o)
    /\ stage' = "failed"
    /\ UNCHANGED <<registry, repository, config, given, anew>>

\* The factory is there and participants can be made.
Complete ==
    /\ stage = "options"
    /\ stage' = "ready"
    /\ UNCHANGED <<registry, repository, config, given, anew>>

-----------------------------------------------------------------------------
(* What the program does with getDefaultParticipantConfig(), the methods of   *)
(* ParticipantConfig, and setDefaultParticipantConfig(): as an option would do *)

SetDefaultConfig(changed, key, value) ==
    /\ stage = "ready" /\ Len(given) < MaxOptions
    /\ config' = changed
    /\ given' = Append(given, [key |-> key, value |-> value])
    /\ UNCHANGED <<stage, registry, repository>>

\* Transport::setEnabled; mutableTransport throws for one that is not there.
SetEnabled(t, value) ==
    /\ t \in DOMAIN config.transports
    /\ anew' = anew
    /\ SetDefaultConfig([config EXCEPT !.transports[t].options = With(@, "enabled", value)],
                        <<"transport", t, "enabled">>, value)

\* addTransport replaces one that is there, with its options and converters.
AddTransport(t, enabled) ==
    /\ anew' = anew \cup {t}
    /\ SetDefaultConfig([config EXCEPT !.transports = With(@, t, NewTransport(enabled))],
                        <<"transport", t, "enabled">>, IF enabled THEN "1" ELSE "0")

RemoveTransport(t) ==
    /\ anew' = anew \cup {t}
    /\ SetDefaultConfig([config EXCEPT !.transports = [u \in DOMAIN @ \ {t} |-> @[u]]],
                        <<"transport", t, "enabled">>, "0")

\* setQualityOfServiceSpec, setErrorStrategy, EventProcessingStrategy::setName
SetSetting(section, key, value) ==
    /\ anew' = anew
    /\ SetDefaultConfig([config EXCEPT ![key] = value], <<section, key>>, value)

SetIsIntrospectionEnabled(value) ==
    /\ anew' = anew
    /\ SetDefaultConfig([config EXCEPT !.introspection = value], <<"introspection", "enabled">>, value)

Reconfigure ==
    \/ \E t \in DOMAIN registry :
           \/ \E value \in {"0", "1"} : SetEnabled(t, value)
           \/ \E enabled \in BOOLEAN : AddTransport(t, enabled)
           \/ RemoveTransport(t)
    \/ \E s \in QualityOfService.ordering : SetSetting("qualityofservice", "ordering", s)
    \/ \E s \in ErrorStrategies : SetSetting("errorhandling", "onhandlererror", s)
    \/ \E s \in {"direct", "parallel"} : SetSetting("eventprocessing", "receivingstrategy", s)
    \/ \E value \in {"0", "1"} : SetIsIntrospectionEnabled(value)

ConfigNext ==
    \/ \E p \in Plugins : LoadPlugin(p)
    \/ \E s \in OtherConverters : RegisterConverter(s)
    \/ SetUp
    \/ \E o \in Options : \/ HandleSetting(o) \/ HandleIntrospection(o)
                          \/ HandleTransport(o) \/ HandleGlobal(o) \/ Refuse(o)
    \/ Complete
    \/ Reconfigure

ConfigSpec == ConfigInit /\ [][ConfigNext]_configVars

-----------------------------------------------------------------------------
(* Properties *)

\* Where a key was given, and where a setting was: the code reads no more than
\* the first two components of the error strategy's key.
GivenAt(key) == {i \in DOMAIN given : given[i].key = key}
SettingAt(section, key) ==
    {i \in DOMAIN given : /\ given[i].key[1] = section /\ given[i].key[2] = key
                          /\ Len(given[i].key) = 2 \/ section = "errorhandling"}

\* The value of the last of the options at some places
LastAt(options, places, default) ==
    IF places = {} THEN default
    ELSE options[CHOOSE i \in places : \A j \in places : j <= i].value

LastGiven(key, default) == LastAt(given, GivenAt(key), default)

\* Of all sources of the configuration, the program being the last, the last one
\* that says something of a setting or an option counts, whatever was said before
\* (ParticipantConfig.cpp:295).
LastOneWins ==
    stage \in {"options", "ready"} =>
        /\ \A section \in DOMAIN Settings : \A key \in DOMAIN Settings[section] :
              config[key] = LastAt(given, SettingAt(section, key), FreshConfig[key])
        /\ \A s \in Strategies : \A key \in DOMAIN config.strategyOptions[s] :
              config.strategyOptions[s][key] = LastGiven(<<"eventprocessing", s, key>>, "")
        /\ config.introspection = LastGiven(<<"introspection", "enabled">>, "1")
        /\ \A key \in DOMAIN config.options : config.options[key] = LastGiven(<<key>>, "")
        /\ \A t \in DOMAIN config.transports : \A key \in DOMAIN config.transports[t].options :
              config.transports[t].options[key]
                  = LastGiven(<<"transport", t, key>>, IF t = "socket" THEN "1" ELSE "0")

AllGiven == {given[i] : i \in DOMAIN given}
WordsOn(t) ==
    IF t \in anew THEN {} ELSE {o \in AllGiven : o.key[1] = "transport" /\ o.key[2] = t}

\* No option is lost and none is made up: whatever the sources have named is
\* there.  Converters are no exception to that and are one to LastOneWins: all
\* that any source names stay (ParticipantConfig.cpp:106), two for one schema and
\* two for one type too; which of them a connector takes, and that it may refuse
\* them, is the matter of Converters.
NothingIsLost ==
    stage \in {"options", "ready"} =>
        /\ \A s \in Strategies :
              DOMAIN config.strategyOptions[s]
                  = {o.key[3] : o \in {g \in AllGiven : /\ g.key[1] = "eventprocessing"
                                                       /\ Len(g.key) = 3 /\ g.key[2] = s}}
        /\ DOMAIN config.options
               = {o.key[1] : o \in {g \in AllGiven : Len(g.key) = 1 /\ g.key[1] # "introspection"}}
        /\ \A t \in DOMAIN config.transports :
              /\ DOMAIN config.transports[t].options \ {"enabled"}
                     = {o.key[3] : o \in {g \in WordsOn(t) : Len(g.key) = 3}} \ {"enabled"}
              /\ config.transports[t].converters
                     = {<<o.key[5], o.value>> :
                           o \in {g \in WordsOn(t) : Len(g.key) = 5 /\ g.key[4] = "cpp"}}
        /\ \A o \in AllGiven :
              o.key[1] = "transport" /\ o.key[2] \notin anew => o.key[2] \in DOMAIN config.transports

\* A participant uses a transport if the last word on it enables it.  With no
\* word on it, it is the socket transport, or one that is configured although no
\* plugin provides all its connectors (Factory.cpp:236, ParticipantConfig.cpp:367).
EnabledAsAsked ==
    stage = "ready" =>
        \A t \in DOMAIN registry \cup {o.key[2] : o \in {g \in Options : g.key[1] = "transport"}} :
            t \in EnabledTransports <=>
                IF GivenAt(<<"transport", t, "enabled">>) # {}
                THEN LastGiven(<<"transport", t, "enabled">>, "") = "1"
                ELSE IF t \in AvailableTransports THEN t = "socket"
                ELSE \E i \in DOMAIN given : given[i].key[1] = "transport" /\ given[i].key[2] = t

\* A participant is configured as the sources of the configuration ask for
\* (ParticipantConfig.cpp:295, Factory.cpp:236).
ConfiguredAsAsked == IsConfig(config) /\ LastOneWins /\ NothingIsLost /\ EnabledAsAsked
==============================================================================
