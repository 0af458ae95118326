------------------------------- MODULE MCData -------------------------------
(***************************************************************************)
(* Small instances for TLC of the modules about data: a behaviour is the     *)
(* parsing of a scope (ScopeSyntax), the making of a factory (Configuration), *)
(* an event on its way (DataPath), a collection of events that is converted   *)
(* (EventsByScope), calls of a method (TypedCalls), the description of a        *)
(* process (ProcessDescription) or the times of an event (TimeStamps); the     *)
(* others rest.                                                             *)
(***************************************************************************)
EXTENDS ScopeSyntax, DataPath, EventsByScope, TypedCalls, ProcessDescription, TimeStamps

VARIABLE part

-----------------------------------------------------------------------------
(* Configuration and converters *)

Option(key, value) == [key |-> key, value |-> value]

\* A conversion named for each direction of the ambiguities there can be, one of
\* them for a converter nobody has, and an option of each other kind.
MCOptions ==
    { Option(<<"transport", "socket", "enabled">>, "0"),
      Option(<<"transport", "inprocess", "enabled">>, "1"),
      Option(<<"transport", "socket", "converter", "cpp", "utf-8-string">>, "raw"),
      Option(<<"transport", "socket", "converter", "cpp", "utf-8-string">>, "text"),
      Option(<<"transport", "socket", "converter", "cpp", "ascii">>, "text"),
      Option(<<"transport", "socket", "converter", "java", "ascii">>, "text"),
      Option(<<"eventprocessing", "receivingstrategy", "threads">>, "2"),
      Option(<<"transport", "spread", "host">>, "localhost"),
      Option(<<"transport", "spread", "enabled">>, "0"),
      Option(<<"transport", "socket">>, "1"),
      Option(<<"qualityofservice", "ordering">>, "UNORDERED"),
      Option(<<"qualityofservice", "ordering">>, "ORDERED"),
      Option(<<"qualityofservice", "ordering">>, "SORTED"),
      Option(<<"eventprocessing", "receivingstrategy">>, "sideways"),
      Option(<<"introspection", "enabled">>, "0"),
      Option(<<"uuid">>, "1") }

\* The options that matter to an event on its way, in some order; that only
\* the last one of a kind counts is a matter of the options alone.
PathOptions ==
    SetToSeq({o \in MCOptions : \/ Len(o.key) = 5 /\ o.key[4] = "cpp"
                                \/ o.value = "sideways"
                                \/ o.key \in {<<"transport", t, "enabled">> : t \in {"socket", "inprocess"}}})

OnPath(options) ==
    \E places \in [DOMAIN options -> DOMAIN PathOptions] :
        /\ \A i \in DOMAIN options : options[i] = PathOptions[places[i]]
        /\ \A i, j \in DOMAIN options : i < j => places[i] < places[j]

MCPlugins ==
    { [name |-> "spread", directions |-> Directions, remote |-> TRUE],
      [name |-> "spread", directions |-> {"out"}, remote |-> TRUE] }

MCDefaultConverters == { <<"int64", "int">>, <<"utf-8-string", "text">>, <<".*", "bytearray">> }
ASSUME MCDefaultConverters \subseteq RegisteredByDefault
MCOtherConverters == { <<"ascii", "text">>, <<"utf-8-string", "raw">> }
MCTypeNames == << "bytearray", "int", "raw", "text", "void" >>

\* An event that may have caused others
Stranger == [sender |-> "stranger", number |-> 0]

MCInformers == { [scope |-> <<"a">>, type |-> ""], [scope |-> <<"a">>, type |-> "int"] }

\* A request for a method, the least number there is, and a payload whose type
\* has a converter only once that is registered.
MCSendable ==
    { [scope |-> <<"a", "b">>, method |-> "REQUEST", causes |-> {Stranger}, type |-> "text", data |-> <<3, 1>>],
      [scope |-> <<"a">>, method |-> "", causes |-> {}, type |-> "int", data |-> <<-8>>],
      [scope |-> <<"c">>, method |-> "", causes |-> {}, type |-> "raw", data |-> <<2>>] }

BytesOnly == << [predicate |-> TypeNameConverterPredicate("int64"), converter |-> <<"int64", "int">>],
                [predicate |-> AlwaysApplicable(Schemas), converter |-> <<".*", "bytearray">>] >>

\* One that hears everything, and one with every filter; the peer's can also
\* have converters of its own.
MCWishes ==
    { [filters |-> {}, handler |-> Handler({"", "REQUEST"}), converters |-> <<>>],
      [filters |-> { ScopeFilter(<<"a">>), MethodFilter("REPLY", TRUE), TypeFilter("raw", TRUE),
                     OriginFilter("informer", FALSE) },
       handler |-> FilteringHandler(CauseFilter(Stranger, FALSE), Handler({"REQUEST"})), converters |-> <<>>],
      [filters |-> {}, handler |-> Handler({}), converters |-> BytesOnly] }

-----------------------------------------------------------------------------
(* Collections *)

Stored(number, type, data, stamps) ==
    [Converted(NewEvent([sender |-> "p", number |-> number], <<"a">>, "", {Stranger}, type, data), type, data)
        EXCEPT !.infos = "key" :> "value", !.times = stamps]

Early == [created |-> 1, sent |-> 1, received |-> Unset, delivered |-> Unset]
Heard == [created |-> 1, sent |-> 1, received |-> 1, delivered |-> 1]

\* With every kind of payload, least and greatest numbers, and nothing
StoredEvents ==
    { Stored(0, "text", <<1>>, Heard), Stored(1, "int", <<-8>>, Early), Stored(2, "raw", <<>>, Heard),
      [Stored(3, "text", <<1>>, Early) EXCEPT !.id = NoId] }

OtherEvents ==
    { Stored(4, "uint", <<15>>, Early), Stored(5, "double", <<3, 1>>, Early), Stored(6, "void", <<>>, Early),
      Stored(7, "bool", <<0>>, Early), Stored(8, "bool", <<1>>, Heard), Stored(9, "scope", <<>>, Early),
      Stored(10, "scope", <<2, 1>>, Early), Stored(11, "id", <<2, 5>>, Early), Stored(12, "int", <<7>>, Early),
      Stored(13, "bytearray", <<1>>, Early) }

MCCollections ==
    LET lists == {<<>>} \cup {<<e>> : e \in StoredEvents \cup OtherEvents}
                        \cup {<<e[1], e[2]>> : e \in StoredEvents \X StoredEvents}
    IN  UNION {[S -> lists] : S \in SUBSET {<<>>, <<"a">>}}

MCRepositories == { RegisteredByDefault, RegisteredByDefault \cup {<<"bytes", "raw">>} }

-----------------------------------------------------------------------------
(* Calls *)

MCArguments ==
    { [type |-> "int", data |-> <<-8>>], [type |-> "text", data |-> <<1, 2>>],
      [type |-> "void", data |-> <<>>], [type |-> "raw", data |-> <<3>>] }

Negative == [data \in Payloads |-> Value(IF data = <<-8>> THEN <<7>> ELSE <<-1>>)]
Reversed == [data \in Payloads |-> IF Len(data) = 2 THEN Value(<<data[2], data[1]>>) ELSE Thrown]
Always(made) == [data \in Payloads |-> made]
Constant == Always(Value(<<2>>))
From(sender) == {[sender |-> sender, number |-> 0]}

MCCallbacks ==
    { Callback("int", "int", Negative), Callback("text", "text", Reversed),
      Callback("raw", "text", Reversed), VoidCallback(Constant),
      FunctionCallback("void", "int", Constant), FunctionCallback("text", "void", Constant),
      VoidFunctionCallback(Constant),
      AnyReplyTypeCallback("int", Always(Result("event", "raw", <<1>>, {}))),
      AnyReplyTypeCallback("text", Always(Result("event", "", NoData, {}))),
      EventCallback(Always(Itself)),
      EventCallback([data \in Payloads |-> Result("event", "text", data, From("early"))]),
      EventCallback(Always(Result("event", "text", <<1>>, From("late")))) }

MCKnownTypes == { {}, { <<"int64", "int">>, <<"utf-8-string", "text">>, <<"void", "void">> } }

(* A host without a name, one with a legal and one with an illegal name *)
MCHostNames == { <<>>, <<"a">>, <<"a", "?">> }

-----------------------------------------------------------------------------

(* Before, at, just after and after the epoch *)
MCMoments == {-10, 0, 4, 30}

NoPart == CHOOSE c \in MCCollections : TRUE

AnyCallback == CHOOSE c \in MCCallbacks : TRUE
AnySystem == [type |-> "linux", id |-> <<>>, hostname |-> <<>>]

PartsInit ==
    /\ part \in {"syntax", "options", "path", "collection", "calls", "process", "times"}
    /\ IF part = "syntax" THEN Init ELSE text = <<>> /\ Init
    /\ DataInit
    /\ IF part = "collection" THEN MapInit
       ELSE collection = NoPart /\ converters = RegisteredByDefault /\ MapInit
    /\ IF part = "calls" THEN CallInit ELSE callback = AnyCallback /\ known = {} /\ CallInit
    /\ TimesInit
    /\ IF part = "process" THEN DescriptionInit
       ELSE os = AnySystem /\ failing = {} /\ hasParent = FALSE /\ DescriptionInit

\* Both receivers are readers.
TwoReaders == \A l \in Listeners : listeners[l] # NoOne /\ listeners[l].direction = "in-pull"

Others(mine) ==
    /\ UNCHANGED part
    /\ mine # "syntax" => UNCHANGED vars
    /\ mine \notin {"options", "path"} => UNCHANGED configVars
    /\ mine # "path" => UNCHANGED dataVars
    /\ mine # "collection" => UNCHANGED mapVars
    /\ mine # "calls" => UNCHANGED callVars
    /\ mine # "process" => UNCHANGED descriptionVars
    /\ mine # "times" => UNCHANGED timeVars

\* An event's way is looked at with options in one order, a local receiver
\* that is made before the peer's, one reader at most and a program that
\* registers one more converter at most, in any step.
OneWay ==
    /\ OnPath(given') /\ (stage = "ready" => UNCHANGED given)
    /\ (listeners'["local"] # NoOne => listeners'["local"].wish.converters = <<>>)
    /\ (listeners["peer"] # NoOne => listeners'["local"] = listeners["local"])
    /\ ~TwoReaders'
    /\ OtherConverters \ repository' # {}

PartsNext ==
    \/ part = "syntax" /\ Next /\ Others("syntax")
    \/ part = "options" /\ ConfigNext /\ Others("options")
    \/ part = "path" /\ DataNext /\ UNCHANGED registry
                     /\ OneWay /\ Others("path")
    \/ part = "collection" /\ MapNext /\ Others("collection")
    \/ part = "calls" /\ CallNext /\ Others("calls")
    \/ part = "process" /\ DescriptionNext /\ Others("process")
    \/ part = "times" /\ TimesNext /\ Others("times")

PartsSpec ==
    PartsInit /\ [][PartsNext]_<<part, vars, configVars, dataVars, mapVars, callVars, descriptionVars, timeVars>>
=============================================================================
