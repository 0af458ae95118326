SPECIFICATION PartsSpec
CONSTANTS
    Letters = {"a", "b"}
    Illegal = {"?"}
    MaxLength = 6
    TypeNames <- MCTypeNames
    ByteBase = 4
    Width = 2
    Options <- MCOptions
    MaxOptions = 2
    WithSocket = TRUE
    Plugins <- MCPlugins
    DefaultConverters <- MCDefaultConverters
    OtherConverters <- MCOtherConverters
    Informers <- MCInformers
    Sendable <- MCSendable
    Wishes <- MCWishes
    MaxEvents = 1
    NoOne = NoOne
    NoId = NoId
    Collections <- MCCollections
    Repositories <- MCRepositories
    Callbacks <- MCCallbacks
    Arguments <- MCArguments
    KnownTypes <- MCKnownTypes
    MaxCalls = 2
    TimeKeys = {"k"}
    Moments <- MCMoments
    CurrentTime = 7
    HostNames <- MCHostNames
INVARIANTS ScopesAgree ConfiguredAsAsked HeardAlike NothingInTheWay CollectionSurvives
INVARIANTS CallsAnswered DescribedUnlessNameless
PROPERTIES SharedIntact TimesStaySet
CHECK_DEADLOCK FALSE
