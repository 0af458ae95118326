----------------------------- MODULE Converters -----------------------------
(***************************************************************************)
(* How a connector comes to its converters: rsb/converter/Repository.h,      *)
(* UnambiguousConverterMap.h, PredicateConverterList.h and the helpers of    *)
(* rsb/Factory.cpp that turn the converters named in a configuration into a  *)
(* selection; and what the converters of numbers and texts do.               *)
(*                                                                         *)
(* A converter is named by its signature, a wire-schema and a data type.     *)
(* Senders look one up by data type and receivers by wire-schema: the same   *)
(* algorithm with the two components exchanged.                              *)
(***************************************************************************)
EXTENDS Integers, FiniteSets, SequencesExt

CONSTANTS TypeNames, \* the data types' names, a sequence in alphabetical order
          ByteBase,  \* the number of values of a byte
          Width      \* the number of bytes of an integer

Wire == 1  \* ConverterSignature::first
Type == 2  \* ConverterSignature::second
Other(k) == 3 - k

-----------------------------------------------------------------------------
(* The converters named in a configuration, a set of signatures *)

\* Two wire-schemas are named for a data type: converterSelectionToMap throws.
Contradictory(names, k) ==
    k = Type /\ \E a, b \in names : a # b /\ a[Type] = b[Type]

\* The last of several data types named for a wire-schema overwrites the others.
Selection(names, k) ==
    [key \in {s[k] : s \in names} |->
        LET named == {s[Other(k)] : s \in {t \in names : t[k] = key}}
        IN  IF k = Type THEN CHOOSE w \in named : TRUE
            ELSE TypeNames[CHOOSE i \in DOMAIN TypeNames :
                              /\ TypeNames[i] \in named
                              /\ \A j \in DOMAIN TypeNames : TypeNames[j] \in named => j <= i]]

-----------------------------------------------------------------------------
(* Repository::getConvertersForSerialization (k = Type) and                  *)
(* getConvertersForDeserialization (k = Wire)                                *)

\* Mutated: the selection is compared with the key itself.
Candidates_comparesKey(repository, selection, k, key) ==
    {s \in repository : s[k] = key /\ (key \in DOMAIN selection => s[k] = selection[key])}

\* The converters for a key: the selected one if the key is in the selection
Candidates(repository, selection, k, key) ==
    {s \in repository : s[k] = key /\ (key \in DOMAIN selection => s[Other(k)] = selection[key])}

\* UnambiguousConverterMap::addConverter throws for a key it has.
Ambiguous(repository, selection, k) ==
    \E s \in repository : \E a, b \in Candidates(repository, selection, k, s[k]) : a # b

\* A selection that no converter satisfies leaves its key without one.
Strategy(repository, selection, k) ==
    LET found(key) == Candidates(repository, selection, k, key)
    IN  [key \in {s[k] : s \in {r \in repository : found(r[k]) # {}}} |->
            CHOOSE s \in found(key) : TRUE]

-----------------------------------------------------------------------------
(* prepareConnectorOptions *)

\* Are the converters for a direction refused with an exception?
Refused(repository, names, k) ==
    Contradictory(names, k) \/ Ambiguous(repository, Selection(names, k), k)

ConvertersFor(repository, names, k) == Strategy(repository, Selection(names, k), k)

-----------------------------------------------------------------------------
(* PredicateConverterList, which a program can set in place of the strategy   *)
(* from the repository.  A predicate is the set of the keys that match.       *)

AlwaysApplicable(keys)           == keys
TypeNameConverterPredicate(name) == {name}

\* For each of some keys the first converter whose predicate matches
PredicateConverterList(list, keys) ==
    [key \in {k \in keys : \E i \in DOMAIN list : k \in list[i].predicate} |->
        list[CHOOSE i \in DOMAIN list : /\ key \in list[i].predicate
                                        /\ \A j \in 1..(i - 1) : key \notin list[j].predicate].converter]

-----------------------------------------------------------------------------
(* What the converters of rsb do.  A payload is a sequence of numbers, what   *)
(* is on the wire a sequence of bytes.                                       *)

\* registerDefaultConverters.  "id" stands for rsb::EventId, "text" for strings.
RegisteredByDefault ==
    { <<"bool", "bool">>, <<".*", "bytearray">>, <<".rsb.protocol.EventId", "id">>,
      <<"utf-8-string", "text">>, <<"uint64", "uint">>, <<"int64", "int">>, <<"float", "float">>,
      <<"double", "double">>, <<"void", "void">>, <<"scope", "scope">> }

Integer == {"int", "uint"}
FloatingPoint == {"float", "double"}

\* IntegerConverter: the lowest byte first
Bytes(n) == [i \in 1..Width |-> (n \div ByteBase ^ (i - 1)) % ByteBase]

\* The bytes, each shifted to its place
Unsigned(wire) == FoldRight(LAMBDA byte, n : byte + ByteBase * n, wire, 0)

\* In two's complement
Signed(wire) ==
    LET n == Unsigned(wire) IN IF n >= ByteBase ^ Width \div 2 THEN n - ByteBase ^ Width ELSE n

\* FloatingPointConverter: the payload is its representation in memory.
MemoryOf(bytes) == [i \in 1..Width |-> bytes[i]]

\* ScopeConverter: a component is a number, 0 the separator of Scope::toString.
ScopeString(scope) == FoldLeft(LAMBDA string, component : string \o <<component, 0>>, <<0>>, scope)
ScopeOf(string) == SelectSeq(string, LAMBDA character : character # 0)

\* ProtocolBufferConverter: fields with their numbers
SerializeToString(message) == <<1, message.sender_id, 2, message.sequence_number>>
ParseFromString(wire) == [sender_id |-> wire[2], sequence_number |-> wire[4]]

\* EventIdConverter
ProtocolId(id) == [sender_id |-> id[1], sequence_number |-> id[2]]
EventIdOf(message) == <<message.sender_id, message.sequence_number>>

\* The ByteArrayConverter throws.
Serializable(type) == type # "bytearray"

\* Converter::serialize; strings are copied.
Serialize(type, data) ==
    CASE type \in Integer       -> Bytes(data[1])
      [] type \in FloatingPoint -> MemoryOf(data)
      [] type = "bool"          -> IF data[1] # 0 THEN <<1>> ELSE <<0>>
      [] type = "void"          -> <<>>
      [] type = "scope"         -> ScopeString(data)
      [] type = "id"            -> SerializeToString(ProtocolId(data))
      [] OTHER                  -> data

\* BoolConverter::deserialize takes one byte that is 0 or 1.
Deserializable(type, wire) == type = "bool" => wire \in {<<0>>, <<1>>}

\* Converter::deserialize; strings, and byte arrays, are copied.
Deserialize(type, wire) ==
    CASE type = "int"           -> <<Signed(wire)>>
      [] type = "uint"          -> <<Unsigned(wire)>>
      [] type \in FloatingPoint -> MemoryOf(wire)
      [] type = "void"          -> <<>>
      [] type = "scope"         -> ScopeOf(wire)
      [] type = "id"            -> EventIdOf(ParseFromString(wire))
      [] OTHER                  -> wire

-----------------------------------------------------------------------------
(* What specifications assume of the converters of a process                 *)

\* No two have a wire-schema or a type in common.
Unambiguous(repository) ==
    \A s, t \in repository : s[Wire] = t[Wire] \/ s[Type] = t[Type] => s = t

\* What comes out of a converter is what has gone into it.
Kept(type, data) == Deserialize(type, Serialize(type, data)) = data
=============================================================================
