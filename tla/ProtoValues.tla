----------------------------- MODULE ProtoValues -----------------------------
(***************************************************************************)
(* Native Python values as ProtoBuf messages, and back: variant/variant,   *)
(* wellknown, builder, dissecter, utils/enum and status, all of            *)
(* core/python/protobuf.                                                   *)
(*                                                                         *)
(* A value is [t, v]: a scalar of some type, a list, a list of (tag,       *)
(* value) tuples, or a dictionary, which is a sequence of items as Python  *)
(* keeps them in order.  A message that holds one of several fields is     *)
(* [k, v].  A message of a declared type is a function of its fields.      *)
(* An encoder that raises leaves in the message what it had put there.     *)
(***************************************************************************)
EXTENDS Integers, Sequences, SequencesExt, FiniteSetsExt, Functions, TLC

CONSTANTS
    Values,         \* values that are encoded as one message
    Fractions, Negatives,   \* the numbers that are no integers, and those below zero
    Fields,         \* the fields of the message type: a sequence of [name, label, kind]
    Inputs,         \* dictionaries to build it from: functions of names to values
    Symbols,        \* the symbols of its fields that are enumerated
    Enumerations,   \* enumerations: sequences of symbols, that are sequences of words
    MaxCalls        \* bound on the calls that change a message

VARIABLES
    what,      \* what the behaviour is about
    call,      \* the last call, and of what
    message,   \* the message
    raised,    \* the last call raised
    native,    \* what the message was read as
    calls

valueVars == <<what, call, message, raised, native, calls>>

None == [t |-> "none", v |-> "None"]
Unset == [k |-> "unset", v |-> "None"]

IsEmpty(c) == c.v = <<>>

\* One entry of a map is set: a new one goes last.
Assign(items, key, x) ==
    LET at == SelectInSeq(items, LAMBDA e : e[1] = key)
    IN  IF at = 0 THEN Append(items, <<key, x>>) ELSE [items EXCEPT ![at] = <<key, x>>]
Entry(items, key, default) ==
    LET at == SelectInSeq(items, LAMBDA e : e[1] = key) IN IF at = 0 THEN default ELSE items[at][2]
Held(m, kind) == IF m.k = kind THEN m.v ELSE <<>>
Raised(m) == [ok |-> FALSE, m |-> m]
Done(m) == [ok |-> TRUE, m |-> m]

--------------------------------------------------------------------------
(* Variants: encodeValue() and decodeValue() *)

\* The field a scalar goes to; bytes and tuples meet names that are not defined.
VariantField == [bool |-> "bool", uint |-> "uint", sint |-> "sint", real |-> "real",
                 str |-> "string", time |-> "timestamp", span |-> "duration"]

\* encodeValue(), encodeValueList(), encodeKeyValueMap(), in place: a list is extended, a map
\* gets the new keys, None changes nothing.  is_tagged_list() fails on a tuple, and finds that
\* an empty list is one of tagged values; encodeTaggedValueList() fails.  A map that stays
\* empty is not set, as nothing was changed in it.
RECURSIVE EncodeVariant(_, _), EncodeItems(_, _), EncodeList(_, _)
EncodeTagged(x, m) == Raised(m)
EncodeList(x, m) ==
    LET each == [i \in DOMAIN x.v |-> EncodeVariant(x.v[i], Unset)]
    IN  IF \A i \in DOMAIN each : each[i].ok
        THEN Done([k |-> "list", v |-> Held(m, "list") \o [i \in DOMAIN each |-> each[i].m]])
        ELSE Raised(m)
EncodeItems(items, m) ==
    IF items = <<>> THEN Done(m)
    ELSE LET one == EncodeVariant(Head(items)[2], Entry(Held(m, "map"), Head(items)[1], Unset))
             more == [k |-> "map", v |-> Assign(Held(m, "map"), Head(items)[1], one.m)]
         IN  IF one.ok THEN EncodeItems(Tail(items), more) ELSE Raised(more)
EncodeVariant(x, m) ==
    CASE x.t = "none" -> Done(m)
      [] x.t \in DOMAIN VariantField -> Done([k |-> VariantField[x.t], v |-> x.v])
      [] x.t = "bytes" -> Raised(m)
      [] x.t = "list" /\ (IsEmpty(x) \/ x.v[1].t = "tuple") -> EncodeTagged(x, m)
      [] x.t \in {"list", "tuple"} -> EncodeList(x, m)
      [] x.t = "dict" -> EncodeItems(x.v, m)

RECURSIVE DecodeVariant(_)
DecodeVariant(m) ==
    CASE m.k = "unset" -> None
      [] m.k = "list" -> [t |-> "list", v |-> [i \in DOMAIN m.v |-> DecodeVariant(m.v[i])]]
      [] m.k = "map" -> [t |-> "dict", v |-> [i \in DOMAIN m.v |-> <<m.v[i][1], DecodeVariant(m.v[i][2])>>]]
      [] OTHER -> [t |-> CHOOSE t \in DOMAIN VariantField : VariantField[t] = m.k, v |-> m.v]

--------------------------------------------------------------------------
(* google.protobuf.Value: encodeValue(), encodeStruct(), encodeListValue() *)

\* Numbers have one field.  A list inside a value meets a name that is not defined; only
\* encodeListValue() itself takes one.
StructField == [none |-> "null", bool |-> "bool", uint |-> "number", sint |-> "number",
                real |-> "number", str |-> "string"]
RECURSIVE EncodeStruct(_, _), EncodeFields(_, _)
EncodeFields(items, m) ==
    IF items = <<>> THEN Done(m)
    ELSE LET one == EncodeStruct(Head(items)[2], Entry(Held(m, "struct"), Head(items)[1], Unset))
             more == [k |-> "struct", v |-> Assign(Held(m, "struct"), Head(items)[1], one.m)]
         IN  IF one.ok THEN EncodeFields(Tail(items), more) ELSE Raised(more)
EncodeStruct(x, m) ==
    CASE x.t \in DOMAIN StructField -> Done([k |-> StructField[x.t], v |-> x.v])
      [] x.t = "dict" -> EncodeFields(x.v, m)
      [] OTHER -> Raised(m)

EncodeListValue(x, m) ==
    LET each == [i \in DOMAIN x.v |-> EncodeStruct(x.v[i], Unset)]
    IN  IF \A i \in DOMAIN each : each[i].ok
        THEN Done([k |-> "list", v |-> Held(m, "list") \o [i \in DOMAIN each |-> each[i].m]])
        ELSE Raised(m)

\* decodeValue(): a number that is whole is an int, whichever it was.
RECURSIVE DecodeStruct(_)
DecodeStruct(m) ==
    CASE m.k \in {"unset", "null"} -> None
      [] m.k = "number" -> [t |-> CASE m.v \in Fractions -> "real" [] m.v \in Negatives -> "sint"
                                    [] OTHER -> "uint", v |-> m.v]
      [] m.k = "string" -> [t |-> "str", v |-> m.v]
      [] m.k = "bool" -> [t |-> "bool", v |-> m.v]
      [] m.k = "list" -> [t |-> "list", v |-> [i \in DOMAIN m.v |-> DecodeStruct(m.v[i])]]
      [] m.k = "struct" -> [t |-> "dict", v |-> [i \in DOMAIN m.v |-> <<m.v[i][1], DecodeStruct(m.v[i][2])>>]]

--------------------------------------------------------------------------
(* Enumerations: symbols are sequences of words, that are all of one length *)

\* common_prefix(): words that are the same, at their place, in all symbols - be they leading
\* or not - are counted, and as many are cut off each symbol.
CommonWords(symbols) ==
    LET n == Min({Len(s) : s \in Range(symbols)})
    IN  Cardinality({i \in 1..n : \A s \in Range(symbols) : s[i] = symbols[1][i]})
NativeName(symbols, i) ==
    LET c == CommonWords(symbols) IN SubSeq(symbols[i], c + 1, Len(symbols[i]))

\* largest_common_base(): words of the first symbol up to the first that differs in another;
\* a symbol that ends before it does not count.
CommonBase(symbols) ==
    LET cut(s) == {i \in 1..Min({Len(s), Len(symbols[1])}) : s[i] # symbols[1][i]}
        cuts == {i - 1 : i \in UNION {cut(s) : s \in Range(symbols)}}
    IN  SubSeq(symbols[1], 1, Min(cuts \cup {Len(symbols[1])}))

\* encode_enum_name(): the name, or else the common base and the name
NumberOf(symbols, name) ==
    LET found(n) == SelectInSeq(symbols, LAMBDA s : s = n)
    IN  IF found(name) # 0 THEN found(name) ELSE found(CommonBase(symbols) \o name)

--------------------------------------------------------------------------
(* Messages with declared fields: MessageBuilder and MessageDissecter *)

Names == {f.name : f \in Range(Fields)}
OneOf == {f.name : f \in {g \in Range(Fields) : g.label = "oneof"}}

\* What a field is before it is set; submessages and fields of a oneof tell.
Default(f) == IF f.label \in {"repeated", "map"} THEN <<>>
              ELSE IF f.label = "oneof" \/ f.kind \in {"registered", "nested"} THEN "unset"
              ELSE "0"
FieldNamed(name) == CHOOSE f \in Range(Fields) : f.name = name
EmptyMessage == [n \in Names |-> Default(FieldNamed(n))]

\* value_encoder(), encode_enum(), encode_message(), build_from_value(): a number is taken
\* for an enumerated value as it is; a nested message, of one field, comes from a dictionary
\* or a container; a registered type has an encoder of its own.
EncodeOne(f, x) ==
    CASE f.kind = "scalar" -> [ok |-> x.t = "scalar", v |-> x.v]
      [] f.kind = "enum" /\ x.t = "number" -> [ok |-> TRUE, v |-> x.v]
      [] f.kind = "enum" /\ x.t = "name" ->
             [ok |-> NumberOf(Symbols, x.v) # 0, v |-> ToString(NumberOf(Symbols, x.v))]
      [] f.kind = "registered" -> [ok |-> x.t = "time", v |-> x.v]
      [] f.kind = "nested" -> [ok |-> x.t \in {"dict", "object"}, v |-> x.v]
      [] OTHER -> [ok |-> FALSE, v |-> x.v]

\* encode_field(): maps get the entries, repeated fields are extended, with one item if it is
\* no list; what else there was is replaced.  Setting a field of a oneof clears the others.
EncodeField(m, f, x) ==
    CASE f.label = "map" ->
             IF x.t # "dict" THEN Raised(m)
             ELSE Done([m EXCEPT ![f.name] = FoldLeft(LAMBDA a, e : Assign(a, e[1], e[2]), @, x.v)])
      [] f.label = "repeated" ->
             LET items == IF x.t = "list" THEN x.v ELSE <<x>>
                 each == [i \in DOMAIN items |-> EncodeOne(f, items[i])]
             IN  IF \A i \in DOMAIN each : each[i].ok
                 THEN Done([m EXCEPT ![f.name] = @ \o [i \in DOMAIN each |-> each[i].v]])
                 ELSE Raised(m)
      [] OTHER ->
             LET one == EncodeOne(f, x)
                 cleared == IF f.label = "oneof" THEN [n \in Names |-> IF n \in OneOf THEN "unset" ELSE m[n]] ELSE m
             IN  IF one.ok THEN Done([cleared EXCEPT ![f.name] = one.v]) ELSE Raised(m)

\* populate_from_dict() and populate_from_container(): in the order of the fields, until one
\* raises; None is as good as no value, but a container has to have all.
Populate(m, inputs, container) ==
    LET step(r, f) ==
            IF ~r.ok THEN r
            ELSE IF f.name \notin DOMAIN inputs THEN (IF container THEN Raised(r.m) ELSE r)
            ELSE IF inputs[f.name] = None THEN r
            ELSE EncodeField(r.m, f, inputs[f.name])
    IN  FoldLeft(step, Done(m), Fields)

\* Fault: a oneof is not asked which of its fields is set.
IsAnyPresent(m, f) == TRUE

\* is_field_present()
IsFieldPresent(m, f) == f.label = "oneof" => m[f.name] # "unset"

\* dissect_message(), dissect_field(), field_decoder(): a submessage that is not set is read
\* like an empty one; what was enumerated is a number again.
DecodeOne(f, v) ==
    CASE f.kind = "scalar" -> [t |-> "scalar", v |-> v]
      [] f.kind = "enum" -> [t |-> "number", v |-> v]
      [] f.kind = "registered" -> [t |-> "time", v |-> IF v = "unset" THEN "0" ELSE v]
      [] f.kind = "nested" -> [t |-> "object", v |-> IF v = "unset" THEN "0" ELSE v]
DissectField(m, f) ==
    CASE f.label = "map" -> [t |-> "dict", v |-> m[f.name]]
      [] f.label = "repeated" -> [t |-> "list", v |-> [i \in DOMAIN m[f.name] |-> DecodeOne(f, m[f.name][i])]]
      [] OTHER -> DecodeOne(f, m[f.name])
Dissect(m) ==
    [n \in Names |-> LET f == FieldNamed(n)
                     IN  IF IsFieldPresent(m, f) THEN DissectField(m, f) ELSE None]
\* enum_decoder() makes an IntEnum, which knows no other numbers.
CanDissect(m) ==
    \A f \in Range(Fields) : f.kind = "enum" =>
        m[f.name] \in {"0"} \cup {ToString(i) : i \in DOMAIN Symbols}

--------------------------------------------------------------------------
(* Log levels: encodeLogLevel() and decodeLogLevel() of protobuf/status *)

\* level_map, in its order: the last entry has a key that is no level.
LevelMap == <<<<"NONE", 0>>, <<"TRACE", 5>>, <<"DEBUG", 10>>, <<"INFO", 20>>, <<"NOTICE", 25>>,
              <<"WARNING", 30>>, <<"ERROR", 40>>, <<"CRITICAL", 50>>, <<"FATAL+10", 50>>>>
EncodeLevel(n) == LevelMap[Max({i \in DOMAIN LevelMap : LevelMap[i][2] <= n})][1]
DecodeLevel(level) ==
    LET at == SelectInSeq(LevelMap, LAMBDA e : e[1] = level) IN IF at = 0 THEN 0 ELSE LevelMap[at][2]

--------------------------------------------------------------------------
(* Steps: one message, that is encoded into, as often as the caller likes, and read *)

Subjects == {"variant", "struct", "list", "message", "enum", "level"}

ValuesInit ==
    /\ what \in Subjects
    /\ call = [op |-> "new"]
    /\ message = IF what = "message" THEN EmptyMessage ELSE Unset
    /\ raised = FALSE /\ native = None /\ calls = 0

Return(op, r) ==
    /\ calls < MaxCalls /\ calls' = calls + 1
    /\ call' = op /\ message' = r.m /\ raised' = ~r.ok
    /\ UNCHANGED <<what, native>>

\* encodeValue() and its like, with a new message or in place
Encode(x) ==
    /\ what \in {"variant", "struct", "list"} /\ (what = "list" => x.t = "list")
    /\ Return([op |-> "encode", of |-> x, fresh |-> message.k = "unset"],
              CASE what = "variant" -> EncodeVariant(x, message)
                [] what = "struct" -> EncodeStruct(x, message)
                [] what = "list" -> EncodeListValue(x, message))

\* decodeValue() and its like
Decode ==
    /\ what \in {"variant", "struct", "list"} /\ call.op = "encode" /\ ~raised
    /\ call' = [call EXCEPT !.op = "decode"]
    /\ native' = IF what = "variant" THEN DecodeVariant(message) ELSE DecodeStruct(message)
    /\ UNCHANGED <<what, message, raised, calls>>

\* build_from_dict(), populate_from_dict()
PopulateFromDict(inputs) ==
    what = "message" /\ Return([op |-> "populate"], Populate(message, inputs, FALSE))

\* decode()
DissectMessage ==
    /\ what = "message" /\ call.op = "populate"
    /\ call' = [op |-> "dissect"]
    /\ raised' = ~CanDissect(message)
    /\ native' = IF CanDissect(message) THEN Dissect(message) ELSE None
    /\ UNCHANGED <<what, message, calls>>

\* build_from_value() of what was dissected
Rebuild ==
    /\ what = "message" /\ call.op = "dissect" /\ ~raised
    /\ LET r == Populate(EmptyMessage, native, TRUE)
       IN  message' = r.m /\ raised' = ~r.ok
    /\ call' = [op |-> "rebuild"]
    /\ UNCHANGED <<what, native, calls>>

\* A name as IntEnum has it, given to the builder; names that are equal are an error before.
NameSymbol(symbols, i) ==
    /\ what = "enum" /\ call.op = "new"
    /\ IsInjective([j \in DOMAIN symbols |-> NativeName(symbols, j)])
    /\ Return([op |-> "name", symbols |-> symbols, at |-> i],
              Done([k |-> "number", v |-> NumberOf(symbols, NativeName(symbols, i))]))

LogLevel(n) ==
    /\ what = "level"
    /\ Return([op |-> "level", of |-> n], Done([k |-> "level", v |-> EncodeLevel(n)]))

ValuesNext ==
    \/ \E x \in Values : Encode(x)
    \/ Decode
    \/ \E inputs \in Inputs : PopulateFromDict(inputs)
    \/ DissectMessage
    \/ Rebuild
    \/ \E symbols \in Enumerations : \E i \in DOMAIN symbols : NameSymbol(symbols, i)
    \/ \E n \in 0..60 : LogLevel(n)

--------------------------------------------------------------------------
(* Properties *)

\* As the other end has it: signs and fractions are in the type a number is read as, and
\* a dictionary that is empty is none (its field is not set).
RECURSIVE Normal(_)
Normal(x) ==
    CASE x.t = "dict" /\ IsEmpty(x) -> None
      [] x.t = "dict" -> [t |-> "dict", v |-> [i \in DOMAIN x.v |-> <<x.v[i][1], Normal(x.v[i][2])>>]]
      [] x.t \in {"list", "tuple"} -> [t |-> "list", v |-> [i \in DOMAIN x.v |-> Normal(x.v[i])]]
      [] OTHER -> x

\* A value that was encoded without an error, into a new message, is read as the same value,
\* however its lists and dictionaries are nested.
ValueReadsBack ==
    call.op = "decode" /\ call.fresh => native = Normal(call.of)

\* A message that was built in any number of calls, some of which raised half way, is taken
\* apart into values from which the same message is built, as far as one can tell.
RebuildsTheSame ==
    call.op = "rebuild" => ~raised /\ Dissect(message) = native

\* The names that an enumeration has in Python, without the words that its symbols share, are
\* those that the builder finds: if the words they share are the leading ones, something is
\* left of each symbol, and what is left is not another symbol.
NamesReadBack ==
    call.op = "name" =>
        LET symbols == call.symbols
            shared == CommonWords(symbols)
            names == {NativeName(symbols, i) : i \in DOMAIN symbols}
            leading == \A s \in Range(symbols) : IsPrefix(SubSeq(symbols[1], 1, shared), s)
        IN  leading /\ <<>> \notin names /\ (shared # 0 => names \cap Range(symbols) = {}) =>
                message.v = call.at

\* The level of a record is sent as the greatest of the table that is not above it.
LevelsReadBack ==
    call.op = "level" =>
        LET read == DecodeLevel(message.v)
        IN  read <= call.of /\ \A e \in Range(LevelMap) : e[2] <= call.of => e[2] <= read

\* What is sent as a ProtoBuf message - a variant, a struct, a message with declared fields,
\* the name of an enumerated value, a log level - is read as what was sent.
MessagesReadBack == ValueReadsBack /\ RebuildsTheSame /\ NamesReadBack /\ LevelsReadBack
===============================================================================
