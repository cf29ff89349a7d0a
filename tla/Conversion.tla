------------------------------- MODULE Conversion -------------------------------
(***************************************************************************)
(* Go values into property list values and back: marshal (marshal.go),     *)
(* unmarshal and valueInterface (unmarshal.go), and Dictionary.Unmarshal   *)
(* (map_marshal.go).  A program keeps one variable of some type and        *)
(* decodes into it again and again, documents of its own and others;       *)
(* between two calls it may cut its slices to length 0, which keeps what   *)
(* they hold.  The documents in between are those of the other modules:    *)
(* Carried says in what form a value comes back from its format.           *)
(***************************************************************************)
EXTENDS GoValues, SequencesExt

CONSTANTS
  Types,          \* the types of the variable
  Samples(_),     \* the values of a type that are marshalled
  Documents,      \* property lists of other programs
  MaxCalls        \* bound: how many documents are decoded; there is no other after the last

VARIABLES
  type,       \* the type of the variable
  target,     \* its value
  sent,       \* history: the Go value document was made of, << >> if none
  document,   \* the property list at hand, None if there is none
  lax,        \* it is an OpenStep document
  before,     \* history: target as the last call found it
  outcome,    \* history: the last call and what it returned
  calls

vars == <<type, target, sent, document, lax, before, outcome, calls>>

Formats == {"typed", "binary", "OpenStep"}

\* What a value is once written in a format and parsed: XML and GNUStep keep no
\* width of a real, only negative numbers are signed, and OpenStep has strings.
RECURSIVE Carried(_, _)
Carried(format, v) ==
  CASE v.cf = "array" -> Array([k \in DOMAIN v.vals |-> Carried(format, v.vals[k])])
    [] v.cf = "dictionary" -> Dict(v.keys, [k \in DOMAIN v.vals |-> Carried(format, v.vals[k])])
    [] v.cf = "number" ->
         IF format = "OpenStep" THEN String(Numeral(NumberOf(v)))
         ELSE Number(NumberOf(v) < 0, v.v)
    [] v.cf = "real" ->
         IF format = "OpenStep" THEN String(FloatText(v.v))
         ELSE Real(v.wide \/ format = "typed", v.v)
    [] v.cf = "boolean" /\ format = "OpenStep" -> String(Numeral(IF v.truth THEN 1 ELSE 0))
    [] v.cf = "date" /\ format = "OpenStep" -> String(DateText(v.v))
    [] OTHER -> v

-------------------------------------------------------------------------------
(***************************************************************************)
(* marshal.go.                                                             *)
(***************************************************************************)
Unknown == [cf |-> "error"]        \* unknownTypeError
Broken(vals) == \E k \in DOMAIN vals : vals[k] = Unknown

\* Mutant: a nil value keeps its place.
KeptNil(v) == v.cf = "never"

Dropped(v) == v = None

\* The values that are nil are left out.
Kept(vals) == SelectSeq(vals, LAMBDA v : ~Dropped(v))
KeptAt(vals) == SelectSeq([k \in DOMAIN vals |-> k], LAMBDA k : ~Dropped(vals[k]))

RECURSIVE marshal(_, _)
marshalStruct(T, v) ==
  LET at == SelectSeq([k \in DOMAIN T.fields |-> k],
              LAMBDA k : ~(T.fields[k].omit /\ v[k] = Zero(T.fields[k].type)))
      vals == [i \in DOMAIN at |-> marshal(T.fields[at[i]].type, v[at[i]])]
      kept == KeptAt(vals)
  IN  IF Broken(vals) THEN Unknown
      ELSE Dict([i \in DOMAIN kept |-> T.fields[at[kept[i]]].name], Kept(vals))

marshalMap(T, v) ==
  LET keys == SetToSeq(DOMAIN v.at)
      vals == [k \in DOMAIN keys |-> marshal(T.of, v.at[keys[k]])]
      kept == KeptAt(vals)
  IN  IF Broken(vals) THEN Unknown
      ELSE Dict([i \in DOMAIN kept |-> keys[kept[i]]], Kept(vals))

marshalElements(T, elems) ==
  LET vals == [k \in DOMAIN elems |-> marshal(T.of, elems[k])]
  IN  CASE T.of = Byte -> Data(elems)
        [] T.of # Byte /\ Broken(vals) -> Unknown
        [] OTHER -> Array(Kept(vals))

\* A nil pointer to a struct is written as an empty dictionary.
marshal(T, v) ==
  CASE T.kind = "pointer" ->
         IF v # << >> THEN marshal(T.of, v[1])
         ELSE IF IsStruct(T.of) THEN Dict(<< >>, << >>) ELSE None
    [] T.kind = "any" -> IF v = << >> THEN None ELSE marshal(v[1], v[2])
    [] T.kind = "time" -> Date(v)
    [] T.kind = "uid" -> UID(v)
    [] T.kind = "struct" -> marshalStruct(T, v)
    [] T.kind = "string" -> String(v)
    [] T.kind = "int" -> Number(TRUE, Unsigned(v, WordBits))
    [] T.kind = "uint" -> Number(FALSE, v)
    [] T.kind = "float" -> Real(T.wide, v)
    [] T.kind = "bool" -> Boolean(v)
    [] T.kind = "slice" -> marshalElements(T, v.elems)
    [] T.kind = "array" -> marshalElements(T, v)
    [] T.kind = "map" -> marshalMap(T, v)
    [] OTHER -> Unknown

-------------------------------------------------------------------------------
(***************************************************************************)
(* unmarshal.go.  A conversion leaves a value in the place it was given,   *)
(* also when it fails.                                                     *)
(***************************************************************************)
Stored(v) == [is |-> "ok", v |-> v]
Fails(v) == [is |-> "error", v |-> v]
Panics(v) == [is |-> "panic", v |-> v]

\* A loop over 1..n that begins with v and stops where a step fails.
Steps(n, v, Step(_, _)) ==
  FoldLeft(LAMBDA r, k : IF r.is = "ok" THEN Step(r.v, k) ELSE r, Stored(v), [k \in 1..n |-> k])

Wrapped(r, v) == [r EXCEPT !.v = v]

\* strconv: ParseInt and ParseUint with all bits of a word, ParseFloat, ParseBool.
ParsesInt(s) == s.is = "integer" /\ s.n \in -(2 ^ (WordBits - 1))..(2 ^ (WordBits - 1) - 1)
ParsesUint(s) == s.is = "integer" /\ s.n \in 0..(2 ^ WordBits - 1)
ParsesFloat(s) == s.is \in {"integer", "decimal"}
ParsesBool(s) == s \in {Numeral(0), Numeral(1)}

\* SetInt, SetUint, and the halves of a number.
SetInt(T, n) == Stored(Signed(n, T.bits))
SetUint(T, n) == Stored(Unsigned(n, T.bits))
Halves(s) == IF s.is = "integer" THEN 2 * s.n ELSE s.n

unmarshalLaxString(T, old, s) ==
  CASE T.kind = "bool" /\ ParsesBool(s) -> Stored(s.n = 1)
    [] T.kind = "time" /\ s.is = "date" -> Stored(s.n)
    [] OTHER -> Fails(old)

unmarshalString(T, old, s, laxly) ==
  CASE T.kind = "string" -> Stored(s)
    [] T.kind = "int" -> IF ParsesInt(s) THEN SetInt(T, s.n) ELSE Fails(old)
    [] T.kind = "uint" -> IF ParsesUint(s) THEN SetUint(T, s.n) ELSE Fails(old)
    [] T.kind = "uid" -> IF ParsesUint(s) THEN Stored(s.n) ELSE Fails(old)
    [] T.kind = "float" -> IF ParsesFloat(s) THEN Stored(Halves(s)) ELSE Fails(old)
    [] OTHER -> IF laxly THEN unmarshalLaxString(T, old, s) ELSE Fails(old)

\* Mutant: an unsigned number is looked at as a signed one.
FitsIntAsSigned(T, v) == Signed(v.v, T.bits) = Signed(v.v, WordBits)

\* What StrictIntegers asks for.
FitsInt(T, v) ==
  /\ Signed(v.v, T.bits) = Signed(v.v, WordBits)
  /\ v.signed \/ v.v < 2 ^ (WordBits - 1)
FitsUint(T, v) == ~v.signed /\ Unsigned(v.v, T.bits) = v.v

unmarshalNumber(T, old, v, strict) ==
  CASE T.kind = "int" -> IF strict /\ ~FitsInt(T, v) THEN Fails(old) ELSE SetInt(T, v.v)
    [] T.kind = "uint" -> IF strict /\ ~FitsUint(T, v) THEN Fails(old) ELSE SetUint(T, v.v)
    [] T.kind = "uid" -> IF strict /\ v.signed THEN Fails(old) ELSE Stored(v.v)
    [] T.kind = "float" -> Stored(2 * v.v)
    [] T.kind = "string" -> Stored(Numeral(v.v))
    [] T.kind = "bool" -> Stored(v.v # 0)
    [] OTHER -> Fails(old)

\* Reals beyond the integer at hand, whose conversion is the processor's, are not
\* among the documents.
Truncated(halves) == IF halves < 0 THEN -((-halves) \div 2) ELSE halves \div 2

unmarshalReal(T, old, halves) ==
  CASE T.kind = "int" -> SetInt(T, Truncated(halves))
    [] T.kind = "uint" -> SetUint(T, Truncated(halves))
    [] T.kind = "uid" -> Stored(Unsigned(Truncated(halves), WordBits))
    [] T.kind = "float" -> Stored(halves)
    [] T.kind = "string" -> Stored(FloatText(halves))
    [] T.kind = "bool" -> Stored(halves # 0)
    [] OTHER -> Fails(old)

unmarshalUID(T, old, n) ==
  CASE T.kind = "uid" -> Stored(n)
    [] T.kind = "int" -> SetInt(T, n)
    [] T.kind = "uint" -> SetUint(T, n)
    [] OTHER -> Fails(old)

\* The bytes of a []byte are those of the document.
unmarshalData(T, old, bytes) ==
  CASE T = Slice(Byte) -> Stored(Made(bytes, << >>))
    [] T.kind = "array" /\ T.of = Byte /\ Len(bytes) <= T.len ->
         Stored([k \in 1..T.len |-> IF k <= Len(bytes) THEN bytes[k] ELSE old[k]])
    [] OTHER -> Fails(old)

\* What an empty interface receives: <<type, value>>.
Standard(T, v) == <<T, v>>

RECURSIVE valueInterface(_)

Places(v, key) == {k \in DOMAIN v.keys : v.keys[k] = key}

\* Mutant: the first of equal keys counts.
FirstOfEqual(v) ==
  Standard(MapOf(AnyType), MapWith([key \in ToSet(v.keys) |->
                                      valueInterface(v.vals[Min(Places(v, key))])]))

dictionaryInterface(v) ==
  Standard(MapOf(AnyType), MapWith([key \in ToSet(v.keys) |->
                                      valueInterface(v.vals[Max(Places(v, key))])]))

valueInterface(v) ==
  CASE v.cf = "string" -> Standard(Type("string"), v.text)
    [] v.cf = "number" /\ v.signed -> Standard(IntOf(WordBits), NumberOf(v))
    [] v.cf = "number" /\ ~v.signed -> Standard(UintOf(WordBits), v.v)
    [] v.cf = "real" -> Standard(Float(v.wide), v.v)
    [] v.cf = "boolean" -> Standard(Type("bool"), v.truth)
    [] v.cf = "data" -> Standard(Slice(Byte), Made(v.bytes, << >>))
    [] v.cf = "date" -> Standard(Type("time"), v.v)
    [] v.cf = "uid" -> Standard(Type("uid"), v.v)
    [] v.cf = "array" ->
         Standard(Slice(AnyType), Made([k \in DOMAIN v.vals |-> valueInterface(v.vals[k])], << >>))
    [] v.cf = "dictionary" -> dictionaryInterface(v)
    [] v = None -> << >>

\* The slots for n more elements: those the capacity has room for as they are, or
\* a new array of zeros behind the old elements.
Grown(T, old, n) ==
  LET cnt == Len(old.elems) + n
      room == Len(old.elems) + Len(old.spare)
  IN  IF cnt >= room
      THEN Made(old.elems \o Zeros(n, T.of), Zeros(Max({2 * cnt, 4}) - cnt, T.of))
      ELSE Made(old.elems \o SubSeq(old.spare, 1, n), SubSeq(old.spare, n + 1, Len(old.spare)))

\* The value of a key, the last one counting.
Entry(v, key) ==
  IF Places(v, key) = {} THEN None ELSE v.vals[Max(Places(v, key))]

RECURSIVE unmarshal(_, _, _, _)

unmarshalArray(T, old, vals, mode) ==
  LET slots == IF T.kind = "slice" THEN Grown(T, old, Len(vals)).elems ELSE old
      first == IF T.kind = "slice" THEN Len(old.elems) ELSE 0
      r == Steps(Len(vals), slots,
             LAMBDA elems, k :
               LET e == unmarshal(T.of, elems[first + k], vals[k], mode)
               IN  Wrapped(e, [elems EXCEPT ![first + k] = e.v]))
  IN  CASE T.kind = "slice" -> Wrapped(r, Made(r.v, Grown(T, old, Len(vals)).spare))
        [] T.kind = "array" /\ Len(vals) <= T.len -> r
        [] OTHER -> Fails(old)

unmarshalStruct(T, old, v, mode) ==
  Steps(Len(Fields(T)), old,
    LAMBDA fields, k :
      LET e == unmarshal(T.fields[k].type, fields[k], Entry(v, T.fields[k].name), mode)
      IN  Wrapped(e, [fields EXCEPT ![k] = e.v]))

unmarshalDictionary(T, old, v, mode) ==
  LET r == Steps(Len(v.keys), old.at,
             LAMBDA at, k :
               LET e == unmarshal(T.of, Zero(T.of), v.vals[k], mode)
               IN  IF e.is = "ok"
                   THEN Stored([key \in DOMAIN at \cup {v.keys[k]} |->
                                  IF key = v.keys[k] THEN e.v ELSE at[key]])
                   ELSE Wrapped(e, at))
  IN  CASE IsStruct(T) -> unmarshalStruct(T, old, v, mode)
        [] T.kind = "map" -> Wrapped(r, MapWith(r.v))
        [] OTHER -> Fails(old)

\* mode holds the fields of the Decoder that matter here: strict and lax.  Dates
\* go into a time.Time and nowhere else.
unmarshal(T, old, v, mode) ==
  CASE v = None -> Stored(old)
    [] v # None /\ T.kind = "pointer" ->
         LET r == unmarshal(T.of, IF old = << >> THEN Zero(T.of) ELSE old[1], v, mode)
         IN  Wrapped(r, <<r.v>>)
    [] v # None /\ T.kind = "any" -> Stored(valueInterface(v))
    [] v # None /\ T.kind \notin {"pointer", "any"} ->
         CASE v.cf = "date" -> IF T.kind = "time" THEN Stored(v.v) ELSE Fails(old)
           [] v.cf = "string" -> unmarshalString(T, old, v.text, mode.lax)
           [] v.cf = "number" -> unmarshalNumber(T, old, v, mode.strict)
           [] v.cf = "real" -> unmarshalReal(T, old, v.v)
           [] v.cf = "boolean" -> IF T.kind = "bool" THEN Stored(v.truth) ELSE Fails(old)
           [] v.cf = "data" -> unmarshalData(T, old, v.bytes)
           [] v.cf = "uid" -> unmarshalUID(T, old, v.v)
           [] v.cf = "array" ->
                IF T.kind \in {"slice", "array"} THEN unmarshalArray(T, old, v.vals, mode) ELSE Fails(old)
           [] v.cf = "dictionary" -> unmarshalDictionary(T, old, v, mode)

-------------------------------------------------------------------------------
(***************************************************************************)
(* map_marshal.go: a Dictionary holds what valueInterface makes.           *)
(***************************************************************************)
setInteger(T, old, n) ==
  CASE T.kind = "int" -> SetInt(T, n)
    [] T.kind = "uint" -> SetUint(T, n)
    [] T.kind = "uid" -> Stored(Unsigned(n, WordBits))
    [] OTHER -> Fails(old)

RECURSIVE fromInterface(_, _, _)

fromSlice(T, elems) ==
  LET r == Steps(Len(elems), Zeros(Len(elems), T.of),
             LAMBDA slots, k :
               LET e == fromInterface(T.of, slots[k], elems[k])
               IN  Wrapped(e, [slots EXCEPT ![k] = e.v]))
  IN  Wrapped(r, Made(r.v, << >>))

fromMap(T, at) ==
  LET keys == SetToSeq(DOMAIN at)
      r == Steps(Len(keys), << >>,
             LAMBDA made, k :
               LET e == fromInterface(T.of, Zero(T.of), at[keys[k]])
               IN  IF e.is = "ok"
                   THEN Stored([key \in DOMAIN made \cup {keys[k]} |->
                                  IF key = keys[k] THEN e.v ELSE made[key]])
                   ELSE Wrapped(e, made))
  IN  Wrapped(r, MapWith(r.v))

fromStruct(T, old, at) ==
  Steps(Len(Fields(T)), old,
    LAMBDA fields, k :
      IF T.fields[k].name \notin DOMAIN at THEN Stored(fields)
      ELSE LET e == fromInterface(T.fields[k].type, fields[k], at[T.fields[k].name])
           IN  Wrapped(e, [fields EXCEPT ![k] = e.v]))

\* What a place that is no pointer, or a pointer behind a pointer, takes.  Storing
\* nil in an interface panics, and so does a UID in a place for something else.
fromInterfaceAt(T, old, x) ==
  IF T.kind = "any" THEN IF x = << >> THEN Panics(old) ELSE Stored(x)
  ELSE IF x = << >> THEN Stored(old)
  ELSE LET X == x[1]
           v == x[2]
       IN  CASE X.kind \in {"string", "float", "bool"} ->
                  IF T.kind = X.kind THEN Stored(v) ELSE Fails(old)
             [] X.kind \in {"int", "uint"} -> setInteger(T, old, v)
             [] X = Slice(Byte) -> IF T = Slice(Byte) THEN Stored(v) ELSE Fails(old)
             [] X.kind = "uid" ->
                  IF T.kind \in {"int", "uint", "uid"} THEN setInteger(T, old, v) ELSE Panics(old)
             [] X = Slice(AnyType) -> IF T.kind = "slice" THEN fromSlice(T, v.elems) ELSE Fails(old)
             [] X.kind = "map" ->
                  CASE T.kind = "map" -> fromMap(T, v.at)
                    [] IsStruct(T) -> fromStruct(T, old, v.at)
                    [] OTHER -> Fails(old)
             [] OTHER -> Fails(old)

fromInterface(T, old, x) ==
  IF T.kind # "pointer" THEN fromInterfaceAt(T, old, x)
  ELSE LET r == fromInterfaceAt(T.of, IF old = << >> THEN Zero(T.of) ELSE old[1], x)
       IN  Wrapped(r, <<r.v>>)

-------------------------------------------------------------------------------
Init ==
  /\ type \in Types
  /\ target = Zero(type)
  /\ before = Zero(type)
  /\ sent = << >>
  /\ document = None
  /\ lax = FALSE
  /\ outcome = [call |-> "none"]
  /\ calls = 0

\* Encode; there is no document where nothing or nothing known is to be written.
Encode(v, format) ==
  LET cf == marshal(type, v)
  IN  /\ calls < MaxCalls
      /\ document' = IF cf \in {None, Unknown} THEN None ELSE Carried(format, cf)
      /\ sent' = IF cf \in {None, Unknown} THEN << >> ELSE <<v>>
      /\ lax' = (format = "OpenStep" /\ document' # None)
      /\ outcome' = [call |-> "none"]
      /\ UNCHANGED <<type, target, before, calls>>

Receive(v) ==
  /\ calls < MaxCalls
  /\ document' = v
  /\ sent' = << >>
  /\ lax' = FALSE
  /\ outcome' = [call |-> "none"]
  /\ UNCHANGED <<type, target, before, calls>>

Called(call, r, strict) ==
  /\ calls < MaxCalls
  /\ calls' = calls + 1
  /\ document # None
  /\ target' = r.v
  /\ before' = target
  /\ outcome' = [call |-> call, is |-> r.is, strict |-> strict]
  /\ UNCHANGED <<type, sent, document, lax>>

Decode(strict) ==
  Called("Decode", unmarshal(type, target, document, [strict |-> strict, lax |-> lax]), strict)

\* The document is decoded into a Dictionary, and that unmarshalled.
ViaDictionary ==
  /\ document # None
  /\ document.cf = "dictionary"
  /\ Called("Dictionary", fromInterface(type, target, valueInterface(document)), FALSE)

\* s = s[:0] for each field that is a slice.
Truncate ==
  /\ type.kind = "struct"
  /\ target' = [k \in DOMAIN target |->
                  IF type.fields[k].type.kind = "slice" /\ target[k].made
                  THEN Made(<< >>, target[k].elems \o target[k].spare) ELSE target[k]]
  /\ outcome' = [call |-> "none"]
  /\ UNCHANGED <<type, sent, document, lax, before, calls>>

Next ==
  \/ \E v \in Samples(type), format \in Formats : Encode(v, format)
  \/ \E v \in Documents : Receive(v)
  \/ \E strict \in BOOLEAN : Decode(strict)
  \/ ViaDictionary
  \/ Truncate

Spec == Init /\ [][Next]_vars

-------------------------------------------------------------------------------
(***************************************************************************)
(* Properties.                                                             *)
(***************************************************************************)
\* "Any nil values encountered, other than the root, will be silently discarded": the
\* document that was made of a struct has no entry for a field that is a nil pointer or a
\* nil interface.
IsNil(T, v) == T.kind \in {"pointer", "any"} /\ v = << >>
NilsDiscarded ==
  sent # << >> /\ type.kind = "struct" =>
    \A k \in DOMAIN type.fields :
      IsNil(type.fields[k].type, sent[1][k]) => type.fields[k].name \notin ToSet(document.keys)

\* Whether v holds, in what is marshalled, a nil pointer to a struct, which is written as
\* an empty dictionary: NilsDiscarded is about them.
RECURSIVE HoldsNilStruct(_, _)
HoldsNilStruct(T, v) ==
  CASE T.kind = "pointer" -> IF v = << >> THEN IsStruct(T.of) ELSE HoldsNilStruct(T.of, v[1])
    [] T.kind = "any" -> v # << >> /\ HoldsNilStruct(v[1], v[2])
    [] T.kind = "slice" -> \E k \in DOMAIN v.elems : HoldsNilStruct(T.of, v.elems[k])
    [] T.kind = "array" -> \E k \in DOMAIN v : HoldsNilStruct(T.of, v[k])
    [] T.kind = "map" -> \E key \in DOMAIN v.at : HoldsNilStruct(T.of, v.at[key])
    [] T.kind = "struct" ->
         \E k \in DOMAIN v :
           LET f == T.fields[k]
           IN  ~(f.omit /\ v[k] = Zero(f.type)) /\ HoldsNilStruct(f.type, v[k])
    [] OTHER -> FALSE

\* Whether a property list has a place for v.
RECURSIVE Present(_, _)
Present(T, v) ==
  T.kind \in {"pointer", "any"} =>
    /\ v # << >>
    /\ IF T.kind = "pointer" THEN Present(T.of, v[1]) ELSE Present(v[1], v[2])

\* old after new has been sent to it.
RECURSIVE Merged(_, _, _)
Merged(T, old, new) ==
  LET Pointed == IF old = << >> THEN Zero(T.of) ELSE old[1]
      Keeps(elems) == SelectSeq(elems, LAMBDA v : Present(T.of, v))
      Slot(k) == IF k <= Len(old.spare) /\ Len(Keeps(new.elems)) < Len(old.spare)
                 THEN old.spare[k] ELSE Zero(T.of)
  IN  CASE ~Present(T, new) -> old
        [] T.kind = "pointer" /\ Present(T, new) -> <<Merged(T.of, Pointed, new[1])>>
        [] T.kind = "slice" /\ T.of # Byte ->
             Made(old.elems \o [k \in DOMAIN Keeps(new.elems) |->
                                  Merged(T.of, Slot(k), Keeps(new.elems)[k])], << >>)
        [] T = Slice(Byte) -> Made(new.elems, << >>)
        [] T.kind = "array" ->
             [k \in 1..T.len |-> IF k <= Len(Keeps(new)) THEN Merged(T.of, old[k], Keeps(new)[k])
                                 ELSE old[k]]
        [] T.kind = "map" ->
             LET keys == {key \in DOMAIN new.at : Present(T.of, new.at[key])}
             IN  MapWith([key \in DOMAIN old.at \cup keys |->
                            IF key \in keys THEN Merged(T.of, Zero(T.of), new.at[key])
                            ELSE old.at[key]])
        [] T.kind = "struct" ->
             [k \in DOMAIN new |->
                LET f == T.fields[k]
                IN  IF f.omit /\ new[k] = Zero(f.type) THEN old[k] ELSE Merged(f.type, old[k], new[k])]
        [] OTHER -> new

\* A document made of a value of the variable's type is decoded without an error,
\* strictly or not and in every format, and the variable is then merged with that
\* value: what the value leaves out stays, slices grow, and elements that come
\* into the spare capacity of a slice are merged with what was left there.  The value
\* holds no nil pointer to a struct.
DecodeMerges ==
  outcome.call = "Decode" /\ sent # << >> /\ ~HoldsNilStruct(type, sent[1]) =>
    outcome.is = "ok" /\ Same(type, target, Merged(type, before, sent[1]))

\* Under StrictIntegers, decoding that succeeds leaves in every integer field the
\* number the document has for it.
StrictExact ==
  outcome.call = "Decode" /\ outcome.is = "ok" /\ outcome.strict /\ type.kind = "struct" =>
    \A k \in DOMAIN type.fields :
      LET f == type.fields[k]
          v == Entry(document, f.name)
      IN  f.type.kind \in {"int", "uint"} /\ v # None /\ v.cf = "number" =>
            target[k] = NumberOf(v)

\* A document decoded into a new variable by way of a Dictionary is, if both ways
\* succeed, the one decoded into it directly.
DictionaryAgrees ==
  outcome.call = "Dictionary" /\ outcome.is = "ok" /\ before = Zero(type) =>
    LET r == unmarshal(type, before, document, [strict |-> FALSE, lax |-> lax])
    IN  r.is = "ok" => Same(type, target, r.v)
===============================================================================
