------------------------------ MODULE MCReflection ------------------------------
(***************************************************************************)
(* What reflection tells the package: the fields of struct types, kept for *)
(* all goroutines, and the conversion of Go values.  They share nothing,   *)
(* so they stand side by side in one run: part says which of them a        *)
(* behaviour is about, and the other keeps its initial state.              *)
(***************************************************************************)
EXTENDS TypeInfo, GoValues

CONSTANTS
  Parts,         \* the machines to run: "cache", "conversion"
  MaxDecodes     \* bound of Conversion: how many documents are decoded

VARIABLES
  part,
  type, target, sent, document, lax, before, outcome, decodes      \* the conversion

conversionVars == <<type, target, sent, document, lax, before, outcome, decodes>>
reflectionVars == <<part, vars, conversionVars>>

--------------------------------------------------------------------------------
\* Three struct types for TypeInfo, the first embedding both others and the second the
\* third, whose fields hide one another, and the fields the finished TypeInfos must have,
\* by the rule of promotion.

F(name, tag) == [name |-> name, anonymous |-> FALSE, exported |-> TRUE, tag |-> tag, type |-> "int"]
Embedded(t) == [name |-> t, anonymous |-> TRUE, exported |-> FALSE, tag |-> "", type |-> t]
Inline(t) == [name |-> t, anonymous |-> FALSE, exported |-> TRUE, tag |-> "inline", type |-> t]
Private(name) == [name |-> name, anonymous |-> FALSE, exported |-> FALSE, tag |-> "", type |-> "int"]

MCLayout ==
  [Outer |-> <<Embedded("Middle"), F("x", ""), Inline("Inner"), Embedded("secret")>>,
   Middle |-> <<F("y", "omitempty"), Embedded("Inner"), F("z", "-"), F("x", "")>>,
   Inner |-> <<F("x", ""), F("y", ""), F("z", "omitempty"), Private("p")>>]

\* All the fields a type has, the embedded ones in the place of their struct.
RECURSIVE AllFields(_)
AllFields(t) ==
  FlattenSeq([i \in DOMAIN Layout[t] |->
    LET f == Layout[t][i]
    IN  IF Hidden(f) THEN << >>
        ELSE IF Embeds(f) THEN Through(i, AllFields(f.type)) ELSE <<FieldInfo(<<i>>, f)>>])

\* Of the fields of one name among the first n, embedded ones included, the shallowest
\* counts, and of those the last.
Promoted(t, n) ==
  LET all == SelectSeq(AllFields(t), LAMBDA f : f.idx[1] <= n)
      Rivals(i) == {j \in DOMAIN all : all[j].Name = all[i].Name}
      Wins(i) == \A j \in Rivals(i) :
                   \/ Len(all[i].idx) < Len(all[j].idx)
                   \/ Len(all[i].idx) = Len(all[j].idx) /\ j <= i
      winners == SetToSortSeq({i \in DOMAIN all : Wins(i)}, <)
  IN  [k \in DOMAIN winners |-> all[winners[k]]]

\* What GetTypeInfo gathers, by the rule of promotion: no cache, and nothing that is
\* added and replaced.
MCGathered == [t \in Structs |-> [n \in 0 .. Len(Layout[t]) |-> Promoted(t, n)]]

--------------------------------------------------------------------------------
\* Structs of one field for Conversion: every kind of field, with pointers, elements and
\* nested structs that may be nil, and documents that have a value of every kind under
\* the name of the field.

W == WordBits
Small == IntOf(ByteBits)
Inner == Struct(<<Field("f", TRUE, Small), Field("g", TRUE, Pointer(Small))>>)

\* The kinds of field, each with the values that are marshalled.
Scalars == {
  <<Small, {-1, 1}>>, <<IntOf(W), {-1, 2 ^ (W - 1) - 1}>>,
  <<Byte, {3}>>, <<UintOf(W), {1, 2 ^ W - 1}>>, <<Type("uid"), {1}>>,
  <<Float(TRUE), {1, -4}>>, <<Float(FALSE), {2}>>, <<Type("bool"), {TRUE}>>,
  <<Type("string"), {Word, Numeral(1), Numeral(-1), Empty}>>, <<Type("time"), {0, 1}>>,
  <<AnyType, {<< >>, <<Type("string"), Word>>}>>, <<Type("chan"), {<< >>}>>}

Composites == {
  <<Pointer(Small), {<< >>, <<1>>}>>,
  <<Pointer(Pointer(Small)), {<< << >> >>, << <<1>> >>}>>,
  <<Pointer(Type("time")), {<< >>, <<1>>}>>,
  <<Pointer(Inner), {<< >>, << <<1, << >> >> >>}>>,
  <<Slice(Byte), {NilSlice, Made(<<1, 2>>, << >>)}>>,
  <<ArrayOf(2, Byte), {<<1, 2>>}>>,
  <<Slice(Pointer(Small)), {NilSlice, Made(<< << >>, <<1>> >>, << >>)}>>,
  <<ArrayOf(2, Pointer(Small)), {<< << >>, <<1>> >>, << <<1>>, <<-1>> >>}>>,
  <<Slice(Inner), {Made(<< <<1, << >> >> >>, << >>), Made(<< <<0, <<1>> >>, <<0, << >> >> >>, << >>)}>>,
  <<MapOf(Pointer(Small)), {NilMap, MapWith([key \in {"a", "b"} |-> IF key = "a" THEN << >> ELSE <<1>>])}>>,
  <<MapOf(Inner), {MapWith([key \in {"a"} |-> <<0, << >> >>]), MapWith([key \in {"a"} |-> <<1, <<1>> >>])}>>,
  <<Slice(AnyType), {Made(<< <<Type("string"), Word>>, << >> >>, << >>)}>>,
  <<Inner, {<<1, << >> >>, <<0, <<1>> >>}>>}

Kinds == Scalars \cup Composites

VariableTypes == {Struct(<<Field("f", omit, kind[1])>>) : omit \in BOOLEAN, kind \in Kinds}

SampleValues(T) ==
  {<<v>> : v \in (CHOOSE kind \in Kinds : kind[1] = T.fields[1].type)[2]} \cup {Zero(T)}

Entries ==
  {Number(FALSE, 1)} \cup {Number(signed, n) : signed \in BOOLEAN, n \in {2 ^ (W - 1), 2 ^ W - 1}}
    \cup {String(s) : s \in {Numeral(1), Numeral(-1), Numeral(2 ^ W), Decimal(1), DateText(1), Word, Empty}}
    \cup {Real(FALSE, 1), Real(TRUE, 4), Boolean(TRUE), Data(<<1>>), Data(<<1, 2, 3>>), Date(1), UID(1), UID(2 ^ W - 1),
          Array(<<Number(FALSE, 1)>>), Array(<<String(Word), UID(1)>>), Array(<< >>),
          Dict(<< >>, << >>), Dict(<<"f">>, <<Number(FALSE, 1)>>), Dict(<<"a">>, <<Array(<<Boolean(TRUE)>>)>>)}

OtherDocuments ==
  {Dict(<<"f">>, <<v>>) : v \in Entries}
    \cup {Dict(<<"f", "f">>, <<Number(FALSE, 1), v>>) : v \in {Number(FALSE, 0), String(Word)}}
    \cup {Dict(<< >>, << >>), String(Word)}

Conversion ==
  INSTANCE Conversion WITH
    Types <- VariableTypes, Samples <- SampleValues, Documents <- OtherDocuments,
    MaxCalls <- MaxDecodes, calls <- decodes

--------------------------------------------------------------------------------
SomeType == CHOOSE T \in VariableTypes : TRUE
ReflectionInit ==
  /\ part \in Parts
  /\ IF part = "conversion" THEN TRUE ELSE type = SomeType
  /\ Init /\ Conversion!Init

RunCache(g) ==
  /\ part = "cache"
  /\ Run(g) /\ UNCHANGED <<part, conversionVars>>
CallCache(g) ==
  /\ part = "cache"
  /\ Call(g) /\ UNCHANGED <<part, conversionVars>>
\* Every goroutine has asked and has its answer.
AllAnswered ==
  /\ part = "cache" /\ calls = MaxCalls
  /\ \A g \in Goroutines : stack[g] = << >>
  /\ UNCHANGED reflectionVars
RunConversion ==
  /\ part = "conversion"
  /\ Conversion!Next /\ UNCHANGED <<part, vars>>

ReflectionNext ==
  \/ \E g \in Goroutines : RunCache(g) \/ CallCache(g)
  \/ AllAnswered
  \/ RunConversion
ReflectionSpec == ReflectionInit /\ [][ReflectionNext]_reflectionVars
\* The scheduler lets every running goroutine run.
FairReflectionSpec ==
  ReflectionSpec /\ \A g \in Goroutines : WF_reflectionVars(RunCache(g))

--------------------------------------------------------------------------------
(***************************************************************************)
(* Properties of the conversion, under the names they have in Conversion,  *)
(* where they are explained.                                               *)
(***************************************************************************)
\* A document made of a value is decoded without an error, and merged with what was there.
DecodeMerges == Conversion!DecodeMerges
\* Decoding under StrictIntegers leaves no number in an integer that it does not fit.
StrictExact == Conversion!StrictExact
\* Decoding by way of a Dictionary and decoding directly agree where both succeed.
DictionaryAgrees == Conversion!DictionaryAgrees
\* A nil pointer or interface in a field is not in the document.
NilsDiscarded == Conversion!NilsDiscarded
================================================================================
