-------------------------------- MODULE GoValues --------------------------------
(***************************************************************************)
(* Go types and values as reflect shows them to marshal.go, unmarshal.go   *)
(* and map_marshal.go, and the property list values in between.  A word    *)
(* has WordBits bits; integer kinds have that many or fewer.  A float is   *)
(* counted in halves, so that 1 is the value 0.5; 0 is the zero time.       *)
(*                                                                         *)
(* A value is read together with its type: a number, a string, TRUE, or    *)
(*   a pointer   the sequence of what it points to, << >> being nil        *)
(*   interface{} << >>, or <<type, value>>                                 *)
(*   a slice     its elements, and those between its length and capacity   *)
(*   an array    the sequence of its elements                              *)
(*   a map       a function of the keys it has                             *)
(*   a struct    the sequence of its fields                                *)
(***************************************************************************)
EXTENDS Integers, Sequences

CONSTANTS
  WordBits,      \* of an int, a uint64 and a cfNumber
  ByteBits       \* of an int8 and a byte

ASSUME WordAssumption == WordBits \in Nat /\ ByteBits \in 1..(WordBits - 1)

Type(kind) == [kind |-> kind]
IntOf(bits) == [kind |-> "int", bits |-> bits]
UintOf(bits) == [kind |-> "uint", bits |-> bits]
Byte == UintOf(ByteBits)
Float(wide) == [kind |-> "float", wide |-> wide]
AnyType == Type("any")
Pointer(E) == [kind |-> "pointer", of |-> E]
Slice(E) == [kind |-> "slice", of |-> E]
ArrayOf(n, E) == [kind |-> "array", len |-> n, of |-> E]
MapOf(E) == [kind |-> "map", of |-> E]
Struct(fields) == [kind |-> "struct", fields |-> fields]
Field(name, omit, T) == [name |-> name, omit |-> omit, type |-> T]

\* Types whose kind is struct; a time.Time has no fields to be seen.
IsStruct(T) == T.kind \in {"struct", "time"}
Fields(T) == IF T.kind = "struct" THEN T.fields ELSE << >>

\* Texts: the numeral of an integer, the numeral of a number of halves that is no
\* integer, a date, the empty text, and any other word.
Numeral(n) == [is |-> "integer", n |-> n]
Decimal(halves) == [is |-> "decimal", n |-> halves]
DateText(d) == [is |-> "date", n |-> d]
Word == [is |-> "word", n |-> 0]
Empty == [is |-> "empty", n |-> 0]
FloatText(halves) == IF halves % 2 = 0 THEN Numeral(halves \div 2) ELSE Decimal(halves)

NilSlice == [made |-> FALSE, elems |-> << >>, spare |-> << >>]
Made(elems, spare) == [made |-> TRUE, elems |-> elems, spare |-> spare]
NilMap == [made |-> FALSE, at |-> << >>]
MapWith(f) == [made |-> TRUE, at |-> f]

RECURSIVE Zero(_)
Zero(T) ==
  CASE T.kind \in {"int", "uint", "float", "uid", "time"} -> 0
    [] T.kind = "bool"                       -> FALSE
    [] T.kind = "string"                     -> Empty
    [] T.kind \in {"pointer", "any", "chan"} -> << >>
    [] T.kind = "slice"                      -> NilSlice
    [] T.kind = "map"                        -> NilMap
    [] T.kind = "array"                      -> [k \in 1..T.len |-> Zero(T.of)]
    [] T.kind = "struct"                     -> [k \in DOMAIN T.fields |-> Zero(T.fields[k].type)]

Zeros(n, T) == [k \in 1..n |-> Zero(T)]

\* Two values that a program cannot tell apart but by their capacities.
RECURSIVE Same(_, _, _)
Same(T, v, w) ==
  CASE T.kind = "pointer" ->
         Len(v) = Len(w) /\ (v # << >> => Same(T.of, v[1], w[1]))
    [] T.kind = "any" ->
         Len(v) = Len(w) /\ (v # << >> => v[1] = w[1] /\ Same(v[1], v[2], w[2]))
    [] T.kind = "slice" ->
         /\ v.made = w.made /\ Len(v.elems) = Len(w.elems)
         /\ \A k \in DOMAIN v.elems : Same(T.of, v.elems[k], w.elems[k])
    [] T.kind = "map" ->
         /\ v.made = w.made /\ DOMAIN v.at = DOMAIN w.at
         /\ \A key \in DOMAIN v.at : Same(T.of, v.at[key], w.at[key])
    [] T.kind = "array" -> \A k \in DOMAIN v : Same(T.of, v[k], w[k])
    [] T.kind = "struct" -> \A k \in DOMAIN v : Same(T.fields[k].type, v[k], w[k])
    [] OTHER -> v = w

-------------------------------------------------------------------------------
\* Words: the bits of n, read without and with a sign.
Unsigned(n, bits) == n % 2 ^ bits
Signed(n, bits) ==
  LET u == n % 2 ^ bits IN IF u >= 2 ^ (bits - 1) THEN u - 2 ^ bits ELSE u

\* Property list values.
None == [cf |-> "nil"]
String(s) == [cf |-> "string", text |-> s]
Number(signed, word) == [cf |-> "number", signed |-> signed, v |-> word]
Real(wide, halves) == [cf |-> "real", wide |-> wide, v |-> halves]
Boolean(b) == [cf |-> "boolean", truth |-> b]
Data(d) == [cf |-> "data", bytes |-> d]
Date(d) == [cf |-> "date", v |-> d]
UID(n) == [cf |-> "uid", v |-> n]
Array(vals) == [cf |-> "array", vals |-> vals]
Dict(keys, vals) == [cf |-> "dictionary", keys |-> keys, vals |-> vals]

\* The number a cfNumber stands for.
NumberOf(v) == IF v.signed THEN Signed(v.v, WordBits) ELSE v.v
===============================================================================
