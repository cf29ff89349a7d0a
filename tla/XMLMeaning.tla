------------------------------- MODULE XMLMeaning -------------------------------
(***************************************************************************)
(* What an XML document means, with no parser in sight: elements are       *)
(* places in the sequence of tokens, the value of one is put together from *)
(* those directly inside it, and an IDREF stands for the element with that *)
(* ID which is complete last.                                              *)
(***************************************************************************)
EXTENDS XMLPlist

Containers == {"plist", "dict", "array"}
Booleans == {"true", "false"}
Unnamed == {"plist", "key"}          \* elements whose attributes are not looked at

StartTags(T) == {p \in DOMAIN T : Is("start", T[p])}
RootOf(T) == Min(StartTags(T))
Kids(T, p) == {k \in StartTags(T) : p < k /\ k < EndOf(T, p) /\ Level(T, p, k) = 2}
ValueKids(T, p) == {k \in Kids(T, p) : T[k].start # "key"}
ContentOf(T, p) == TextWithin(T, p, EndOf(T, p))
\* The text of the key before the value at v, a place in the dictionary at p.
KeyBefore(T, p, v) == ContentOf(T, Max({k \in Kids(T, p) : k < v}))

\* The members of a set of places as a sequence.
InOrder(K) == [i \in 1 .. Cardinality(K) |-> CHOOSE k \in K : Cardinality({j \in K : j <= k}) = i]

\* The element at k, if value gives that of each element by its end: where it refers to an
\* ID, it is the one of that ID which ends last, itself and what is in it included.
Bearers(T, id, n) ==
  {q \in StartTags(T) : T[q].start \notin Unnamed /\ EndOf(T, q) <= n /\ id \in Named(T[q].attrs)}
Denoted(T, value, k) ==
  LET attrs == T[k].attrs
      id == attrs[Min(References(attrs))].value
      ends == {EndOf(T, q) : q \in Bearers(T, id, EndOf(T, k))}
  IN  CASE T[k].start \in Unnamed \/ References(attrs) = {} -> value[EndOf(T, k)]
        [] T[k].start \notin Unnamed /\ References(attrs) # {} ->
             IF ends = {} THEN Nil ELSE value[Max(ends)]

\* The element at p itself; of value only what ends before it matters.
Made(T, value, p) ==
  LET name == T[p].start
      places == InOrder(ValueKids(T, p))
      values == [i \in DOMAIN places |-> Denoted(T, value, places[i])]
      keys == [i \in DOMAIN places |-> KeyBefore(T, p, places[i])]
  IN  CASE name \in Scalars -> ScalarValue(name, ContentOf(T, p)).value
        [] name \in Booleans -> Boolean(name = "true")
        [] name = "plist" -> values[1]
        [] name = "array" -> Array(values)
        [] name = "dict" -> MaybeUID(keys, values, FALSE)

StartOf(T, e) == Max({p \in 1 .. e : Level(T, p, e) = 0})
ValuesByEnd(T) ==
  LET value[e \in 1 .. Len(T)] == Made(T, [n \in 1 .. e - 1 |-> value[n]], StartOf(T, e))
  IN  value
MeaningOf(T) == Denoted(T, ValuesByEnd(T), RootOf(T))

--------------------------------------------------------------------------------
\* The documents that mean something: every tag has its end, every element a name and a
\* content it may have, every value of a dictionary a key and every key a value.
Leaf(T, p) == \A k \in StartTags(T) : p < k => EndOf(T, p) < k
Paired(T, p) ==
  /\ \A v \in ValueKids(T, p) :
       \E k \in Kids(T, p) : k < v /\ T[k].start = "key" /\ \A j \in Kids(T, p) : ~(k < j /\ j < v)
  /\ \A k \in Kids(T, p) : T[k].start = "key" => \E v \in ValueKids(T, p) : k < v
SoundElement(T, p) ==
  /\ EndOf(T, p) \in DOMAIN T /\ Is("end", T[EndOf(T, p)]) /\ T[EndOf(T, p)].end = T[p].start
  /\ CASE T[p].start \in Scalars -> Leaf(T, p) /\ ScalarValue(T[p].start, ContentOf(T, p)).ok
       [] T[p].start \in Booleans \cup {"key"} -> Leaf(T, p)
       [] T[p].start = "plist" -> Kids(T, p) = ValueKids(T, p) /\ Cardinality(Kids(T, p)) = 1
       [] T[p].start = "array" -> Kids(T, p) = ValueKids(T, p)
       [] T[p].start = "dict" -> Paired(T, p)
       [] OTHER -> FALSE
InRoot(T) == {p \in StartTags(T) : p <= EndOf(T, RootOf(T))}
Sound(T) ==
  /\ StartTags(T) # {} /\ T[RootOf(T)].start # "key"
  /\ \A p \in InRoot(T) : SoundElement(T, p)

\* Those that nest no deeper than maxNestingDepth, and are well-formed up to the end of
\* their root.
Shallow(T) == \A p \in InRoot(T) : Level(T, RootOf(T), p) <= MaxNesting
Readable(T) == Sound(T) /\ Shallow(T) /\ EndOf(T, RootOf(T)) < FailsAt(T)

\* t is T, cut off somewhere, maybe in the middle of character data.
Begins(t, T) ==
  /\ Len(t) <= Len(T)
  /\ \A i \in DOMAIN t :
       t[i] = T[i] \/ (i = Len(t) /\ t[i] = CharData(t[i].chars) /\ T[i] = CharData(T[i].chars))
================================================================================
