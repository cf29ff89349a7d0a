---------------------------- MODULE MCKeyedArchiver ----------------------------
(***************************************************************************)
(* Small Go values for KeyedArchiver: composites of two items, each a      *)
(* primitive, NaN, nil, a value marshal does not know, a slice that holds  *)
(* nil, or a struct that equals one of the maps once archived; and for     *)
(* ArchiveReader archives with cycles, odd keys and missing roots.          *)
(***************************************************************************)
EXTENDS ArchiveRoundTrip

CONSTANTS a, b, nan, null

Value(go, prim, type, items) ==
  [go |-> go, prim |-> prim, type |-> type, items |-> items, ptr |-> FALSE]
Ptr(v) == [v EXCEPT !.ptr = TRUE]
It(key, omit, value) == [key |-> key, omit |-> omit, value |-> value]

P(p) == Value("prim", p, "", << >>)
NilValue == Value("nil", null, "", << >>)
Leaf(class) == Value("leaf", a, class, << >>)
Data == Leaf("NSMutableData")
NilSlice == Value("slice", null, "", <<It(null, FALSE, NilValue)>>)
Pair == Value("struct", null, "Pair", <<It(b, FALSE, P(a))>>)

PairMap == Value("map", null, "", <<It(b, FALSE, P(a))>>)

Inner == {P(a), P(nan), NilValue, NilSlice, Pair, PairMap, Data}

\* The elements of a slice and the values of a map have one type, pointers
\* included; the fields of a struct have any.
Alike == {<<x, y>> : x, y \in {P(a), P(null)}}
           \cup {<<P(nan), P(nan)>>, <<NilSlice, NilSlice>>, <<Pair, Pair>>, <<NilValue, NilValue>>,
                 <<PairMap, NilValue>>, <<PairMap, PairMap>>, <<Data, Data>>}
           \cup {<<Ptr(v), NilValue>> : v \in {P(a), Pair, Leaf("NSDate"), Leaf("NSUUID")}}

MCValues ==
  {Value(go, null, "", <<It(a, FALSE, xy[1]), It(b, FALSE, xy[2])>>) :
     go \in {"slice", "map"}, xy \in Alike}
    \cup {Value(to[1], null, to[2], <<It(a, to[3], x), It(b, FALSE, y)>>) :
            to \in {<<"struct", "S", TRUE>>, <<"object", "NSThing", FALSE>>},
            x \in Inner, y \in {P(a), NilValue}}
    \cup {Value("unknown", null, "", << >>),
          Value("struct", null, "T", <<It(b, FALSE, P(a)), It(a, TRUE, Value("unknown", null, "", << >>))>>),
          Value("struct", null, "U", <<It(a, FALSE, PairMap), It(b, FALSE, Pair)>>),
          Value("struct", null, "V", <<It(a, FALSE, [Leaf("NSDate") EXCEPT !.prim = b]), It(b, FALSE, Leaf("NSUUID"))>>),
          Value("map", null, "", <<It(null, FALSE, P(b))>>)}

Inside(S) == S \cup UNION {{item.value : item \in Range(v.items)} : v \in S}
MCMet == Inside(Inside(Inside(MCValues)))
MCClassNames == {"NSMutableDictionary", "NSMutableArray"} \cup {v.type : v \in MCMet}

\* Objects as another program archives them: an array, a dictionary and a class.
Dict(keys, refs, class) ==
  [kind |-> "dict", data |-> "", names |-> << >>, keys |-> keys, refs |-> refs,
   class |-> class, classname |-> ""]
ClassDict(name) == [Dict(<< >>, << >>, NoUid) EXCEPT !.classname = name]

Cyclic == <<null, Dict(<< >>, <<1>>, 2), ClassDict("NSArray")>>
MCForeign ==
  {Dict(<< >>, <<k>>, 6) : k \in 0..5} \cup {ClassDict("NSArray")}

Loops == [k \in 1..6 |-> Dict(<< >>, <<k - 1>>, 6)] \o <<ClassDict("NSArray")>>
Odd == <<null, Dict(<<2>>, <<0>>, 3), nan, ClassDict("NSDictionary")>>

List(refs) == [Dict(<< >>, refs, NoUid) EXCEPT !.kind = "list"]
Direct(class, keys, refs) == <<b, Dict(keys, refs, 2), ClassDict(class)>>

MCArchives ==
  {[objs |-> doc[1], root |-> doc[2], of |-> Idle] :
     doc \in {<<Cyclic, 1>>, <<Cyclic, NoUid>>, <<Odd, 1>>, <<<<null, List(<<1>>)>>, 1>>,
              <<<<List(<<a>>)>>, 0>>, <<Direct("NSArray", << >>, <<a, 0>>), 1>>,
              <<Direct("NSDictionary", <<0>>, <<a>>), 1>>,
              <<<<Dict(<< >>, <<2>>, 1), ClassDict("NSMutableArray"), Dict(<< >>, << >>, 1)>>, 0>>}}

Strings == Value("slice", null, "", <<It(null, FALSE, P(a))>>)
MCTypes == {Value("slice", null, "", << >>), Pair, Leaf("NSDate"), Data, Strings}

\* b is half a second after a.
MCSecond == [p \in Primitives |-> IF p = b THEN a ELSE p]

MCTables == {<< >>, <<null, b, a, b>>, Loops}
===============================================================================
