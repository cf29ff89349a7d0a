-------------------------------- MODULE MCBinary --------------------------------
(***************************************************************************)
(* The generator of binary property lists, the parser of their objects and *)
(* the decoder on top, each on small documents of its own.  They share     *)
(* nothing, so they stand side by side in one run: part says which of them *)
(* a behaviour is about, and the other two keep their initial state.       *)
(***************************************************************************)
EXTENDS BplistRoundTrip, BplistParser, Decoder

CONSTANT Parts         \* the machines to run: "generator", "parser", "decoder"

VARIABLE part

binaryVars == <<part, vars, parserVars, streamVars>>

--------------------------------------------------------------------------------
\* Documents of the parser.

Listing(kind, refs, fits) == [kind |-> kind, refs |-> refs, fits |-> fits]

Scalar == Listing("scalar", << >>, TRUE)
Words == Listing("string", << >>, TRUE)

Arrays(S) ==
  {Listing("array", r, TRUE) : r \in {<< >>} \cup {<<a>> : a \in S} \cup (S \X S)}

Dicts(S) == {Listing("dict", r, TRUE) : r \in S \X S}

\* Offsets o, objects f; an offset that no id has holds a scalar.
Laid(o, f) ==
  [top  |-> 1,
   offs |-> o,
   objs |-> [k \in Offsets |-> IF k \in Range(o) /\ k \in DOMAIN f THEN f[k]
                                ELSE Scalar]]

\* Three objects, in every pattern of aliased offsets up to renaming: the first
\* two take every shape of arrays with at most two elements and of dictionaries
\* with one pair.
SharingDocuments ==
  LET Shapes == {Scalar, Words} \cup Arrays(1..3) \cup Dicts(1..3)
  IN  {Laid(o, <<a, b, c>>) :
         o \in {<<1, 2, 3, 4>>, <<1, 1, 3, 4>>, <<1, 2, 1, 4>>, <<1, 2, 2, 4>>},
         a \in Shapes, b \in Shapes,
         c \in {Scalar, Words} \cup
               {Listing("array", r, TRUE) : r \in {<< >>, <<1>>, <<2>>, <<3>>}}}

\* Two objects, and everything that can be wrong with them.
FaultyDocuments ==
  {Laid(o, f) :
     o \in {<<1, 2, 3, 4>>, <<1, 1, 3, 4>>, <<1, Beyond, 3, 4>>, <<Beyond, 2, 3, 4>>},
     f \in [1..2 -> {Scalar, Words} \cup Arrays({1, 2, BadRef}) \cup Dicts({1, 2, BadRef})
                      \cup {Listing("illegal", << >>, TRUE),
                            Listing("array", <<2>>, FALSE),
                            Listing("dict", <<2, 2>>, FALSE)}]}

\* Four objects, which can nest four deep: arrays that reach a later object.
NestingDocuments ==
  {Laid(<<1, 2, 3, 4>>, <<a, b, c, d>>) :
     a \in {Listing("array", r, TRUE) : r \in {<<2>>, <<2, 3>>, <<3, 2>>, <<4, 2>>}},
     b \in Arrays(3..4), c \in Arrays({4}),
     d \in {Scalar, Listing("array", << >>, TRUE), Listing("array", <<2>>, TRUE)}}

ParserDocuments == SharingDocuments \cup FaultyDocuments \cup NestingDocuments

--------------------------------------------------------------------------------
\* Values of the generator: a root container over two members out of every kind of
\* scalar, nil and a second container, and longer arrays and strings whose counts and
\* numbers cross the widths of Base 3.

S(chars) == Str(chars)
Number(signed, n) == [kind |-> "number", data |-> <<signed, n>>]
Of(kind, data) == [kind |-> kind, data |-> data]
R == Of("dict", <<1>>)
A == Of("array", <<1>>)
Sub == Of("array", <<2>>)
SubDict == Of("dict", <<2>>)

MCScalars ==
  {S(<< >>), S(<<1>>), S(<<1, 2>>), S(<<2, 3, 3>>), S(<<3>>), S(<<1, 1, 1, 1>>),
   Number(0, 2), Number(1, 2), Number(0, 3), Number(0, 9), Number(0, 81), Number(0, SignBit),
   Number(1, SignBit), Number(1, Word - 1), Real(1, 0), Real(1, NegativeZero), Real(0, 0), Real(1, NaN),
   Of("bool", <<1>>), Of("bool", <<0>>), Of("data", <<1>>), Of("data", <<1, 1, 1>>),
   Of("date", <<4, 0>>), Of("date", <<5, 0>>), Of("date", <<5, 1>>), Of("uid", <<1>>), Of("uid", <<9>>), Nil}

Plist(r, one, two) == [root |-> r, heap |-> <<one, two>>]
E(k, v) == <<k, v>>
El(v) == <<<< >>, v>>
Two == <<E(<<2>>, S(<<1>>)), E(<<1>>, Nil)>>

Pairs ==
  {Plist(A, <<El(x), El(y)>>, << >>) : x \in MCScalars, y \in MCScalars}
    \cup {Plist(R, <<E(<<2>>, x), E(<<1>>, y)>>, <<El(Nil), El(S(<<2>>))>>) : x \in MCScalars, y \in {S(<<1>>), Sub, Nil}}
    \cup {Plist(R, <<E(<<1, 1>>, x), E(<<1>>, SubDict)>>, Two) : x \in MCScalars}
    \cup {Plist(x, << >>, << >>) : x \in MCScalars \ {Nil}}

\* From 1 to 18 objects: the widths of references and of counts.
Wide ==
  {Plist(A, [i \in 1 .. n |-> El(Of("bool", <<i % 2>>))], << >>) : n \in 0 .. 17}
    \cup {Plist(A, [i \in 1 .. n |-> El(Number(0, i))], << >>) : n \in {2, 3, 8, 9}}
    \cup {Plist(A, <<El(S([i \in 1 .. n |-> c]))>>, << >>) : n \in {2, 3, 4, 9}, c \in {1, 2, 3}}
    \cup {Plist(A, <<El(Sub), El(S(<<1>>))>>, <<El(S(<<1>>)), El(Of("uid", <<3>>)), El(Of("uid", <<3>>))>>)}

MCPlists == Pairs \cup Wide

--------------------------------------------------------------------------------
\* Streams of the decoder: one of each kind with a small tree, and binary documents
\* that share a container at up to four levels.

Doc(kind, root, kids, keys) == [kind |-> kind, root |-> root, kids |-> kids, keys |-> keys]
Leaf(kind) == Doc(kind, 0, << >>, << >>)
Nothing(kind) == Doc(kind, Unresolved, << >>, << >>)
TwoLevels(kind) == Doc(kind, 1, <<<<0, 2, 0>>, <<0, 0>>>>, <<0, 2>>)
Holes == Doc(XML, 1, <<<<Unresolved, 0, Unresolved, 2>>, << >>>>, <<0, 0>>)
Shared(kind, depth) ==
  Doc(kind, 1, [n \in 1 .. depth |-> IF n = depth THEN <<0>> ELSE <<n + 1, n + 1>>],
      [n \in 1 .. depth |-> 0])

DecoderDocuments ==
  {Leaf(k) : k \in {BadBinary, BadXML, Unknown, OpenStep, BinaryOpening, BinaryAsText}}
    \cup {Nothing(k) : k \in {TextQuoting, BinaryQuoting}}
    \cup {TwoLevels(k) : k \in {Binary, XML, OpenStep, GNUStep}}
    \cup {Holes} \cup {Shared(Binary, d) : d \in {2, 4}}

--------------------------------------------------------------------------------
AnyDocument == CHOOSE d \in Documents : TRUE
AnyPlist == CHOOSE p \in Plists : TRUE
AnyStream == CHOOSE s \in Streams : TRUE
BinaryInit ==
  /\ part \in Parts
  /\ IF part = "parser" THEN TRUE ELSE doc = AnyDocument
  /\ IF part = "generator" THEN TRUE ELSE given = AnyPlist
  /\ IF part = "decoder" THEN TRUE ELSE content = AnyStream
  /\ ParserInit /\ Init /\ DecoderInit

RunParser ==
  /\ part = "parser"
  /\ ParserNext \/ (status # "parsing" /\ UNCHANGED parserVars)
  /\ UNCHANGED <<part, vars, streamVars>>
RunGenerator == part = "generator" /\ Next /\ UNCHANGED <<part, parserVars, streamVars>>
RunDecoder == part = "decoder" /\ DecoderNext /\ UNCHANGED <<part, vars, parserVars>>

BinarySpec ==
  BinaryInit /\ [][RunParser \/ RunGenerator \/ RunDecoder]_binaryVars
\* The parser is one goroutine that nothing blocks.
FairBinarySpec == BinarySpec /\ WF_binaryVars(RunParser)

--------------------------------------------------------------------------------
\* parseDocument returns on every document, whatever its references.
Termination == part = "parser" ~> status # "parsing"
================================================================================
