# A verification project for go-plist

go-plist reads and writes Apple property lists in four formats (binary, XML, OpenStep,
GNUStep), and NSKeyedArchiver archives on top of them. This directory holds TLA+ modules
that model its parsers, generators, caches and limits, TLC configurations that check them
on small instances, and proofs, checked by TLAPS, of what must hold for every instance.

To check: `tlc -config X.cfg M` for each run of the table below; `tlapm MProofs.tla` for
each proof module.

## 1. The system

A document is parsed into a tree or graph of `cfValue`s, which `unmarshal` copies into Go
values; `marshal` makes a `cfValue` tree of a Go value, which a generator writes.

| Component | State it keeps | Operations | What is hard, and what makes it correct |
|---|---|---|---|
| Binary parser (`bplist_parser.go`) | object table and memo table `objects`, `containerStack`, the goroutine's stack | `parseDocument`, `objectAtIndex`, collections, trailer check | references may be shared, cyclic, aliased or wrong. The stack must be exact also when a call panics, each object parsed once, the values acyclic, the nesting bounded; every document accepted must mean what its bytes say |
| Binary generator (`bplist_generator.go`) | `objtable` with the two maps `strmap`, `objmap`; the count of bytes written | `flattenPlistValue`, `generateDocument`, a writer per tag | two maps number one table; widths change at powers of 256; a Write fails in the middle. Offsets and counts must be exact, equal scalars written once, nothing lost |
| Text parser (`text_parser.go`) | `input`, `pos`, `format`, `depth` | `parseDocument` and a function for each kind of value, in a first attempt and a second one as a strings file | loops must stop at the end of the input, a cut-off document must not be a shorter one, format and depth must be right in both attempts |
| Text generator (`text_generator.go`, `text_tables.go`) | `indent`, `depth` | `writePlistValue`, quoting | what is written must be read back; the tables for writing and for reading must agree |
| XML parser (`xml_parser.go`) | `idrefs`, `depth`, tag count | `parseDocument`, `parseXMLElement` over the tokens of encoding/xml | references are resolved while the document is read; errors of the decoder are ignored in places; the verdict "not XML" makes the Decoder try the text formats |
| XML generator (`xml_generator.go`) | `depth`, `indent` | `writePlistValue` | two escapers, indentation inside data; what is written must be read back |
| Decoder (`decode.go`, `unmarshal.go`) | `Format`, `lax`, `root`, `nodes`, `budget` across calls | `Decode`: guess the format, parse, convert, count | fields kept from call to call, shared containers that multiply when copied, short reads |
| Encoder (`encode.go`, `marshal.go`) | the buffer of custom marshalers | `Encode` | nil values, which no format can carry; omitempty |
| Conversion (`unmarshal.go`) | the variable that is decoded into, kept from call to call | `unmarshal`, `valueInterface` | what a document leaves out must stay; numbers cut to narrower fields; spare capacity of slices; failures halfway |
| Type cache (`typeinfo.go`) | the package's `sync.Map`, `TypeInfo`s under construction | `GetTypeInfo`, `addFieldInfo`, `Value` | any number of goroutines; the rules of promotion and hiding |
| Keyed archiver (`keyed_archiver.go`) | `Objects`, `Top`, primitive index, `depth` | `Marshal`, `Unmarshal`, `ReadFrom...`, `Print` | a cached index over an exported slice; nil values in composites; UID cycles |
| Dictionary, JSON (`map_marshal.go`) | none | `Dictionary.Unmarshal`, `ConvertToJSON` | a second conversion that must agree with the first |

They interact by calls alone. What is shared is: the type cache, between all goroutines;
the reader, between a Decoder and its owner; `Archiver.Objects`, between the archiver and
its owner; and the bytes of a binary document, between the parser and every decoded value
of data or text.

## 2. The modules

    BplistDocument --- BplistParser --- BplistParserProofs     BplistPromise (abstract)
    BplistFormat ----- BplistGenerator --- BplistGeneratorProofs, BplistRoundTrip
            \--------- BplistTrailer
    DecoderStreams --- Decoder --- DecoderProofs
    PlistValues ------ TextPlist --- TextParser --- TextParserProofs
           |                   \---- TextGenerator
            \--------- XMLPlist --- XMLMeaning --- XMLParser (and XMLDocuments) --- XMLParserProofs
                               \--- XMLGenerator --- XMLSamples
    ArchiverObjects -- KeyedArchiver --- ArchiveReader --- ArchiveRoundTrip --- MCKeyedArchiver
                               \---- KeyedArchiverProofs
    GoValues --------- Conversion
    TypeInfo --------- TypeInfoProofs
    SequenceLemmas --- used by the proof modules but TypeInfoProofs

    MCBinary     = BplistRoundTrip | BplistParser | Decoder
    MCMarkup     = TextParser with TextGenerator | XMLParser with XMLSamples
    MCReflection = TypeInfo | Conversion

The last three stand components side by side that share nothing. Their variable `part` says which of
them a behaviour is about; the others keep one initial state, and no step of one is a step of
another. So one run checks several components as if each had its own, and their state spaces
are added, not multiplied.

**BplistDocument, BplistParser, BplistPromise.** A document is its offset table and the
object at each offset: a scalar, a string, an array, a dictionary or an illegal object.
`BplistParser` is `objectAtIndex` and what it calls; the Go stack is the variable `frames`,
one frame for each collection whose loop is running, and each action is one outcome of a
call of `objectAtIndex` or the return of a collection. A panic (`Fail`) runs the deferred
pops. `BplistPromise` is the abstract specification: `parseDocument` decides once, an
accepted document is well formed and the values are those the document denotes, and a
refusal has a reason. `BplistParser` implements it (property `ImplementsPromise`): the abstract
value is the memo table's part that is filled, once the status is ok.

**BplistFormat, BplistGenerator, BplistRoundTrip, BplistTrailer.** `BplistFormat` has the
writers of each tag and their readers, with a parameter `Base` in the place of 256 and
`CountMask` in that of 15, so that the widths 1, 2, 4 and 8 are crossed by small numbers;
words are still 8 units wide, and arithmetic on them wraps. Dates are instants finer than the float of their
seconds: `Seconds` and `Instant` convert them with the grain `DateGrain`, so that two dates may become one. `BplistGenerator` is
`flattenPlistValue`, one action per value met, and `generateDocument`, one action per
object, whose writer may fail in any Write. The maps of a document are written in the order
of their keys (`Normal`), by the rank of each entry among the others. `BplistRoundTrip` reads a written document back
with the parser's side of the format. `BplistTrailer` checks the arithmetic of
`validateDocumentTrailer`, after the length and the header of the document.

**TextPlist, TextParser, TextGenerator.** A document is a sequence of bytes; characters are
numbers. `TextPlist` has the scanners of the parser, each of which returns a value and the
position after it or an error, and the writers of the scalars. `TextParser` is the recursion
of `parsePlistValue`, `parseArray` and `parseDictionary`: `stack` holds the open calls, `pc`
the loop that reads next. `Unclosed` counts, over the tokens of the text alone, how many more collections
they open than they close: what a document that is cut off has left. `TextGenerator` is `writePlistValue` as the document it writes.

**XMLPlist, XMLMeaning, XMLParser, XMLGenerator.** A raw document is a sequence of tokens of encoding/xml: start
tags with attributes, end tags, character data (each character as it stands or as a reference)
and other markup. `XMLPlist` says where the decoder of encoding/xml gives up (`FailsAt`: tags that
do not match, the end of the input, characters that are not allowed), how text is escaped and
unescaped, and what each scalar element's text is converted into. `XMLParser` is `parseDocument`
and `parseXMLElement`: `stack` holds the calls that read a plist, dict or array element, each way a
call can end or go on is an action, and `idrefs` is filled as elements are completed.
`XMLMeaning` is the reference for it, with no parser in sight: elements are places in the sequence of
tokens, `Sound` says which documents mean something and `MeaningOf` what; the value of each element
is put together from those directly inside it, and an IDREF stands for the element with that ID that
is complete last before it. `XMLGenerator` is `writePlistValue` as the tokens it writes. `XMLSamples` has the
documents of the runs. `PlistValues` has the bytes, numbers and base64 digits that the text and XML formats share.

**ArchiverObjects, KeyedArchiver, ArchiveReader, ArchiveRoundTrip.** `ArchiverObjects` is `addObject` with its
index and the outsider who replaces `Objects` between two calls of `Marshal`; `KeyedArchiver`
adds the walk of `marshal` over every kind of Go value, an action for each step that adds an
object. `ArchiveReader` is composed with it: the same Archiver also reads archives, its own or
another program's (`ReadFromData`, which appends to `Objects` and may leave `Top`), unmarshals the
root and prints it, in any order and also after calls that failed. A type is given by a value of it,
whose pointers matter: `unmarshal` follows one, and elements of slices and maps come to it through one
already. `Second` is the second a date is cut to. The items of an object are UIDs, or what another program
put in their place, on which each walk panics or fails as the code does. The walks over the object
graph are recursive functions of the table and of the depth they are called at; what survives
a call is the variable `depth`. `ArchiveRoundTrip` says what a Go value means once written and
read, and which walks may fail.

**GoValues, Conversion.** `GoValues` has Go types and values as reflect shows them (pointers,
interfaces, slices with the elements behind their length, arrays, maps, structs) and the
property list values. `Conversion` keeps one variable, which documents are decoded into again
and again: made by `marshal` of a value of the same type and carried by a format, or another
program's. `marshal`, `unmarshal`, `valueInterface` and `Dictionary.Unmarshal` are recursive
functions that return what is left in the place they were given together with success, an
error or a panic.

**DecoderStreams, Decoder.** `Decode` called again and again on a stream that may be replaced in between. The
parsers are their verdicts, one for each parser and document, since several parsers may accept the same
bytes: the XML parser skips what stands before the first element, so that it also accepts a text or a binary document
that quotes `<plist/>`, and the text parser a binary one whose string opens a comment. `unmarshal` and `valueInterface` are the order in which they
count the values they copy, through shared containers.

**TypeInfo.** Each goroutine has a stack of calls of `GetTypeInfo`. Each step of the loop over
the struct's fields is an action, each Load and Store of the map another, so that goroutines
interleave at every shared access. A `TypeInfo` is an address in `infos`. What a call returned may be
held by its caller for as long as it likes (marshalStruct and unmarshalDictionary hold theirs over nested calls), also when
another TypeInfo takes its place in the map.

Recursive operators are only in `ArchiveReader`, `ArchiveRoundTrip`, `BplistRoundTrip`,
`GoValues`, `Conversion`, `TextGenerator`, `XMLGenerator`, `XMLSamples` and the MC modules, which no proof uses. Operators that follow a comment "Mutant" are plausible
mistakes in the code; PROJECT.json names the definition each takes the place of and the
property that then fails, so that no property is checked that the code could not break.

## 3. The runs

| Run | What it shows | Instance and why it is enough |
|---|---|---|
| `binary` | parser: exact container stack, each object parsed once, children before parents, implements `BplistPromise`, ends | three objects with every pattern of sharing, aliasing and cycles; two with everything that can be wrong; four that nest one deeper than the limit of 3. An interaction of memo table and stack needs an ancestor, a descendant and a sibling |
| | generator: maps and table agree, scalars unique, offsets exact, nothing lost, the document reads back | all pairs of 28 scalars (nil, NaN, -0.0, dates that one float stands for, numbers on both sides of each width), nested dictionaries, 0 to 17 elements; `Base = 3` puts the second width of references at 3 objects |
| | Decoder: copies within the limit of the document at hand, trees never refused, Format true | three calls, fifteen streams, four of which more than one parser accepts or fails on in its own way; free allowance 3 and factor 2 instead of 2^20 and 256, so that sharing at four levels exceeds it and at two levels does not |
| `archiver` | index sound, no duplicates, UIDs point backwards, same as the linear scan, round trip, walks that fail leave nothing behind | two calls of Marshal, all composites of two items out of primitives, NaN, nil, slices of nil, pointers, data, dates, UUIDs, structs and maps that archive alike; three tables an owner could put in between, one of them all cycles; archives of other programs with cycles, odd keys, items that are no UIDs and no root; up to three readings, one of them before the last Marshal. `MaxArchiveDepth` = 5 is what printing the deepest of these values needs, so that a counter left raised by one is seen |
| `markup` | text: ends, bounded nesting, round trip, cuts detected, format told | all strings of two letters out of 14 (each sort the generator treats in its own way), every other kind of value, two indentations, strings files, UTF-16, every cut, all texts of up to 3 marks |
| | XML: bounded nesting, round trip, documents read as what they mean with their references, cut-off documents never taken for shorter ones | all strings of up to three letters out of 9 (each sort the escapers treat in its own way) that XML can carry, all integers of 8 bits, data on both sides of a line's length, nested values, two indentations, every cut; arrays with every small arrangement of IDs and references; all sequences of up to 3 tokens, and nesting up to 6 deep |
| `reflection` | type cache: the cached fields are the promoted ones, nothing that was published is written, every call returns | two goroutines, three types that embed each other with fields that hide one another at equal and at different depths, three calls |
| | conversion: decoding merges what was marshalled, StrictIntegers loses no number, a Dictionary gives what decoding gives | 50 struct types of one field, of every kind with pointers, elements and inner structs that may be nil; words of 4 bits and bytes of 2, so that every width is crossed; two documents in a row, since what the first leaves behind is where the second can go wrong |
| `parser_depth` | *violated*: an accepted document nests no deeper than the limit | four objects |
| `float_zeros` | *violated*: floats are encoded unchanged in binary documents | the values of `binary` |
| `trailer_wrap` | *violated*: an accepted offset table lies before the trailer | words of 8 binary digits |
| `decoder_lax` | *violated*: a used Decoder decodes as Unmarshal does | as `binary` |
| `archiver_print` | *violated*: Print never takes an archive Marshal wrote for a malformed one | as `archiver` |
| `text_strings` | *violated*: strings are encoded unchanged in text documents | strings of two letters |
| `xml_strings` | *violated*: strings are encoded unchanged in XML documents | strings and keys of three letters |
| `conversion_nil` | *violated*: nil values are discarded | as `reflection` |

Deadlock is checked in the runs that pass: where a modelled call has ended, a step of its own says so
and changes nothing.

**Bounds.** `MaxCalls` limits the calls of Marshal, Decode and GetTypeInfo, `MaxDecodes` the documents of
`Conversion`, `MaxReads` and `MaxReadsBefore` the readings in `archiver`; `MaxNesting` = 3 (4 in `markup`) stands for
`maxNestingDepth` = 512 and `MaxArchiveDepth` = 5 for `maxArchiveDepth` = 10000; `Bits`, `WordBits` and
`ByteBits` are the widths of integers, `DateGrain` is the number of instants to a float; the documents, values and pointers are finite sets in the
MC modules.

**Fairness.** `BplistParser` and `TextParser` are one goroutine, which runs on: WF of `RunParser` and of
`RunText`, which are its steps while `part` is that machine. In `TypeInfo` each goroutine has WF of the steps of a call it is in, which is the Go scheduler's
promise; no goroutine has to begin a call, and no lock is held across a step.

### What the runs found

- `trailer_wrap`: `NumObjects * OffsetIntSize` (bplist_parser.go:42 and :46) is computed in 64
  bits and can wrap, so the check that "Entire offset table is before trailer" may hold of a
  table that is not.
- `parser_depth`: `pushNestedObject` counts the open calls. A collection in the memo table is
  returned at any depth, so sharing makes documents nest deeper than `maxNestingDepth`.
- `decoder_lax`: nothing clears `lax`, which Decode sets for an OpenStep document; the next
  document is converted leniently too.
- `float_zeros`: a float is the key of its object in `objmap` (plist_types.go:126), and 0.0 and -0.0 are equal as
  keys, so an array of both is read back as one of them twice, although encode.go:79 says that floats are
  encoded unchanged. `RoundTrip` is about the values without both zeros.
- `archiver_print`: `printNSType` prints the entry `$class` too, whose object has no class
  (keyed_archiver.go:755), so that Print fails for every archive that holds an object of a registered class,
  though the comment at line 222 says that well-formed archives never reach `recoverMalformed`.
- `xml_strings`: encoding/xml writes U+FFFD for the characters XML 1.0 does not have, and `xmlKeyEscaper` writes
  keys as they are but for `&` and `<`: strings with control characters, and keys with carriage returns or `]]>`, do not
  come back. `XMLRoundTrip` is about the others (`Carried`, `KeyCarried`).
- `conversion_nil`: a nil pointer to a struct, a `*time.Time` among them, is written as an empty dictionary
  (marshal.go:103), though encode.go:76 discards nil values and regress_test.go:122 omits nil pointers
  "in every format". `DecodeMerges` is about the values that hold no such pointer (`HoldsNilStruct`).
- `text_strings`: the OpenStep table of characters to quote lacks the semicolon, and neither
  table covers `//` and `/*`, so some strings are written unquoted and read as something else.

Some of what the models do is stated by a property as the code does it, where nothing in the repository
says otherwise:

- What `marshal` of the archiver writes of a pointer inside a slice or a map to anything but a struct or a date,
  `unmarshal` refuses: it follows one pointer, and elements come through one of their own
  (keyed_archiver.go:239, :385, :464). `RoundTrip` leaves them out (`Followed`).
- Dates are cut to the second in archives (keyed_archiver.go:585) and to a float of seconds in binary documents
  (bplist_generator.go:275); the round trips say that what comes back is that second, and that float.
- ReadFromData into an Archiver that holds something appends to `Objects`, while the UIDs of the
  document count from its own start; `RoundTrip` is about Archivers that hold nothing else (`alone`).
- Elements that fall into the spare capacity of a slice are merged with what was left there.
- StrictIntegers is asked for numbers only; strings, reals and UIDs are cut to the field, and a
  negative number becomes a float or a string near 2^64.
- A document that quotes another is decoded in the format whose parser is asked first. `FormatTruthful` says that Format
  names one of the formats the bytes have, and which one for everything without the magic of a binary document; a binary
  one is XML or text when the header read was cut short and that parser accepts it too.

More oddities are part of the models and of no property: a root string that begins with NUL makes a
text document look like UTF-16 (`Guessed` in MCMarkup); `/*/` is a complete comment to the parser, and a dictionary `{CF$UID = 1;}` is a UID only as
long as no typed value came before it.

## 4. The proofs

Each proof module extends the module it is about, states an inductive invariant, mostly
`IInv`, proves `Init => IInv` and, with a lemma per action or per kind of change,
`IInv /\ [Next]_vars => IInv'`, and draws the theorems from it. The hypotheses are the named
ASSUMEs on constants, which every run that uses the module evaluates. All theorems hold for
every value of the constants: every set of documents or values, every limit, every number of
goroutines, every width of a byte.

- **BplistParserProofs** (`TypeCorrect`, `StackCorrect`, `MemoWrittenOnce`, `ValuesAcyclic`,
  `ReadsTheDocument`, `Implements`). `IInv` adds `FramesOpen`: the object of an open frame is a
  collection not yet in the memo table, and the elements it has so far all are. Without it,
  nothing keeps the return of a frame from overwriting an entry, or an element from being later
  than its collection. `Reading` relates this to the document: an entry of the memo table is a
  legal object with its elements memoized (`MemoRight`), the open calls are a path of references
  from the top object (`Path`), and only what the top reaches is parsed (`Reached`). From these
  follow that a finished parse has found the document well formed, that a cycle refused is a cycle
  of the document (the path closes), and that a nesting refused is a chain of so many references.
  `Implements` is the refinement: every step of the parser is a step of `BplistPromise` or
  leaves its variables alone, so for every set of documents the answer is the one promised.
- **KeyedArchiverProofs** (`IndexCorrect`, `ObjectsUnique`, `IndexInvisible` about `ArchiverObjects`;
  `ImplementsTable`, `ArchiveShared`, `WalkTyped`, `ReferencesBackward` about `KeyedArchiver`). The
  property `IndexSound` allows the index to lag behind `Objects`. The invariant says it is exact
  while a Marshal is running: every primitive of the table but NaN is in it at its first
  position. The proof needs that `$null` is added first, since it is that call which finds the
  index stale. `ImplementsTable` then shows that the walk of `marshal` refines the specification
  of the table (`TableSpec`), so that the three theorems hold of it. `Walk` says what the walk
  makes of the UIDs it gets: every UID in a frame, or handed to one, is below the length of the
  table, and a frame waits for exactly the item it descended into. `ValuesAssumption` says that
  `Met` is closed under the items of a value: reflection meets nothing else.
- **BplistGeneratorProofs** (`IndicesCorrect`, `UniquedOnce`, `NoMemberLost`, `OffsetsPointAtMarkers`,
  `KeysWrittenInOrder`, `TypeCorrect`). `MapsRight` adds `Recorded`, that what is in the table and is
  uniqued can be found in its map, and `Numbered`; the key of a value tells its kind (`HashKind`), so
  that no two kinds share an entry. `TablesTyped` says that the work
  and the table are values of documents, and that the maps send exactly the keys of the table's objects to numbers of the table. `Flattening` says of each container in the table that its
  members are in the table or in the work still to do; a container met twice is flattened twice,
  which is harmless because its node then has the same entries. `PlistsAssumption` supplies
  this: an address holds one container. `FileRight` says that each offset recorded points at a
  cell with the marker of its object. It holds until a Write fails: an offset is recorded before
  its marker is written, so that a failure leaves the last one without.
- **DecoderProofs** (`CopiesBounded`, `TreesDecode`, `FormatNamed`). `BudgetRight`: during a walk the
  budget is 0, or the limit of the document at hand, and not of one before it. `TreeWalk`: in a
  document that names every container once, a container is either in the work still to do or
  done, never both and never twice, and what has been counted is at most twice the values of
  those entered; with `Factor >= 2` no tree exceeds its budget. The sums over a document
  (`Distinct`, `Referenced`) are bounded through lemmas on sums over finite sets.
  `FormatNamed`: the parsers are asked in turn, and Format
  is set only after the verdict of the one it names; for a document without the magic no read, however short, leads
  to the binary parser. `StreamsAssumption` says that what a parser returns is finite.
- **TypeInfoProofs** (`Inductive`, `TypeCorrect`, `PublishedNeverWritten`, `CacheDetermined`), for any
  number of goroutines and any types. `Owned`: a TypeInfo under construction belongs to one frame
  of one goroutine; `Secret`: it is neither in the map nor an answer. `PublishedFrozen` is about every TypeInfo that no call
  fills any more, those that another has replaced in the map included; `Allocated`: pointers in use are
  allocated. `CacheInv` adds what each call has gathered (`FramesRight`), that a call under another
  waits at a field that embeds the other's type (`CallersWait`), and that an answer not yet taken is
  the whole of that type (`AnswersRight`). The reference is the constant `Gathered`, what the
  first n fields of a type come to with no cache; `GatheredAssumption` says that it satisfies the
  recursion, which it can only if no struct embeds itself. The run gives it by the rule of
  promotion, so that TLC's check of the assumption is the check of `addFieldInfo` against that rule
  on the types of the run.
- **XMLParserProofs** (`TypeCorrect` of `ElementsTyped`, `OpenElementsBounded` of `ElementsBounded`, `Inductive`, `MeaningFollowed`,
  `WholeDocumentRead`, `CutOffNeverShorter`). `DepthRight`: `depth` is the
  number of open elements. `FramesRight` and `TopRight`: a dictionary with an element open inside it
  waits for one value, and the one whose loop runs for none; this is what makes keys and values
  come out in equal number also where a reference yields no value. `Follows` relates the parser to
  `XMLMeaning`. It is stated for every document `T` that means something and that the input is or
  begins (`Agrees`), so that one invariant serves both theorems: with `T` the input itself,
  the parser reads it all; with `T` the document the input was cut from, it never takes less. `Walk(T)` says
  where the parser is in `T`. The open calls are a path of elements from the root, each a child
  of the one before it. Each frame holds what the children before the next place on the path stand for
  (`FrameAt`), the key that waits included. `idrefs` is `Known`, what the elements complete so far
  bear. Between the decoder's position and the place the walk has reached there are only tokens the
  loops skip (`Unread`): the end tags plist elements leave behind, or what follows the point where the decoder
  fails, since Skip and the decoding of a key ignore that. Otherwise the walk is `Lost`, which
  only happens where the input is not all of `T`, fails, or is nested too deeply (`Whole`). One lemma per action shows
  that it keeps the walk; below them are lemmas on how elements nest (`NestedInside`, `NextToken`),
  that the recursive `ValuesByEnd` is defined (`ValuesDefined`), on places in order (`InOrderIs`), and on what
  `storeOrFindXMLElementValue` makes of the table (`ReturnStep`).
- **TextParserProofs** (`OpenCollectionsBounded`, `Inductive`, `TypeCorrect`, `FormatRight`, `NothingLeftOpen`). `DepthRight`: `depth` is
  the number of frames but for a strings file, which parsePlistValue does not count; `TopRight`: the
  frame on top is of the kind that `pc` goes on with. The bound on the number of open collections does
  not follow from the check in `parsePlistValue` without both. For `TypeCorrect` every scanner
  is shown to stop inside the document, wherever it starts: the scanners are recursive functions that go
  forward through the text, and `ScannersStop` is proved from the last position down. `FormatInv` is
  what `FormatRight` rests on: until GNUStep's notation is met, the value on its way and all values of the
  frames are `Untyped`, members of a set that is closed under what its values hold and has no
  typed value; so none is found at any of the levels of `Held`. `NothingLeftOpen` is `CutOffDetected` for
  every document: in a document that begins with a bracket, `OpenInv` says that the frames of the stack and what
  the text from `pos` on leaves open (`Unclosed`) are together what the whole document leaves open, that the root is
  read from the first token, and that it is no string, so that there is no second attempt as a strings file, whose
  end may come at any time. It needs that a token is the same wherever it is met (`UnclosedHere`), that skipping
  blanks twice is skipping them once (`AfterBlankBounds`), that every token ends behind its
  beginning (`TokenAhead`), and that a sum over such a way is defined (`SummedDefined`). A beginning of a
  document that `Unclosed` finds balanced leaves something open, which TLC evaluates for the cut documents of the
  run (`TruncatedUnclosed`).
- **SequenceLemmas** has what the others share: what pushing, popping and changing the top do to a
  stack, what `FlattenSeq` contains, and that a recursion that goes forward through the positions of a text
  defines a function, or a sum (`ForwardDefined`, `ForwardEnds`, `SummedDefined`).

Induction over numbers is done by hand in these modules: of the numbers for which a statement
fails there is a least one (`LeastNatural`), and below it the statement holds. The library's
induction theorems take an operator as a parameter, which the provers here cannot instantiate.
`BplistPromise`'s levels of references, the sums of the Decoder, and the scanners and the levels of
values of text are handled in this way.

**Only model-checked:** termination and `EveryCallReturns`, since fairness is beyond the prover; the round
trips of the four formats and of archives, `WalksHonest`, and all of `Conversion`. What these compare with is recursive over
documents, Go values or types (RECURSIVE operators), which the prover does not support.

## 5. Not modelled

- Scalars of the binary parser: their size checks are one kind of illegal object. The scalars'
  encodings are in `BplistFormat`, on correct documents.
- encoding/xml itself: `XMLPlist` models it by tokens and by where it fails. Dates are texts of
  whole seconds, reals a few texts. The check
  `ntags == 0` after the loop of `parseDocument` cannot be reached with a value. Errors of the
  writer end the recursion of the generator and are left out.
- Archives: primitives are strings and NaN, so that the conversions of numbers between kinds are in
  `Conversion` only; the type Unmarshal is asked for is given by a value of it; which of two
  failures a walk meets first decides only its message. gzip and `ReadFromZipData`.
- Conversion: values that marshal or unmarshal themselves (Marshaler, TextMarshaler), map keys other
  than strings, embedded structs, `FieldInfo.Value`. Floats are counted in halves; reals outside the
  range of the integer kind, and negative ones into unsigned kinds, are left out, since Go leaves the
  result to the processor. What a format does to a value is `Carried`, which the round trips of the
  formats' own modules justify.
- Storage: that decoded data and strings share the bytes of the document.
- Characters of text documents other than ASCII bytes after a mark, except through escapes.
- `ConvertToJSON` hands a decoded Dictionary to encoding/json. `fuzz.go` and the error types: no state.
- A struct that embeds a pointer to itself, for which `GetTypeInfo` does not return.

## 6. What could follow

Done, in this order, the most important behaviour first: the binary parser and its promise; the
archiver's index and walk; the binary generator with its round trip and the trailer; the Decoder;
the type cache; the text formats; XML in both directions; the reading half of the archiver; the
conversions to and from Go values; and then the proofs. What could be added:

1. Proofs: the round trip of the scalars of `BplistFormat` for every base and width; that a
   walk of `ArchiveReader` leaves the depth as it found it.
2. Aliasing of decoded data: values with a place and a capacity in the document's buffer.
3. `FieldInfo.Value`, with goroutines that marshal one value while embedded pointers are allocated.
4. Values with methods of their own, whose callbacks reenter the Decoder.
