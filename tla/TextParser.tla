------------------------------- MODULE TextParser -------------------------------
(***************************************************************************)
(* textPlistParser.parseDocument: the recursive descent through a text     *)
(* document, and its second attempt, as a strings file, at a document that *)
(* begins with a string.                                                   *)
(*                                                                         *)
(* stack holds the calls of parseArray and parseDictionary, outermost      *)
(* first; "strings" is the call of parseDictionary that reads a strings    *)
(* file.  pc names the loop or call that reads next, each of which skips   *)
(* blanks and comments first; Token is the character it finds.             *)
(***************************************************************************)
EXTENDS TextPlist

CONSTANT Documents       \* what can be read; only the field bytes is the parser's

ASSUME DocumentsAssumption == \A d \in Documents : d.bytes \in Seq(Nat)

VARIABLES
  doc,       \* the document; never changes
  input, pos, format, depth,     \* fields of the parser
  stack, pc,
  ret        \* the value parsePlistValue returned, or parseDocument in the end

vars == <<doc, input, pos, format, depth, stack, pc, ret>>

Start == AfterBlank(input, pos)
Token == At(input, Start)
Second == At(input, Start + 1)
Reading(where) == pc = where /\ Start # 0
Top == Last(stack)
Frame(kind) == [kind |-> kind, keys |-> << >>, values |-> << >>, key |-> << >>]
Goto(where, p) == pc' = where /\ pos' = p

AtStart ==
  /\ input = << >> /\ pos = 1 /\ format = "OpenStep" /\ depth = 0
  /\ stack = << >> /\ pc = "read" /\ ret = Text(<< >>)
Init == doc \in Documents /\ AtStart

Fail ==
  /\ pc' = "error"
  /\ UNCHANGED <<doc, input, pos, format, depth, stack, ret>>

\* The whole document is read and converted first.
Read ==
  /\ pc = "read" /\ Decoded(doc.bytes).ok
  /\ input' = Decoded(doc.bytes).value.string
  /\ pc' = "value"
  /\ UNCHANGED <<doc, pos, format, depth, stack, ret>>
ReaderFails ==
  /\ pc = "read"
  /\ pc' = "unread"
  /\ UNCHANGED <<doc, input, pos, format, depth, stack, ret>>
UnitTruncated == pc = "read" /\ ~Decoded(doc.bytes).ok /\ Fail

\* error "unexpected eof in block comment"
Looping == stack # << >> /\ Top.kind = "array" /\ pc = "return"
CommentUnclosed == pc \notin {"read", "unread", "done", "error"} /\ ~Looping /\ Start = 0 /\ Fail

--------------------------------------------------------------------------------
\* parsePlistValue.
TooDeepLate == pc = "value" /\ depth > MaxNesting
TooDeep == pc = "value" /\ depth >= MaxNesting
NestingExceeded == TooDeep /\ Fail
Value == Reading("value") /\ ~TooDeep

Return(v, p) == ret' = v /\ Goto("return", p)
Scan(results) ==
  \E scanned \in results :
    IF scanned.ok THEN Return(scanned.value, scanned.next) /\ UNCHANGED <<doc, input, depth, stack>>
    ELSE pc' = "error" /\ UNCHANGED <<doc, input, pos, depth, stack, ret>>

ValueAtEOF ==
  /\ Value /\ Token = EOF
  /\ Return(Dictionary(<< >>, << >>), Start)
  /\ UNCHANGED <<doc, input, format, depth, stack>>

GNUStep ==
  /\ Value /\ Token = LessThan /\ Second \in {Star, OpenBracket}
  /\ format' = "GNUStep"
  /\ Scan({IF Second = Star THEN GNUStepValue(input, Start + 2) ELSE Base64(input, Start + 2)})

HexAsGNUStep ==
  /\ Value /\ Token = LessThan /\ Second \notin {Star, OpenBracket}
  /\ format' = "GNUStep"
  /\ Scan({HexData(input, Start + 1)})
Hex ==
  /\ Value /\ Token = LessThan /\ Second \notin {Star, OpenBracket}
  /\ Scan({HexData(input, Start + 1)})
  /\ UNCHANGED format

StringAt == IF Token = Quote THEN Quoted(input, Start + 1) ELSE Unquoted(input, Start)
String ==
  /\ Value /\ Token \notin {EOF, LessThan, OpenBrace, OpenParen}
  /\ Scan({StringAt})
  /\ UNCHANGED format

Open(kind) ==
  /\ stack' = Append(stack, Frame(kind))
  /\ depth' = depth + 1
  /\ Goto(kind, Start + 1)
  /\ UNCHANGED <<doc, input, format, ret>>
OpenArray == Value /\ Token = OpenParen /\ Open("array")
OpenDictionary == Value /\ Token = OpenBrace /\ Open("dict")

\* Returning from parseArray or parseDictionary, and from the parsePlistValue around it.
Close(v) ==
  /\ stack' = Front(stack)
  /\ depth' = depth - 1
  /\ Return(v, Start + 1)
  /\ UNCHANGED <<doc, input, format>>

--------------------------------------------------------------------------------
\* parseArray.
ArrayContinuesAtEOF ==
  /\ Reading("array") /\ Token = EOF
  /\ Goto("array", Start)
  /\ UNCHANGED <<doc, input, format, depth, stack, ret>>
ArrayEOF == Reading("array") /\ Token = EOF /\ Fail
ArrayComma ==
  /\ Reading("array") /\ Token = Comma
  /\ Goto("array", Start + 1)
  /\ UNCHANGED <<doc, input, format, depth, stack, ret>>
ArrayElement ==
  /\ Reading("array") /\ Token \notin {EOF, Comma, CloseParen}
  /\ Goto("value", Start)
  /\ UNCHANGED <<doc, input, format, depth, stack, ret>>
ArrayClose == Reading("array") /\ Token = CloseParen /\ Close(Array(Top.values))

AppendElement ==
  /\ Looping
  /\ stack' = [stack EXCEPT ![Len(stack)] =
                 [kind |-> "array", keys |-> << >>, values |-> Append(@.values, ret), key |-> << >>]]
  /\ pc' = "array"
  /\ UNCHANGED <<doc, input, pos, format, depth, ret>>

--------------------------------------------------------------------------------
\* parseDictionary.
Finished == MaybeUID(Top.keys, Top.values, format = "OpenStep")

InDictionary == Reading("dict") \/ Reading("strings")
DictionaryEndsAtEOF == Reading("dict") /\ Token = EOF /\ Close(Finished)
DictionaryEOF == Reading("dict") /\ Token = EOF /\ Fail
DictionaryClose == Reading("dict") /\ Token = CloseBrace /\ Close(Finished)
\* A strings file ends at its end, or at a brace, whatever follows.
StringsClose ==
  /\ Reading("strings") /\ Token \in {EOF, CloseBrace}
  /\ ret' = Finished /\ stack' = << >> /\ pc' = "done"
  /\ UNCHANGED <<doc, input, pos, format, depth>>

Key ==
  /\ InDictionary /\ Token \notin {EOF, CloseBrace}
  /\ \E scanned \in {StringAt} :
       IF scanned.ok
       THEN /\ stack' = [stack EXCEPT ![Len(stack)] =
              [kind |-> @.kind, keys |-> @.keys, values |-> @.values, key |-> scanned.value.string]]
            /\ Goto("assign", scanned.next)
       ELSE pc' = "error" /\ UNCHANGED <<stack, pos>>
  /\ UNCHANGED <<doc, input, format, depth, ret>>

AddKeyOnly(v) ==
  /\ stack' = [stack EXCEPT ![Len(stack)] =
       [kind |-> @.kind, keys |-> Append(@.keys, @.key), values |-> @.values, key |-> << >>]]
  /\ Goto(Top.kind, Start + 1)
  /\ UNCHANGED <<doc, input, format, depth, ret>>
\* The entry is complete, and the loop goes on after its semicolon.
AddEntry(v) ==
  /\ stack' = [stack EXCEPT ![Len(stack)] =
       [kind |-> @.kind, keys |-> Append(@.keys, @.key), values |-> Append(@.values, v),
        key |-> << >>]]
  /\ Goto(Top.kind, Start + 1)
  /\ UNCHANGED <<doc, input, format, depth, ret>>

Assign ==
  /\ Reading("assign") /\ Token = Equals
  /\ Goto("value", Start + 1)
  /\ UNCHANGED <<doc, input, format, depth, stack, ret>>
KeyAlone == Reading("assign") /\ Token = Semicolon /\ AddEntry(Text(Top.key))
AssignMissing == Reading("assign") /\ Token \notin {Equals, Semicolon} /\ Fail

ReturnedToDictionary == Reading("return") /\ stack # << >> /\ Top.kind # "array"
EndEntry == ReturnedToDictionary /\ Token = Semicolon /\ AddEntry(ret)
SemicolonMissing == ReturnedToDictionary /\ Token # Semicolon /\ Fail

--------------------------------------------------------------------------------
\* parseDocument, after the first parsePlistValue.
AtEnd == Reading("return") /\ stack = << >>
Finish ==
  /\ AtEnd /\ Token = EOF
  /\ pc' = "done"
  /\ UNCHANGED <<doc, input, pos, format, depth, stack, ret>>
Garbage == AtEnd /\ Token # EOF /\ ~Is("string", ret) /\ Fail
TryStrings ==
  /\ AtEnd /\ Token # EOF /\ Is("string", ret)
  /\ stack' = <<Frame("strings")>>
  /\ Goto("strings", 1)
  /\ UNCHANGED <<doc, input, format, depth, ret>>

Next ==
  \/ Read \/ ReaderFails \/ UnitTruncated \/ CommentUnclosed \/ NestingExceeded
  \/ ValueAtEOF \/ GNUStep \/ Hex \/ String \/ OpenArray \/ OpenDictionary
  \/ ArrayEOF \/ ArrayComma \/ ArrayElement \/ ArrayClose \/ AppendElement
  \/ DictionaryEOF \/ DictionaryClose \/ StringsClose \/ Key
  \/ Assign \/ KeyAlone \/ AssignMissing \/ EndEntry \/ SemicolonMissing
  \/ Finish \/ Garbage \/ TryStrings
Spec == Init /\ [][Next]_vars

--------------------------------------------------------------------------------
(***************************************************************************)
(* Properties.                                                             *)
(***************************************************************************)
\* The parser's fields have their types and a frame has a value for each of its keys.
TypeOK ==
  /\ pos \in 1 .. Len(input) + 1 /\ format \in {"OpenStep", "GNUStep"}
  /\ pc \in {"read", "value", "return", "array", "dict", "strings", "assign", "unread", "done", "error"}
  /\ \A i \in DOMAIN stack :
       /\ stack[i].kind \in {"array", "dict", "strings"}
       /\ stack[i].kind # "array" => Len(stack[i].keys) = Len(stack[i].values)

\* However deep a document nests, and in whichever of the two attempts, no more than
\* maxNestingDepth collections are open inside the root, so the goroutine's stack is
\* bounded.
Collections == {i \in DOMAIN stack : stack[i].kind # "strings"}
NestingBounded == Cardinality(Collections) <= MaxNesting

Opening == {OpenParen, OpenBrace}
Closing == {CloseParen, CloseBrace}
Nests(c) == IF c \in Opening THEN 1 ELSE IF c \in Closing THEN -1 ELSE 0
\* Where the token at p ends, which is the same wherever the parser meets it; 0 if there is
\* none, or none that can be read.
TokenEnd(s, p) ==
  LET c == At(s, p)
      second == At(s, p + 1)
      scanned ==
        CASE c = Quote -> Quoted(s, p + 1)
          [] c = LessThan /\ second = Star -> GNUStepValue(s, p + 2)
          [] c = LessThan /\ second = OpenBracket -> Base64(s, p + 2)
          [] c = LessThan /\ second \notin {Star, OpenBracket} -> HexData(s, p + 1)
          [] OTHER -> Unquoted(s, p)
  IN  CASE c = EOF -> 0
        [] c \in Opening \cup Closing \cup {Comma, Equals, Semicolon} -> p + 1
        [] OTHER -> IF scanned.ok THEN scanned.next ELSE 0
\* How many more collections the tokens from p on open than they close.
Unclosed(s, p) ==
  LET open[q \in 1 .. Len(s) + 1] ==
        LET start == AfterBlank(s, q)
            next == TokenEnd(s, start)
        IN  IF next = 0 THEN 0 ELSE Nests(At(s, start)) + open[next]
  IN  open[p]

\* A document that begins with an array or a dictionary is parsed to a value only if its
\* tokens, strings and comments skipped, close as many collections as they open: wherever
\* such a document is cut off, it is an error and never a shorter value, although an empty
\* document and the end of a strings file are values.
OpensCollection == At(input, AfterBlank(input, 1)) \in Opening
CutOffDetected == pc = "done" /\ OpensCollection => Unclosed(input, 1) = 0

\* What only GNUStep has a notation for, and where a value holds it: held[n] is what v has
\* n collections further in.  No value has more of them, by NestingBounded.
IsTyped(v) == \A kind \in {"string", "data", "uid", "array", "keys"} : ~Is(kind, v)
Members(v) ==
  IF Is("array", v) THEN Range(v.array) ELSE IF Is("keys", v) THEN Range(v.values) ELSE {}
Held(v) ==
  LET held[n \in 0 .. MaxNesting + 1] ==
        IF n = 0 THEN {v} ELSE UNION {Members(w) : w \in held[n - 1]}
  IN  held
HasTyped(v) == \E n \in 0 .. MaxNesting + 1 : \E w \in Held(v)[n] : IsTyped(w)

\* The format the Decoder goes by when it converts strings: it is GNUStep as soon as the
\* document has a typed value, wherever it was met and in whichever attempt, and only if
\* the document has what begins typed values or base64 data.
FormatTold ==
  /\ pc = "done" /\ HasTyped(ret) => format = "GNUStep"
  /\ format = "GNUStep" =>
       \E i \in 1 .. Len(input) - 1 : input[i] = LessThan /\ input[i + 1] \in {Star, OpenBracket}
================================================================================
