------------------------------- MODULE PlistValues -------------------------------
(***************************************************************************)
(* The values of a property list as the text and XML formats see them, and *)
(* the digits and base64 both formats share.  A string is a sequence of    *)
(* code points.                                                            *)
(***************************************************************************)
EXTENDS SequencesExt, FiniteSetsExt, Integers

CONSTANTS
  Bits,          \* 64: the width of integers and UIDs
  MaxNesting     \* maxNestingDepth

ASSUME BitsAssumption == Bits \in Nat \ {0}
ASSUME NestingAssumption == MaxNesting \in Nat

\* Characters by name.
Quote == 34
Backslash == 92
Slash == 47
Star == 42
Minus == 45
Semicolon == 59
Equals == 61
LessThan == 60
GreaterThan == 62
Space == 32
NewLine == 10
Comma == 44
OpenBrace == 123
CloseBrace == 125
OpenParen == 40
CloseParen == 41
CloseBracket == 93
OpenBracket == 91
EOF == -1

--------------------------------------------------------------------------------
\* Values.
Text(s) == [string |-> s]
Number(n) == [number |-> n]
Real(t) == [real |-> t]
Boolean(b) == [boolean |-> b]
Data(bytes) == [data |-> bytes]
Date(t) == [date |-> t]
UID(n) == [uid |-> n]
Array(values) == [array |-> values]
Dictionary(keys, values) == [keys |-> keys, values |-> values]
Nil == [nil |-> TRUE]          \* an interface that holds no value
Is(kind, v) == kind \in DOMAIN v

\* What converting a text gives: a value, or a panic; next is where reading goes on.
Scanned(value, next) == [ok |-> TRUE, value |-> value, next |-> next]
Panic == [ok |-> FALSE, value |-> Text(<< >>), next |-> 0]

--------------------------------------------------------------------------------
\* Digits.
DigitValue(c) ==
  CASE c \in 48 .. 57 -> c - 48
    [] c \in 97 .. 102 -> c - 87
    [] c \in 65 .. 70 -> c - 55
    [] OTHER -> 99
IsDigit(c, base) == DigitValue(c) < base
ValueOf(digits, base) ==
  LET value[k \in Nat] == IF k = 0 THEN 0 ELSE value[k - 1] * base + DigitValue(digits[k])
  IN  value[Len(digits)]
Digit(n) == IF n < 10 THEN 48 + n ELSE 87 + n
Numeral(n, base, width) ==
  LET digits[k \in Nat] ==
        IF k < base THEN <<Digit(k)>> ELSE Append(digits[k \div base], Digit(k % base))
      d == digits[n]
  IN  IF Len(d) >= width THEN d ELSE [i \in 1 .. width - Len(d) |-> 48] \o d
Decimal(n) == IF n < 0 THEN <<Minus>> \o Numeral(-n, 10, 1) ELSE Numeral(n, 10, 1)

\* ParseUint, and ParseInt of a text that begins with a minus, in Bits bits.
IsNumeral(t, base) == t # << >> /\ \A i \in DOMAIN t : IsDigit(t[i], base)
IsUnsignedIn(t, base) == IsNumeral(t, base) /\ ValueOf(t, base) < 2 ^ Bits
IsNegativeIn(t, base) == IsNumeral(t, base) /\ ValueOf(t, base) <= 2 ^ (Bits - 1)
IsUnsigned(t) == IsUnsignedIn(t, 10)
IsInteger(t) == IsUnsigned(t) \/ (t[1] = Minus /\ IsNegativeIn(Tail(t), 10))
IntegerOf(t) == IF t[1] = Minus THEN -ValueOf(Tail(t), 10) ELSE ValueOf(t, 10)

--------------------------------------------------------------------------------
\* cfUID.toDict.
UIDMagic == <<67, 70, 36, 85, 73, 68>>
ToDict(uid) == Dictionary(<<UIDMagic>>, <<Number(uid)>>)

\* cfDictionary.maybeUID.
MaybeUID(keys, values, lax) ==
  CASE keys = <<UIDMagic>> /\ Is("number", values[1]) -> UID(values[1].number % 2 ^ Bits)
    [] keys = <<UIDMagic>> /\ lax /\ Is("string", values[1]) /\ IsUnsigned(values[1].string)
         -> UID(IntegerOf(values[1].string))
    [] OTHER -> Dictionary(keys, values)

\* Go's order of strings, and cfDictionary.sort by it.
Less(s, t) ==
  \E k \in 0 .. Min({Len(s), Len(t)}) :
    /\ SubSeq(s, 1, k) = SubSeq(t, 1, k)
    /\ k < Len(t) /\ (k = Len(s) \/ s[k + 1] < t[k + 1])
Sorted(d) ==
  LET order == SetToSortSeq(DOMAIN d.keys, LAMBDA i, j : Less(d.keys[i], d.keys[j]))
  IN  Dictionary([i \in DOMAIN order |-> d.keys[order[i]]], [i \in DOMAIN order |-> d.values[order[i]]])

--------------------------------------------------------------------------------
\* Base64.
Sextet(c) ==
  CASE c \in 65 .. 90 -> c - 65
    [] c \in 97 .. 122 -> c - 71
    [] c \in 48 .. 57 -> c + 4
    [] c = 43 -> 62
    [] c = 47 -> 63
    [] c = Equals -> 0
    [] OTHER -> 64
Base64Bytes(t) ==
  LET pads == Cardinality({i \in DOMAIN t : t[i] = Equals})
      group(k) == FoldLeft(LAMBDA n, c : n * 64 + Sextet(c), 0, SubSeq(t, 4 * k - 3, 4 * k))
  IN  SubSeq(FlattenSeq([k \in 1 .. Len(t) \div 4 |->
               <<group(k) \div 65536, (group(k) \div 256) % 256, group(k) % 256>>]),
             1, 3 * (Len(t) \div 4) - pads)
Base64Text(bytes) ==
  LET At(i) == IF i \in DOMAIN bytes THEN bytes[i] ELSE 0
      Letter(n) == CHOOSE c \in 43 .. 122 : c # Equals /\ Sextet(c) = n
      Bits24(k) == At(3 * k - 2) * 65536 + At(3 * k - 1) * 256 + At(3 * k)
      groups == FlattenSeq([k \in 1 .. (Len(bytes) + 2) \div 3 |->
                  [j \in 1 .. 4 |-> Letter((Bits24(k) \div 64 ^ (4 - j)) % 64)]])
      used == (4 * Len(bytes) + 2) \div 3
  IN  [i \in DOMAIN groups |-> IF i <= used THEN groups[i] ELSE Equals]
IsBase64(t) ==
  /\ Len(t) % 4 = 0
  /\ \A i \in DOMAIN t : t[i] = Equals => i > Len(t) - 2 /\ t[Len(t)] = Equals
================================================================================
