------------------------------- MODULE Value -------------------------------
(***************************************************************************)
(* redis::value (value.cpp, value.hpp): equality, the ordering, and the    *)
(* conversions as<T>(). A value is a record with its redis_type and, by    *)
(* that, a text, a number or items. A text is a sequence of bytes; numbers *)
(* keep the widths of int64_t (MaxLong) and int (MaxInt). An optional is   *)
(* a set with at most one member.                                          *)
(*                                                                         *)
(* Where the code reads behind a vector or compares addresses, an operator *)
(* yields the set of answers it may give.                                  *)
(***************************************************************************)
EXTENDS Integers, SequencesExt

CONSTANTS
    Values,     \* the values that are compared, and all their elements
    MaxLong,    \* the greatest int64_t; the least is its negation minus one
    MaxInt      \* the same of int

ASSUME WidthsAssumption == MaxLong \in Nat /\ MaxInt \in Nat /\ MaxInt <= MaxLong

-----------------------------------------------------------------------------
(* Bytes and numbers.                                                      *)

Digits == <<"0", "1", "2", "3", "4", "5", "6", "7", "8", "9">>
DigitSet == {Digits[i] : i \in DOMAIN Digits}
WhiteSpace == {"LF", "CR", "SP"}

\* The bytes in use, in the order of their codes; words that the code looks for
\* are one symbol
Bytecodes ==
    <<"NUL", "LF", "CR", "SP", "QUOTE", "$", "*", "+", "-">> \o Digits
        \o <<":", "OK", "message", "pmessage", "x">>
CodeOf == [byte \in {Bytecodes[i] : i \in DOMAIN Bytecodes} |->
              CHOOSE i \in DOMAIN Bytecodes : Bytecodes[i] = byte]

\* std::to_string
Decimal(n) ==
    LET decimal[m \in Nat] ==
          IF m < 10 THEN <<Digits[m + 1]>>
          ELSE Append(decimal[m \div 10], Digits[(m % 10) + 1])
    IN  IF n < 0 THEN <<"-">> \o decimal[-n] ELSE decimal[n]

Long == (-MaxLong - 1)..MaxLong
Int32 == (-MaxInt - 1)..MaxInt

\* (int) of an int64_t keeps the low bits
Narrow(n) == ((n + MaxInt + 1) % (2 * (MaxInt + 1))) - (MaxInt + 1)

\* stol and its like: white space, an optional sign and digits, whatever
\* follows them; an exception if there is no digit or the range is left
Sto(text, range) ==
    LET black  == {i \in DOMAIN text : text[i] \notin WhiteSpace}
        number == IF black = {} THEN <<>> ELSE SubSeq(text, Min(black), Len(text))
        signed == number # <<>> /\ number[1] \in {"-", "+"}
        body   == IF signed THEN Tail(number) ELSE number
        others == {i \in DOMAIN body : body[i] \notin DigitSet}
        digits == IF others = {} THEN body ELSE SubSeq(body, 1, Min(others) - 1)
        Add(n, digit) == 10 * n + (CHOOSE d \in 0..9 : Digits[d + 1] = digit)
        size   == FoldLeft(Add, 0, digits)
    IN  {n \in {IF signed /\ number[1] = "-" THEN -size ELSE size} :
            digits # <<>> /\ n \in range}

-----------------------------------------------------------------------------
(* Construction.                                                           *)

NilValue == [type |-> "nil"]
SimpleStringValue(text) == [type |-> "simple_string", text |-> text]
ErrorValue(text) == [type |-> "error", text |-> text]
IntegerValue(n) == [type |-> "integer", number |-> n]
BulkStringValue(text) == [type |-> "bulk_string", text |-> text]
ArrayValue(items) == [type |-> "array", items |-> items]

TypeRank == [nil |-> 0, simple_string |-> 1, error |-> 2, integer |-> 3,
             bulk_string |-> 4, array |-> 5]

TextLess(s, t) ==
    \/ IsStrictPrefix(s, t)
    \/ \E k \in DOMAIN s \cap DOMAIN t :
          /\ SubSeq(s, 1, k - 1) = SubSeq(t, 1, k - 1)
          /\ CodeOf[s[k]] < CodeOf[t[k]]

\* The keys of a std::map in their order
InOrder(keys) ==
    CHOOSE s \in [1..Cardinality(keys) -> keys] :
        \A i, j \in DOMAIN s : i < j => TextLess(s[i], s[j])

\* Mutant of HashValue: the fields come before their keys
HashValueSwapped(hash) ==
    LET keys == InOrder(DOMAIN hash)
    IN  ArrayValue(FlattenSeq([i \in DOMAIN keys |->
                      <<hash[keys[i]], SimpleStringValue(keys[i])>>]))

\* value::value(hash): a std::map is passed through in the order of its keys
HashValue(hash) ==
    LET keys == InOrder(DOMAIN hash)
    IN  ArrayValue(FlattenSeq([i \in DOMAIN keys |->
                      <<SimpleStringValue(keys[i]), hash[keys[i]]>>]))

-----------------------------------------------------------------------------
(* Comparison.                                                             *)

\* std::equal over the left text or array, with no end for the right one
EqualText(s, t) ==
    IF IsPrefix(s, t) THEN {TRUE} ELSE IF IsPrefix(t, s) THEN BOOLEAN ELSE {FALSE}

\* Mutant of EqualItems: only the sizes are compared
EqualSizes(equal, s, t) == {Len(s) = Len(t)}

EqualItems(equal, s, t) ==
    LET from[k \in Nat] ==
          IF k > Len(s) THEN {TRUE}
          ELSE IF k > Len(t) THEN BOOLEAN
          ELSE (equal[s[k], t[k]] \cap {FALSE})
               \cup (IF TRUE \in equal[s[k], t[k]] THEN from[k + 1] ELSE {})
    IN  from[1]

\* value::operator==
Equal ==
    LET equal[a \in Values, b \in Values] ==
          IF {a.type, b.type} = {"simple_string", "bulk_string"}
          THEN {a.text = b.text}
          ELSE IF a.type # b.type THEN {FALSE}
          ELSE CASE a.type = "nil" -> {TRUE}
                 [] a.type \in {"simple_string", "error"} -> {a.text = b.text}
                 [] a.type = "integer" -> {a.number = b.number}
                 [] a.type = "bulk_string" -> EqualText(a.text, b.text)
                 [] a.type = "array" -> EqualItems(equal, a.items, b.items)
    IN  equal

\* Mutant of LessItems: an element that is greater does not decide
LessItemsOneSided(less, s, t) ==
    LET from[k \in Nat] ==
          IF k > Len(t) THEN {FALSE}
          ELSE IF k > Len(s) THEN {TRUE}
          ELSE (less[<<s[k], t[k]>>] \cap {TRUE})
               \cup (IF FALSE \in less[<<s[k], t[k]>>] THEN from[k + 1] ELSE {})
    IN  from[1]

\* std::vector's operator<
LessItems(less, s, t) ==
    LET from[k \in Nat] ==
          IF k > Len(t) THEN {FALSE}
          ELSE IF k > Len(s) THEN {TRUE}
          ELSE LET below == less[<<s[k], t[k]>>]
                   above == less[<<t[k], s[k]>>]
                   same  == (IF TRUE \in above THEN {FALSE} ELSE {})
                            \cup (IF FALSE \in above THEN from[k + 1] ELSE {})
               IN  (below \cap {TRUE}) \cup (IF FALSE \in below THEN same ELSE {})
    IN  from[1]

\* value::operator<: of two errors, whose texts lie at the lower address
Less ==
    LET less[pair \in Values \X Values] ==
          LET a == pair[1]
              b == pair[2]
          IN  IF a.type # b.type THEN {TypeRank[a.type] < TypeRank[b.type]}
              ELSE CASE a.type = "nil" -> {FALSE}
                     [] a.type \in {"simple_string", "bulk_string"} ->
                           {TextLess(a.text, b.text)}
                     [] a.type = "error" -> BOOLEAN
                     [] a.type = "integer" -> {a.number < b.number}
                     [] a.type = "array" -> LessItems(less, a.items, b.items)
    IN  less

-----------------------------------------------------------------------------
(* Conversion.                                                             *)

AsString(v) ==
    CASE v.type \in {"simple_string", "bulk_string", "error"} -> {v.text}
      [] v.type = "integer" -> {Decimal(v.number)}
      [] OTHER -> {}

\* int64_t and long long
AsLong(v) ==
    CASE v.type = "integer" -> {v.number}
      [] v.type = "bulk_string" -> Sto(v.text, Long)
      [] OTHER -> {}

\* Mutant of AsInt: the low bits are taken without the sign
AsIntUnsigned(v) ==
    CASE v.type = "integer" -> {v.number % (2 * (MaxInt + 1))}
      [] v.type = "bulk_string" -> Sto(v.text, Int32)
      [] OTHER -> {}

\* An integer that does not fit is narrowed, a string that does not is refused
AsInt(v) ==
    CASE v.type = "integer" -> {Narrow(v.number)}
      [] v.type = "bulk_string" -> Sto(v.text, Int32)
      [] OTHER -> {}

\* double, of decimal texts without fraction or exponent (std::stod also reads
\* hexadecimal ones, infinities and nan): an integer passes through int
AsDouble(v) ==
    CASE v.type = "integer" -> {Narrow(v.number)}
      [] v.type = "bulk_string" -> Sto(v.text, Int)
      [] OTHER -> {}

\* An even number of elements, every other one of which converts to a string;
\* of fields with the same key the first is kept
AsHash(v) ==
    IF v.type # "array" THEN {}
    ELSE LET fields == 1..(Len(v.items) \div 2)
             key == [k \in fields |-> AsString(v.items[2 * k - 1])]
             keys == UNION {key[k] : k \in fields}
             First(text) == Min({k \in fields : key[k] = {text}})
         IN  {hash \in {[text \in keys |-> v.items[2 * First(text)]]} :
                 Len(v.items) % 2 = 0 /\ \A k \in fields : key[k] # {}}

\* float, of decimal texts without fraction or exponent as well; numbers that are no
\* floats are rounded alike on both ways
AsFloat(v) ==
    CASE v.type = "integer" -> {v.number}
      [] v.type = "bulk_string" -> Sto(v.text, Int)
      [] OTHER -> {}

\* Mutant of AsBool: an error is not an answer
AsBoolNoError(v) ==
    CASE v.type = "integer" -> {v.number # 0}
      [] v.type = "simple_string" -> {v.text = <<"OK">>}
      [] OTHER -> {}

AsBool(v) ==
    CASE v.type = "integer" -> {v.number # 0}
      [] v.type = "simple_string" -> {v.text = <<"OK">>}
      [] v.type = "error" -> {FALSE}
      [] OTHER -> {}

AsArray(v) == IF v.type = "array" THEN {v.items} ELSE {}

-----------------------------------------------------------------------------
(* Messages.                                                               *)

Message(channel, pattern, contents) ==
    [channel |-> channel, pattern |-> pattern, contents |-> contents]
NoMessage == Message(<<>>, <<>>, <<>>)

\* redis_message(vector<string>)
MessageOf(texts) ==
    CASE Len(texts) = 3 /\ texts[1] = <<"message">> -> Message(texts[2], <<>>, texts[3])
      [] Len(texts) = 4 /\ texts[1] = <<"pmessage">> ->
            Message(texts[3], texts[2], texts[4])
      [] OTHER -> NoMessage

Valid(message) == message.channel # <<>>

\* Mutant of AsMessage: the pattern is taken for the channel
AsMessageSwapped(v) ==
    LET Text(i) == IF AsString(v.items[i]) = {} THEN <<>>
                   ELSE CHOOSE t \in AsString(v.items[i]) : TRUE
    IN  IF v.type # "array" THEN {}
        ELSE CASE Len(v.items) = 3 /\ Text(1) = <<"message">> ->
                    {Message(Text(2), <<>>, Text(3))}
               [] Len(v.items) = 4 /\ Text(1) = <<"pmessage">> ->
                    {Message(Text(2), Text(3), Text(4))}
               [] OTHER -> {}

\* An array of more than four whose first element is one of the words is a
\* message with nothing in it
AsMessage(v) ==
    LET Text(i) == IF AsString(v.items[i]) = {} THEN <<>>
                   ELSE CHOOSE t \in AsString(v.items[i]) : TRUE
    IN  IF v.type # "array" THEN {}
        ELSE CASE Len(v.items) = 3 /\ Text(1) = <<"message">> ->
                    {Message(Text(2), <<>>, Text(3))}
               [] Len(v.items) = 4 /\ Text(1) = <<"pmessage">> ->
                    {Message(Text(3), Text(2), Text(4))}
               [] Len(v.items) > 4 /\ Text(1) \in {<<"message">>, <<"pmessage">>} ->
                    {NoMessage}
               [] OTHER -> {}

=============================================================================
