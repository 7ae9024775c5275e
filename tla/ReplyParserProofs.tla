------------------------- MODULE ReplyParserProofs -------------------------
(***************************************************************************)
(* What the parser returns for any bytes and from any position: it always  *)
(* goes forward, and calls itself for positions further on only.           *)
(*                                                                         *)
(* The recursion of parse_reply and the fold over the elements of an array *)
(* are followed by induction on sets of numbers (AllNumbers).              *)
(***************************************************************************)
EXTENDS ReplyParser, ValueProofs

\* The bytes behind the end, too, are a sequence
LEMMA StaleLength == Len(Stale) \in Nat
BY StaleAssumption, LenProperties

\* Where a line ends
LEMMA LineEnds ==
    ASSUME NEW b, Len(b) \in Nat, NEW i \in Nat \ {0}
    PROVE  /\ Len(Searched(b, i)) \in Nat
           /\ \/ LineEnd(b, i) = End(Searched(b, i))
              \/ LineEnd(b, i) \in i..Len(Searched(b, i))
<1> DEFINE bytes == Searched(b, i)
           returns == {j \in i..Len(bytes) : bytes[j] = "CR"}
<1>1. Len(bytes) \in Nat
  BY StaleLength DEF Searched
<1>2. LineEnd(b, i) = IF returns = {} THEN End(bytes) ELSE Min(returns)
  BY DEF LineEnd
<1>3. CASE returns = {}
  BY <1>1, <1>2, <1>3
<1>4. CASE returns # {}
  <2> HIDE DEF bytes
  <2>1. returns \in SUBSET Nat
    BY <1>1
  <2>2. Min(returns) \in returns
    BY <1>4, <2>1, MinIs
  <2> QED  BY <1>1, <1>2, <1>4, <2>2 DEF bytes
<1> QED  BY <1>3, <1>4

\* A call inside the data, or on a byte behind them
Inside(b, i) ==
    /\ i \in Nat
    /\ i <= Len(b) \/ i \in (End(b) + 1)..Len(Stale)

\* There the line of a reply ends where it begins or further on, and a line that is
\* taken for cut makes it so inside the data only
LEMMA LineInside ==
    ASSUME NEW b, Len(b) \in Nat, NEW i, Inside(b, i)
    PROVE  /\ i \in Nat /\ LineEnd(b, i + 1) \in Nat /\ LineEnd(b, i + 1) > i
           /\ i + 1 = End(b) => LineEnd(b, i + 1) = End(b)
<1>1. i \in Nat /\ i + 1 \in Nat \ {0} /\ Len(Stale) \in Nat
  BY StaleLength DEF Inside
<1>2. /\ Len(Searched(b, i + 1)) \in Nat
      /\ \/ LineEnd(b, i + 1) = End(Searched(b, i + 1))
         \/ LineEnd(b, i + 1) \in (i + 1)..Len(Searched(b, i + 1))
  BY <1>1, LineEnds
<1>3. CASE i <= Len(b)
  <2>1. Searched(b, i + 1) = b
    BY <1>1, <1>3 DEF Searched, End
  <2> QED  BY <1>1, <1>2, <1>3, <2>1 DEF End
<1>4. CASE i \in (End(b) + 1)..Len(Stale)
  <2>1. Searched(b, i + 1) = Stale
    BY <1>1, <1>4 DEF Searched, End
  <2> QED  BY <1>1, <1>2, <1>4, <2>1 DEF End
<1> QED  BY <1>3, <1>4 DEF Inside

\* Behind this position there is nothing to read
Reach(b) == IF Len(b) < Len(Stale) THEN Len(Stale) ELSE Len(b)

LEMMA ReachIs ==
    ASSUME NEW b, Len(b) \in Nat
    PROVE  Reach(b) \in Nat /\ \A i : Inside(b, i) => i \in Nat /\ i <= Reach(b)
BY StaleLength DEF Reach, Inside, End

\* What stol finds fits into int64_t
LEMMA StolRange ==
    ASSUME NEW text, Stol(text) # {}
    PROVE  The(Stol(text)) \in Long /\ The(Stol(text)) \in Int
<1>1. Stol(text) \subseteq Long
  BY DEF Stol, Sto
<1>2. Long \subseteq Int
  BY WidthsAssumption DEF Long
<1> QED  BY <1>1, <1>2 DEF The

\* What the loop and its callers rely on in a response: a known error, a number of
\* 64 bits, and an iterator at the end or, as long as there is something to read,
\* two bytes or more ahead of where the call began
Fair(response) ==
    /\ response.next \in Nat
    /\ response.error \in {"none", "eof", "error", "malformed", "out_of_range", "throws"}
    /\ response.value.type = "integer" => response.value.number \in Long

Forward(b, i, response) ==
    /\ Fair(response)
    /\ \/ response.next = End(b)
       \/ i # Len(b) /\ i <= Reach(b) /\ response.next > i + 1

\* The parsers of a line or a string (reply.cpp:54-177) go forward
LEMMA LinesForward ==
    ASSUME NEW b, Len(b) \in Nat, NEW i, Inside(b, i)
    PROVE  /\ Forward(b, i, SimpleString(b, i + 1))
           /\ Forward(b, i, ErrorReply(b, i + 1))
           /\ Forward(b, i, IntegerReply(b, i + 1))
           /\ Forward(b, i, BulkString(b, i + 1))
<1>1. i \in Nat /\ LineEnd(b, i + 1) \in Nat /\ LineEnd(b, i + 1) > i /\ i <= Reach(b)
  BY LineInside, ReachIs
<1>2. /\ AfterLine(b, i + 1) \in Nat /\ AfterLine(b, i + 1) > i + 1
      /\ i = Len(b) => i + 1 = End(b) /\ LineEnd(b, i + 1) = End(b)
  BY <1>1, LineInside DEF AfterLine, End
<1>3. Forward(b, i, SimpleString(b, i + 1))
  BY <1>1, <1>2 DEF Forward, Fair, SimpleString, Failure, Success, Response, End,
     NilValue, SimpleStringValue
<1>4. Forward(b, i, ErrorReply(b, i + 1))
  BY <1>1, <1>2 DEF Forward, Fair, ErrorReply, Failure, Response, End,
     NilValue, ErrorValue
<1> DEFINE size == Stol(Line(b, i + 1))
<1>5. size # {} => The(size) \in Long /\ The(size) \in Int
  BY StolRange
<1>6. Forward(b, i, IntegerReply(b, i + 1))
  BY <1>1, <1>2, <1>5 DEF Forward, Fair, IntegerReply, Failure, Success, Response, End,
     NilValue, IntegerValue
<1>7. Forward(b, i, BulkString(b, i + 1))
  BY <1>1, <1>2, <1>5 DEF Forward, Fair, BulkString, Failure, Success, Response, End,
     NilValue, BulkStringValue
<1> QED  BY <1>3, <1>4, <1>6, <1>7

-----------------------------------------------------------------------------
\* AddElement of parse_array, which does not look at the number of the element
Added(b, parse, array) ==
    IF array.error # "none" THEN array
    ELSE IF array.next = End(b) THEN Failure("eof", array.next)
    ELSE LET element == parse[array.next]
         IN  IF element.error # "none" THEN Failure(element.error, element.next)
             ELSE Success([array.value EXCEPT !.items = Append(@, element.value)],
                          element.next)

\* The arrays after none to n elements
Adding(b, parse, first, n, h) ==
    /\ h[0] = first
    /\ \A j \in 1..n : h[j] = Added(b, parse, h[j - 1])

\* The results after 0, 1, ... n elements of an array
LEMMA AddingExists ==
    ASSUME NEW b, NEW parse, NEW first, NEW n \in Nat
    PROVE  \E h : Adding(b, parse, first, n, h)
<1> DEFINE S == {m \in Nat : \E h : Adding(b, parse, first, m, h)}
<1>1. 0 \in S
  <2>1. Adding(b, parse, first, 0, [j \in {0} |-> first])
    BY DEF Adding
  <2> QED  BY <2>1
<1>2. ASSUME NEW m \in Nat, m \in S
      PROVE  m + 1 \in S
  <2>1. PICK h : Adding(b, parse, first, m, h)
    BY <1>2
  <2> DEFINE g == [j \in 0..(m + 1) |-> IF j <= m THEN h[j] ELSE Added(b, parse, h[m])]
  <2>2. g[0] = first
    BY <2>1 DEF Adding
  <2>3. ASSUME NEW j \in 1..(m + 1)
        PROVE  g[j] = Added(b, parse, g[j - 1])
    <3>1. CASE j <= m
      BY <2>1, <3>1 DEF Adding
    <3>2. CASE j = m + 1
      BY <3>2
    <3> QED  BY <3>1, <3>2
  <2>4. Adding(b, parse, first, m + 1, g)
    BY <2>2, <2>3 DEF Adding
  <2> QED  BY <2>4
<1> HIDE DEF S
<1>3. Nat \subseteq S
  BY <1>1, <1>2, AllNumbers
<1> QED  BY <1>3 DEF S

\* The fold over the elements of an array gives the last of these results
LEMMA FoldAdds ==
    ASSUME NEW b, NEW parse, NEW first, NEW n \in Nat, NEW h,
           Adding(b, parse, first, n, h)
    PROVE  FoldLeft(LAMBDA array, k : Added(b, parse, array), first,
                    [k \in 1..n |-> k]) = h[n]
<1> DEFINE iter[s \in SUBSET (1..n)] ==
             IF s = {} THEN first ELSE Added(b, parse, iter[s \ {Max(s)}])
           f == [s \in SUBSET (1..n) |-> h[Cardinality(s)]]
<1>1. ASSUME NEW s \in SUBSET (1..n)
      PROVE  /\ Cardinality(s) \in 0..n
             /\ s = {} => Cardinality(s) = 0
             /\ s # {} => Max(s) \in s /\ Cardinality(s \ {Max(s)}) = Cardinality(s) - 1
                          /\ Cardinality(s) # 0 /\ s \ {Max(s)} \in SUBSET (1..n)
  BY GreatestRemoved
<1>2. f = [s \in SUBSET (1..n) |->
             IF s = {} THEN first ELSE Added(b, parse, f[s \ {Max(s)}])]
  <2>1. ASSUME NEW s \in SUBSET (1..n)
        PROVE  f[s] = IF s = {} THEN first ELSE Added(b, parse, f[s \ {Max(s)}])
    <3>1. CASE s = {}
      BY <1>1, <3>1 DEF Adding
    <3>2. CASE s # {}
      <4> DEFINE t == s \ {Max(s)}
                 c == Cardinality(s)
      <4>1. t \in SUBSET (1..n) /\ Cardinality(t) = c - 1 /\ c \in 1..n
        <5>1. /\ c \in 0..n /\ c # 0 /\ t \in SUBSET (1..n)
              /\ Cardinality(t) = c - 1
          BY <1>1, <3>2
        <5> HIDE DEF t, c
        <5> QED  BY <5>1
      <4>2. f[s] = h[c] /\ f[t] = h[c - 1]
        BY <4>1
      <4>3. h[c] = Added(b, parse, h[c - 1])
        BY <4>1 DEF Adding
      <4> QED  BY <3>2, <4>2, <4>3
    <3> QED  BY <3>1, <3>2
  <2> QED  BY <2>1
<1>3. iter = [s \in SUBSET (1..n) |->
                IF s = {} THEN first ELSE Added(b, parse, iter[s \ {Max(s)}])]
  <2> HIDE DEF f
  <2> QED  BY <1>2
<1> HIDE DEF f, iter
<1> DEFINE S == {m \in Nat : \A s \in SUBSET (1..n) :
                               Cardinality(s) = m => iter[s] = h[m]}
<1>4. ASSUME NEW m \in Nat, m = 0 \/ m - 1 \in S
      PROVE  m \in S
  <2> SUFFICES ASSUME NEW s \in SUBSET (1..n), Cardinality(s) = m
               PROVE  iter[s] = h[m]
    OBVIOUS
  <2>1. CASE s = {}
    BY <1>1, <1>3, <2>1 DEF Adding
  <2>2. CASE s # {}
    <3> DEFINE t == s \ {Max(s)}
    <3>1. t \in SUBSET (1..n) /\ Cardinality(t) = m - 1 /\ m \in 1..n
      <4>1. /\ m \in 0..n /\ m # 0 /\ t \in SUBSET (1..n)
            /\ Cardinality(t) = m - 1
        BY <1>1, <2>2
      <4> HIDE DEF t
      <4> QED  BY <4>1
    <3>2. iter[t] = h[m - 1]
      BY <1>4, <3>1
    <3>3. iter[s] = Added(b, parse, iter[t])
      BY <1>3, <2>2
    <3> QED  BY <3>1, <3>2, <3>3 DEF Adding
  <2> QED  BY <2>1, <2>2
<1>5. Nat \subseteq S
  <2>1. \A m \in Nat : m \in S => m + 1 \in S
    BY <1>4
  <2>2. 0 \in S
    BY <1>4
  <2> HIDE DEF S
  <2> QED  BY <2>1, <2>2, AllNumbers
<1>6. iter[1..n] = h[n]
  BY <1>5, FS_Interval
<1>7. FoldLeft(LAMBDA array, k : Added(b, parse, array), first, [k \in 1..n |-> k])
        = iter[1..n]
  BY DEF FoldLeft, MapThenFoldSet, iter
<1> QED  BY <1>6, <1>7
-----------------------------------------------------------------------------
\* The elements of an array, each of which goes on where the last one ended
LEMMA ElementsForward ==
    ASSUME NEW b, Len(b) \in Nat, NEW i \in Nat, i <= Reach(b), i # Len(b), NEW parse,
           \A j \in Nat : j > i => Forward(b, j, parse[j]),
           NEW first \in Nat, first > i + 1, NEW n \in Nat, NEW h,
           Adding(b, parse, Success(ArrayValue(<<>>), first), n, h)
    PROVE  \A j \in 0..n : Forward(b, i, h[j])
<1> DEFINE Array(r) == /\ Forward(b, i, r)
                       /\ "type" \in DOMAIN r.value /\ r.value.type # "integer"
           S == {m \in Nat : m <= n => Array(h[m])}
<1>1. 0 \in S
  BY DEF Adding, Success, Response, ArrayValue, Forward, Fair
<1>2. ASSUME NEW m \in Nat, m \in S
      PROVE  m + 1 \in S
  <2> SUFFICES ASSUME m + 1 <= n
               PROVE  Array(h[m + 1])
    OBVIOUS
  <2> DEFINE array == h[m]
             element == parse[array.next]
  <2>1. Array(array)
    BY <1>2
  <2>2. h[m + 1] = Added(b, parse, array)
    BY DEF Adding
  <2>3. array.next # End(b) => Forward(b, array.next, element) /\ array.next > i
    BY <2>1 DEF Forward, Fair
  <2>4. array.next # End(b) => Forward(b, i, element)
    BY <2>1, <2>3 DEF Forward, Fair, End
  <2> HIDE DEF element, array
  <2>5. CASE array.error # "none"
    BY <2>1, <2>2, <2>5 DEF Added
  <2>6. CASE array.error = "none" /\ array.next = End(b)
    BY <2>2, <2>6 DEF Added, Failure, Response, Forward, Fair, NilValue, End
  <2>7. CASE array.error = "none" /\ array.next # End(b) /\ element.error # "none"
    <3>1. h[m + 1] = Failure(element.error, element.next)
      BY <2>2, <2>7 DEF Added, element
    <3> QED  BY <2>4, <2>7, <3>1 DEF Failure, Response, Forward, Fair, NilValue
  <2>8. CASE array.error = "none" /\ array.next # End(b) /\ element.error = "none"
    <3> DEFINE value == [array.value EXCEPT !.items = Append(@, element.value)]
    <3>1. h[m + 1] = Success(value, element.next)
      BY <2>2, <2>8 DEF Added, element
    <3>2. "type" \in DOMAIN value /\ value.type # "integer"
      BY <2>1
    <3> HIDE DEF value
    <3> QED  BY <2>4, <2>8, <3>1, <3>2 DEF Success, Response, Forward, Fair
  <2> QED  BY <2>5, <2>6, <2>7, <2>8
<1> HIDE DEF S
<1>3. Nat \subseteq S
  BY <1>1, <1>2, AllNumbers
<1> QED  BY <1>3 DEF S

\* How many elements parse_array asks for
Number(b, i) ==
    LET size == Stol(Line(b, i))
    IN  IF size # {} /\ The(size) > 0 THEN The(size) ELSE 0

\* parse_array (reply.cpp:179-220) in terms of these results
LEMMA ArrayAdds ==
    ASSUME NEW b, NEW i \in Nat, NEW parse, NEW h,
           Adding(b, parse, Success(ArrayValue(<<>>), AfterLine(b, i)), Number(b, i), h)
    PROVE  /\ Number(b, i) \in Nat
           /\ ArrayReply(b, i, parse) =
                IF LineEnd(b, i) = End(b) THEN Failure("eof", End(b))
                ELSE IF Stol(Line(b, i)) = {} THEN Failure("throws", AfterLine(b, i))
                ELSE h[Number(b, i)]
<1> DEFINE size == Stol(Line(b, i))
           first == Success(ArrayValue(<<>>), AfterLine(b, i))
           n == Number(b, i)
<1>1. size # {} => The(size) \in Int
  BY StolRange
<1>2. n \in Nat
  BY <1>1 DEF Number
<1>3. size # {} => 1..The(size) = 1..n
  BY <1>1 DEF Number
<1>4. FoldLeft(LAMBDA array, k : Added(b, parse, array), first, [k \in 1..n |-> k]) = h[n]
  BY <1>2, FoldAdds
<1>5. ArrayReply(b, i, parse) =
        IF LineEnd(b, i) = End(b) THEN Failure("eof", End(b))
        ELSE IF size = {} THEN Failure("throws", AfterLine(b, i))
        ELSE FoldLeft(LAMBDA array, k : Added(b, parse, array), first,
                      [k \in 1..The(size) |-> k])
  BY DEF ArrayReply, Added, FoldLeft, MapThenFoldSet
<1> QED  BY <1>2, <1>3, <1>4, <1>5 DEF FoldLeft, MapThenFoldSet

\* An array is gone over in forward direction if its elements are
LEMMA ArrayForward ==
    ASSUME NEW b, Len(b) \in Nat, NEW i, Inside(b, i), NEW parse,
           \A j \in Nat : j > i => Forward(b, j, parse[j])
    PROVE  Forward(b, i, ArrayReply(b, i + 1, parse))
<1> DEFINE first == AfterLine(b, i + 1)
           n == Number(b, i + 1)
<1>1. i \in Nat /\ LineEnd(b, i + 1) \in Nat /\ LineEnd(b, i + 1) > i /\ i <= Reach(b)
  BY LineInside, ReachIs
<1>2. first \in Nat /\ first > i + 1
  BY <1>1 DEF AfterLine
<1>3. n \in Nat
  BY StolRange DEF Number
<1>4. PICK h : Adding(b, parse, Success(ArrayValue(<<>>), first), n, h)
  BY <1>3, AddingExists
<1>5. i # Len(b) => Forward(b, i, h[n])
  BY <1>1, <1>2, <1>3, <1>4, ElementsForward
<1>6. ArrayReply(b, i + 1, parse) =
        IF LineEnd(b, i + 1) = End(b) THEN Failure("eof", End(b))
        ELSE IF Stol(Line(b, i + 1)) = {} THEN Failure("throws", first)
        ELSE h[n]
  BY <1>1, <1>4, ArrayAdds
<1>7. i = Len(b) => LineEnd(b, i + 1) = End(b)
  BY LineInside DEF End
<1> HIDE DEF first, n
<1> QED
  BY <1>1, <1>2, <1>5, <1>6, <1>7 DEF Forward, Fair, Failure, Response, End, NilValue

\* Of the other positions parse_array asks for those behind it only
LEMMA ArraySame ==
    ASSUME NEW b, Len(b) \in Nat, NEW i, Inside(b, i), NEW parse, NEW other,
           \A j \in Nat : j > i => Forward(b, j, parse[j]) /\ parse[j] = other[j]
    PROVE  ArrayReply(b, i + 1, parse) = ArrayReply(b, i + 1, other)
<1> DEFINE first == AfterLine(b, i + 1)
           start == Success(ArrayValue(<<>>), first)
           n == Number(b, i + 1)
<1>1. i \in Nat /\ LineEnd(b, i + 1) \in Nat /\ LineEnd(b, i + 1) > i /\ i <= Reach(b)
  BY LineInside, ReachIs
<1>2. first \in Nat /\ first > i + 1
  BY <1>1 DEF AfterLine
<1>3. n \in Nat
  BY StolRange DEF Number
<1>4. PICK h : Adding(b, parse, start, n, h)
  BY <1>3, AddingExists
<1>5. i # Len(b) => \A j \in 0..n : Forward(b, i, h[j])
  BY <1>1, <1>2, <1>3, <1>4, ElementsForward
<1>6. CASE i # Len(b)
  <2> SUFFICES Adding(b, other, start, n, h)
    BY <1>1, <1>4, ArrayAdds
  <2>1. ASSUME NEW j \in 1..n
        PROVE  h[j] = Added(b, other, h[j - 1])
    <3>1. h[j] = Added(b, parse, h[j - 1])
      BY <1>4 DEF Adding
    <3>2. j - 1 \in 0..n
      BY <1>3
    <3>3. /\ h[j - 1].next \in Nat
          /\ h[j - 1].next # End(b) => h[j - 1].next > i
      BY <1>1, <1>5, <1>6, <3>2 DEF Forward, Fair
    <3>4. h[j - 1].next # End(b) => parse[h[j - 1].next] = other[h[j - 1].next]
      BY <3>3
    <3> QED  BY <3>1, <3>4 DEF Added
  <2> QED  BY <1>4, <2>1 DEF Adding
<1>7. CASE i = Len(b)
  <2>1. LineEnd(b, i + 1) = End(b)
    BY <1>7, LineInside DEF End
  <2> QED  BY <2>1 DEF ArrayReply
<1> QED  BY <1>6, <1>7

-----------------------------------------------------------------------------
\* parse_reply at i, that of the elements of an array being given
ParsedAt(b, parse, i) ==
    IF i = End(b) THEN Failure("eof", i)
    ELSE CASE At(b, i) = "+"   -> SimpleString(b, i + 1)
           [] At(b, i) = "-"   -> ErrorReply(b, i + 1)
           [] At(b, i) = "$"   -> BulkString(b, i + 1)
           [] At(b, i) = "*"   -> ArrayReply(b, i + 1, parse)
           [] At(b, i) = ":"   -> IntegerReply(b, i + 1)
           [] OTHER            -> Unknown(b, i)

\* Behind the data and what is left of earlier ones there is nothing to read
LEMMA ParsedOutside ==
    ASSUME NEW b, Len(b) \in Nat, NEW i \in Nat, ~ Inside(b, i)
    PROVE  /\ Forward(b, i, Failure("eof", End(b))) /\ Forward(b, i, Unknown(b, i))
           /\ \A parse : ParsedAt(b, parse, i) =
                           IF i = End(b) THEN Failure("eof", i) ELSE Unknown(b, i)
<1>1. Forward(b, i, Failure("eof", End(b))) /\ Forward(b, i, Unknown(b, i))
  BY DEF Forward, Fair, Failure, Unknown, Success, Response, End, NilValue
<1>2. i # End(b) => At(b, i) = "NUL"
  BY StaleLength DEF At, End, Inside
<1>3. ASSUME NEW parse
      PROVE  ParsedAt(b, parse, i) = IF i = End(b) THEN Failure("eof", i) ELSE Unknown(b, i)
  <2>1. CASE i = End(b)
    BY <2>1 DEF ParsedAt
  <2>2. CASE i # End(b)
    BY <1>2, <2>2 DEF ParsedAt
  <2> QED  BY <2>1, <2>2
<1> QED  BY <1>1, <1>3

\* One turn of parse_reply goes forward if those behind it do
LEMMA ParsedForward ==
    ASSUME NEW b, Len(b) \in Nat, NEW i \in Nat, NEW parse,
           \A j \in Nat : j > i => Forward(b, j, parse[j])
    PROVE  Forward(b, i, ParsedAt(b, parse, i))
<1>1. Forward(b, i, Unknown(b, i)) /\ Forward(b, i, Failure("eof", End(b)))
  BY DEF Forward, Fair, Unknown, Success, Failure, Response, End, NilValue
<1>2. CASE ~ Inside(b, i)
  BY <1>1, <1>2, ParsedOutside
<1>3. CASE Inside(b, i)
  <2>1. /\ Forward(b, i, SimpleString(b, i + 1))
        /\ Forward(b, i, ErrorReply(b, i + 1))
        /\ Forward(b, i, IntegerReply(b, i + 1))
        /\ Forward(b, i, BulkString(b, i + 1))
    BY <1>3, LinesForward
  <2>2. Forward(b, i, ArrayReply(b, i + 1, parse))
    BY <1>3, ArrayForward
  <2> QED  BY <1>1, <2>1, <2>2 DEF ParsedAt
<1> QED  BY <1>2, <1>3

\* One turn of parse_reply depends on those behind it only
LEMMA ParsedSame ==
    ASSUME NEW b, Len(b) \in Nat, NEW i \in Nat, NEW parse, NEW other,
           \A j \in Nat : j > i => Forward(b, j, parse[j]) /\ parse[j] = other[j]
    PROVE  ParsedAt(b, parse, i) = ParsedAt(b, other, i)
<1>1. CASE ~ Inside(b, i)
  BY <1>1, ParsedOutside
<1>2. CASE Inside(b, i)
  <2>1. ArrayReply(b, i + 1, parse) = ArrayReply(b, i + 1, other)
    BY <1>2, ArraySame
  <2> QED  BY <2>1 DEF ParsedAt
<1> QED  BY <1>1, <1>2

\* The recursion of parse_reply goes towards the end of the buffer, so it is a
\* function: first what it returns near the end
LEMMA ParseExists ==
    ASSUME NEW b, Len(b) \in Nat
    PROVE  \E parse : parse = [i \in Nat |-> ParsedAt(b, parse, i)]
<1> DEFINE top == Reach(b)
           Solves(parse, k) == \A i \in Nat : i + k > top =>
                 parse[i] = ParsedAt(b, parse, i) /\ Forward(b, i, parse[i])
           S == {k \in Nat : \E parse : Solves(parse, k)}
<1>0. top \in Nat /\ \A i \in Nat : i > top => ~ Inside(b, i)
  <2>1. top \in Nat /\ \A i : Inside(b, i) => i <= top
    BY ReachIs
  <2> HIDE DEF top
  <2> QED  BY <2>1
<1> HIDE DEF top
<1>1. ASSUME NEW k \in Nat, NEW parse, \A i \in Nat : i + k > top + 1 =>
                 parse[i] = ParsedAt(b, parse, i) /\ Forward(b, i, parse[i])
      PROVE  k \in S
  <2> DEFINE g == [i \in Nat |-> IF i + k > top + 1 THEN parse[i] ELSE ParsedAt(b, parse, i)]
  <2>1. ASSUME NEW i \in Nat, i + k > top
        PROVE  g[i] = ParsedAt(b, g, i) /\ Forward(b, i, g[i])
    <3>1. \A j \in Nat : j > i => Forward(b, j, parse[j]) /\ parse[j] = g[j]
      BY <1>0, <1>1, <2>1
    <3> HIDE DEF g
    <3>2. ParsedAt(b, parse, i) = ParsedAt(b, g, i)
      BY <3>1, ParsedSame
    <3>3. Forward(b, i, ParsedAt(b, parse, i))
      BY <3>1, ParsedForward
    <3>4. g[i] = ParsedAt(b, parse, i)
      BY <1>1 DEF g
    <3> QED  BY <3>2, <3>3, <3>4
  <2> QED  BY <2>1
<1>2. 0 \in S
  <2> DEFINE parse == [i \in Nat |-> ParsedAt(b, <<>>, i)]
  <2>1. ASSUME NEW i \in Nat, i > top
        PROVE  parse[i] = ParsedAt(b, parse, i) /\ Forward(b, i, parse[i])
    <3>1. ~ Inside(b, i)
      BY <1>0, <2>1
    <3>2. parse[i] = ParsedAt(b, <<>>, i)
      OBVIOUS
    <3> HIDE DEF parse
    <3> QED  BY <3>1, <3>2, ParsedOutside
  <2>2. \A i \in Nat : i + 0 > top + 1 =>
                 parse[i] = ParsedAt(b, parse, i) /\ Forward(b, i, parse[i])
    <3> HIDE DEF parse
    <3> QED  BY <1>0, <2>1
  <2> HIDE DEF parse, S
  <2> QED  BY <1>1, <2>2
<1>3. ASSUME NEW k \in Nat, k \in S
      PROVE  k + 1 \in S
  <2>1. PICK parse : Solves(parse, k)
    BY <1>3
  <2>2. \A i \in Nat : i + (k + 1) > top + 1 =>
                 parse[i] = ParsedAt(b, parse, i) /\ Forward(b, i, parse[i])
    BY <1>0, <2>1
  <2> HIDE DEF S
  <2> QED  BY <1>1, <2>2
<1> HIDE DEF S
<1>4. top + 1 \in S
  BY <1>0, <1>2, <1>3, AllNumbers
<1>5. PICK parse : Solves(parse, top + 1)
  BY <1>4 DEF S
<1> DEFINE g == [i \in Nat |-> parse[i]]
<1>6. ASSUME NEW i \in Nat
      PROVE  g[i] = ParsedAt(b, g, i)
  <2>1. \A j \in Nat : j > i => Forward(b, j, parse[j]) /\ parse[j] = g[j]
    BY <1>0, <1>5
  <2>2. g[i] = ParsedAt(b, parse, i)
    BY <1>0, <1>5
  <2> HIDE DEF g
  <2> QED  BY <2>1, <2>2, ParsedSame
<1>7. g = [i \in Nat |-> ParsedAt(b, g, i)]
  <2>1. g = [i \in Nat |-> g[i]]
    OBVIOUS
  <2> HIDE DEF g
  <2> QED  BY <1>6, <2>1
<1> QED  BY <1>7

\* What load_data returns, for any bytes and from anywhere, behind their end too
LEMMA ParseReplyForward ==
    ASSUME NEW b, Len(b) \in Nat, NEW start \in Nat
    PROVE  Forward(b, start, ParseReply(b, start))
<1> DEFINE parse[i \in Nat] ==
             IF i = End(b) THEN Failure("eof", i)
             ELSE CASE At(b, i) = "+"   -> SimpleString(b, i + 1)
                    [] At(b, i) = "-"   -> ErrorReply(b, i + 1)
                    [] At(b, i) = "$"   -> BulkString(b, i + 1)
                    [] At(b, i) = "*"   -> ArrayReply(b, i + 1, parse)
                    [] At(b, i) = ":"   -> IntegerReply(b, i + 1)
                    [] OTHER            -> Unknown(b, i)
           top == Reach(b)
           S == {k \in Nat : \A i \in Nat : i + k > top => Forward(b, i, parse[i])}
<1>0. top \in Nat /\ \A i \in Nat : i > top => ~ Inside(b, i)
  <2>1. top \in Nat /\ \A i : Inside(b, i) => i <= top
    BY ReachIs
  <2> HIDE DEF top
  <2> QED  BY <2>1
<1>1. parse = [i \in Nat |-> ParsedAt(b, parse, i)]
  BY ParseExists DEF ParsedAt
<1>2. ParseReply(b, start) = parse[start]
  BY DEF ParseReply
<1> HIDE DEF parse, top
<1>3. ASSUME NEW i \in Nat, \A j \in Nat : j > i => Forward(b, j, parse[j])
      PROVE  Forward(b, i, parse[i])
  <2>1. parse[i] = ParsedAt(b, parse, i)
    BY <1>1
  <2> QED  BY <1>3, <2>1, ParsedForward
<1>4. 0 \in S
  <2> SUFFICES ASSUME NEW i \in Nat, i > top
               PROVE  Forward(b, i, parse[i])
    BY <1>0
  <2>1. parse[i] = ParsedAt(b, parse, i)
    BY <1>1
  <2>2. ~ Inside(b, i)
    BY <1>0
  <2> QED  BY <2>1, <2>2, ParsedOutside
<1>5. ASSUME NEW k \in Nat, k \in S
      PROVE  k + 1 \in S
  <2>1. ASSUME NEW i \in Nat, i + (k + 1) > top
        PROVE  Forward(b, i, parse[i])
    <3>1. \A j \in Nat : j > i => j + k > top
      BY <1>0, <2>1
    <3> QED  BY <1>3, <1>5, <3>1
  <2> QED  BY <2>1
<1> HIDE DEF S
<1>6. top + 1 \in S
  BY <1>0, <1>4, <1>5, AllNumbers
<1>7. Forward(b, start, parse[start])
  BY <1>0, <1>6 DEF S
<1> QED  BY <1>2, <1>7
=============================================================================
