---------------------------- MODULE ReplyParser ----------------------------
(***************************************************************************)
(* redis::reply (reply.cpp): the parser of RESP replies, byte by byte.     *)
(*                                                                         *)
(* The C++ iterators are indices from 1. A read overwrites the beginning   *)
(* of its buffer, and the parser does not always stop at the end of what   *)
(* was read: behind it are the bytes of earlier reads, if the buffer is    *)
(* used again (subscriber.cpp:111), and then the zeros it was made of; it  *)
(* is taken to be long enough for what the parser reads there.             *)
(***************************************************************************)
EXTENDS Value

CONSTANT
    Stale       \* what earlier reads left in the buffer; <<>> in a new one

\* Earlier reads ended with a whole reply
ASSUME StaleAssumption ==
    /\ Stale \in Seq(DOMAIN CodeOf)
    /\ Stale # <<>> => /\ Len(Stale) > 1
                       /\ SubSeq(Stale, Len(Stale) - 1, Len(Stale)) = <<"CR", "LF">>

-----------------------------------------------------------------------------
(* What a server sends.                                                    *)

CRLF == <<"CR", "LF">>
LineOf(type, text) == <<type>> \o text \o CRLF

Bytes ==
    LET bytes[v \in Values] ==
          CASE v.type = "nil"           -> LineOf("$", <<"-", "1">>)
            [] v.type = "simple_string" -> LineOf("+", v.text)
            [] v.type = "error"         -> LineOf("-", v.text)
            [] v.type = "integer"       -> LineOf(":", Decimal(v.number))
            [] v.type = "bulk_string"   ->
                  LineOf("$", Decimal(Len(v.text))) \o v.text \o CRLF
            [] v.type = "array"         ->
                  LineOf("*", Decimal(Len(v.items))) \o
                    FlattenSeq([i \in DOMAIN v.items |-> bytes[v.items[i]]])
    IN  bytes

BytesOf(values) == FlattenSeq([i \in DOMAIN values |-> Bytes[values[i]]])

-----------------------------------------------------------------------------
(* reply::parse_reply and the parsers it calls: each returns a value, an   *)
(* error and the iterator behind what it consumed.                         *)

End(b) == Len(b) + 1
At(b, i) ==
    IF i < End(b) THEN b[i]
    ELSE IF i < End(Stale) THEN Stale[i]
    ELSE "NUL"

Response(value, error, next) == [value |-> value, error |-> error, next |-> next]
Failure(error, next) == Response(NilValue, error, next)
Success(value, next) == Response(value, "none", next)

\* Where the search for '\r' from i stops: from behind the end it misses it
Searched(b, i) == IF i <= End(b) THEN b ELSE Stale
LineEnd(b, i) ==
    LET bytes   == Searched(b, i)
        returns == {j \in i..Len(bytes) : bytes[j] = "CR"}
    IN  IF returns = {} THEN End(bytes) ELSE Min(returns)

Line(b, i) == SubSeq(Searched(b, i), i, LineEnd(b, i) - 1)
AfterLine(b, i) == LineEnd(b, i) + 2

\* stol of a line, by which the parsers read numbers
Stol(text) == Sto(text, Long)
The(number) == CHOOSE n \in number : TRUE

\* A line that is cut before its '\r' is a string nevertheless
SimpleString(b, i) ==
    IF i = End(b) THEN Failure("eof", i)
    ELSE Success(SimpleStringValue(Line(b, i)), AfterLine(b, i))

ErrorReply(b, i) ==
    IF LineEnd(b, i) = End(b) THEN Failure("eof", End(b))
    ELSE Response(ErrorValue(Line(b, i)), "error", AfterLine(b, i))

\* Mutant of BulkString: the '\r\n' behind the string is not consumed
BulkStringKeepsCRLF(b, i) ==
    LET start == AfterLine(b, i)
        size  == Stol(Line(b, i))
    IN  IF LineEnd(b, i) = End(b) THEN Failure("eof", End(b))
        ELSE IF size = {} THEN Failure("malformed", start)
        ELSE IF size = {-1} THEN Success(NilValue, start)
        ELSE IF The(size) < 0 THEN Failure("throws", start)
        ELSE Success(BulkStringValue([k \in 1..The(size) |-> At(b, start + k - 1)]),
                     start + The(size))

\* The size is trusted: what is not there yet is read from behind the data;
\* resize throws at a negative one
BulkString(b, i) ==
    LET start == AfterLine(b, i)
        size  == Stol(Line(b, i))
    IN  IF LineEnd(b, i) = End(b) THEN Failure("eof", End(b))
        ELSE IF size = {} THEN Failure("malformed", start)
        ELSE IF size = {-1} THEN Success(NilValue, start)
        ELSE IF The(size) < 0 THEN Failure("throws", start)
        ELSE Success(BulkStringValue([k \in 1..The(size) |-> At(b, start + k - 1)]),
                     start + The(size) + 2)

\* Mutant of IntegerReply: a number that is out of range is not noticed
IntegerUnchecked(b, i) ==
    LET number == Sto(Line(b, i), Int)
    IN  IF LineEnd(b, i) = End(b) THEN Failure("eof", End(b))
        ELSE IF number = {} THEN Failure("out_of_range", AfterLine(b, i))
        ELSE Success(IntegerValue(The(number)), AfterLine(b, i))

IntegerReply(b, i) ==
    LET number == Stol(Line(b, i))
    IN  IF LineEnd(b, i) = End(b) THEN Failure("eof", End(b))
        ELSE IF number = {} THEN Failure("out_of_range", AfterLine(b, i))
        ELSE Success(IntegerValue(The(number)), AfterLine(b, i))

\* parse_array, parse[j] being parse_reply at j: the first element with an
\* error ends it, there; stol of its size is not guarded
ArrayReply(b, i, parse) ==
    LET size == Stol(Line(b, i))
        AddElement(array, k) ==
          IF array.error # "none" THEN array
          ELSE IF array.next = End(b) THEN Failure("eof", array.next)
          ELSE LET element == parse[array.next]
               IN  IF element.error # "none"
                   THEN Failure(element.error, element.next)
                   ELSE Success([array.value EXCEPT !.items =
                                   Append(@, element.value)], element.next)
    IN  IF LineEnd(b, i) = End(b) THEN Failure("eof", End(b))
        ELSE IF size = {} THEN Failure("throws", AfterLine(b, i))
        ELSE FoldLeft(AddElement,
                      Success(ArrayValue(<<>>), AfterLine(b, i)),
                      [k \in 1..The(size) |-> k])

\* Mutant of Unknown: one byte is skipped
UnknownSkipsByte(b, i) == Success(NilValue, i + 1)

\* Mutant of Unknown: the byte is left to the next call
UnknownStays(b, i) == Success(NilValue, i)

\* A first byte that is no type byte: the rest of the buffer is dropped
Unknown(b, i) == Success(NilValue, End(b))

ParseReply(b, start) ==
    LET parse[i \in Nat] ==
          IF i = End(b) THEN Failure("eof", i)
          ELSE CASE At(b, i) = "+"   -> SimpleString(b, i + 1)
                 [] At(b, i) = "-"   -> ErrorReply(b, i + 1)
                 [] At(b, i) = "$"   -> BulkString(b, i + 1)
                 [] At(b, i) = "*"   -> ArrayReply(b, i + 1, parse)
                 [] At(b, i) = ":"   -> IntegerReply(b, i + 1)
                 [] OTHER            -> Unknown(b, i)
    IN  parse[start]
=============================================================================
