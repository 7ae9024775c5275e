--------------------------- MODULE ReplyLoopProofs ---------------------------
(***************************************************************************)
(* The loop over a buffer ends, and what the values are that a caller gets *)
(* of it, for any replies, buffers and widths.                             *)
(***************************************************************************)
EXTENDS ReplyLoop, WireProofs, FiniteSetTheorems

\* The texts of an array of strings are as many as its elements
LEMMA TextsOf ==
    ASSUME NEW items \in Seq(Values), NEW texts,
           texts = [i \in DOMAIN items |-> The(AsString(items[i]))]
    PROVE  /\ Len(items) \in Nat /\ DOMAIN items = 1..Len(items)
           /\ Len(texts) = Len(items)
           /\ \A i \in 1..Len(items) : texts[i] = The(AsString(items[i]))
<1>1. Len(items) \in Nat /\ DOMAIN items = 1..Len(items)
  BY LenProperties
<1> DEFINE T == {texts[i] : i \in 1..Len(items)}
<1>2. texts \in [1..Len(items) -> T]
  BY <1>1
<1>3. Len(texts) = Len(items)
  <2>1. texts \in Seq(T)
    BY <1>1, <1>2, SeqDef
  <2>2. Len(texts) \in Nat /\ DOMAIN texts = 1..Len(texts)
    BY <2>1, LenProperties
  <2> HIDE DEF T
  <2>3. 1..Len(texts) = 1..Len(items)
    BY <1>2, <2>2
  <2> QED  BY <1>1, <2>2, <2>3
<1> QED  BY <1>1, <1>3

\* Of an array of strings as<redis_message> makes what the constructor makes of
\* its texts, or nothing, and never nothing where that is a message
LEMMA MessagesMade ==
    ASSUME NEW v, v.type = "array", v.items \in Seq(Values),
           \A i \in DOMAIN v.items : AsString(v.items[i]) # {},
           NEW texts, texts = [i \in DOMAIN v.items |-> The(AsString(v.items[i]))]
    PROVE  /\ AsMessage(v) \subseteq {MessageOf(texts)}
           /\ Valid(MessageOf(texts)) => AsMessage(v) # {}
<1> DEFINE n == Len(v.items)
           Text(i) == IF AsString(v.items[i]) = {} THEN <<>>
                      ELSE CHOOSE t \in AsString(v.items[i]) : TRUE
<1>0. ~ Valid(NoMessage)
  BY DEF Valid, NoMessage, Message
<1>1. /\ n \in Nat /\ DOMAIN v.items = 1..n /\ Len(texts) = n
      /\ \A i \in 1..n : texts[i] = The(AsString(v.items[i]))
  BY TextsOf
<1>2. \A i \in 1..n : Text(i) = texts[i]
  BY <1>1 DEF The
<1>3. CASE n = 3
  <2>1. Text(1) = texts[1] /\ Text(2) = texts[2] /\ Text(3) = texts[3]
    BY <1>2, <1>3
  <2>2. MessageOf(texts) = IF texts[1] = <<"message">>
                           THEN Message(texts[2], <<>>, texts[3]) ELSE NoMessage
    BY <1>1, <1>3 DEF MessageOf
  <2>3. AsMessage(v) = IF Text(1) = <<"message">>
                       THEN {Message(Text(2), <<>>, Text(3))} ELSE {}
    BY <1>3 DEF AsMessage
  <2>4. CASE texts[1] = <<"message">>
    BY <2>1, <2>2, <2>3, <2>4
  <2>5. CASE texts[1] # <<"message">>
    BY <1>0, <2>1, <2>2, <2>3, <2>5
  <2> QED  BY <2>4, <2>5
<1>4. CASE n = 4
  <2>1. /\ Text(1) = texts[1] /\ Text(2) = texts[2]
        /\ Text(3) = texts[3] /\ Text(4) = texts[4]
    BY <1>2, <1>4
  <2>2. MessageOf(texts) = IF texts[1] = <<"pmessage">>
                           THEN Message(texts[3], texts[2], texts[4]) ELSE NoMessage
    BY <1>1, <1>4 DEF MessageOf
  <2>3. AsMessage(v) = IF Text(1) = <<"pmessage">>
                       THEN {Message(Text(3), Text(2), Text(4))} ELSE {}
    BY <1>4 DEF AsMessage
  <2>4. CASE texts[1] = <<"pmessage">>
    BY <2>1, <2>2, <2>3, <2>4
  <2>5. CASE texts[1] # <<"pmessage">>
    BY <1>0, <2>1, <2>2, <2>3, <2>5
  <2> QED  BY <2>4, <2>5
<1>5. CASE n \notin {3, 4}
  <2>1. MessageOf(texts) = NoMessage
    BY <1>1, <1>5 DEF MessageOf
  <2>2. AsMessage(v) \subseteq {NoMessage}
    BY <1>5 DEF AsMessage
  <2> QED  BY <1>0, <2>1, <2>2
<1> QED  BY <1>3, <1>4, <1>5

\* The two ways to make a message of an array of strings agree, whatever its
\* length and its texts: what the tests of the constructor show holds of the
\* conversion, and the other way round (message.hpp:25-49, value.hpp:375-412).
THEOREM MessagesAreMadeAlike == Spec => []MessagesAgree
<1>1. MessagesAgree
  <2> SUFFICES ASSUME NEW v \in Values, v.type = "array",
                      \A i \in DOMAIN v.items : AsString(v.items[i]) # {}
               PROVE  LET texts == [i \in DOMAIN v.items |-> The(AsString(v.items[i]))]
                      IN  /\ AsMessage(v) \subseteq {MessageOf(texts)}
                          /\ Valid(MessageOf(texts)) => AsMessage(v) # {}
    BY DEF MessagesAgree, Answers
  <2>1. v.items \in Seq(Values)
    BY ItemsAssumption
  <2> QED  BY <2>1, MessagesMade
<1> QED  BY <1>1, PTL

-----------------------------------------------------------------------------
(* The loop over a buffer.                                                 *)

\* Before the first call nothing is consumed and nothing returned
LEMMA InitAdvances == Init => TypeOK /\ Advances
<1> SUFFICES ASSUME Init
             PROVE  TypeOK /\ Advances
  OBVIOUS
<1>1. Len(buffer) \in Nat
  <2>1. CASE buffer \in Garbage
    <3>1. buffer \in Seq(DOMAIN CodeOf)
      BY <2>1, GarbageAssumption
    <3> QED  BY <3>1, LenProperties
  <2>2. CASE buffer \notin Garbage
    <3>1. PICK all, first, final : /\ cut \in [from : 1..first, to : final..Len(all)]
                                   /\ buffer = SubSeq(all, cut.from, cut.to)
      BY <2>2 DEF Init
    <3>2. cut.from \in Int /\ cut.to \in Int
      BY <3>1
    <3> QED  BY <3>1, <3>2
  <2> QED  BY <2>1, <2>2
<1>2. replies = <<>> /\ it = 1 /\ thrown = FALSE
  BY DEF Init
<1>3. replies \in Seq({replies[i] : i \in DOMAIN replies}) /\ Len(replies) = 0
  BY <1>2
<1>4. TypeOK
  <2>1. DOMAIN replies = {}
    BY <1>2
  <2>2. it \in Nat \ {0}
    BY <1>2
  <2>3. thrown \in BOOLEAN
    BY <1>2
  <2> QED  BY <2>1, <2>2, <2>3 DEF TypeOK
<1>5. Advances
  <2>1. Readable \in Nat /\ Len(buffer) <= Readable
    BY <1>1, StaleLength DEF Readable
  <2> QED  BY <1>1, <1>2, <1>3, <2>1 DEF Advances, End
<1> QED  BY <1>4, <1>5

\* A call returns one reply more and takes its bytes for it, or all that are left
LEMMA StepAdvances == TypeOK /\ Advances /\ [Next]_vars => TypeOK' /\ Advances'
<1> SUFFICES ASSUME TypeOK, Advances, [Next]_vars
             PROVE  TypeOK' /\ Advances'
  OBVIOUS
<1>1. CASE UNCHANGED vars
  BY <1>1 DEF vars, TypeOK, Advances, Readable
<1>2. CASE LoadData
  <2> DEFINE response == ParseReply(buffer, it)
             reply == [value |-> response.value, error |-> response.error]
             old == {replies[i] : i \in DOMAIN replies}
             n == Len(replies)
  <2>1. /\ it # End(buffer) /\ thrown' = (response.error = "throws")
        /\ it' = response.next /\ replies' = Append(replies, reply) /\ buffer' = buffer
    BY <1>2 DEF LoadData
  <2>2. it \in Nat \ {0} /\ Len(buffer) \in Nat
    BY DEF TypeOK, Advances
  <2>3. Forward(buffer, it, response)
    BY <2>2, ParseReplyForward
  <2>4. Fair(response)
    BY <2>3 DEF Forward
  <2> HIDE DEF response
  <2>5. replies \in Seq(old) /\ n \in Nat /\ DOMAIN replies = 1..n
    BY LenProperties DEF Advances
  <2>6. replies \in Seq(old \cup {reply})
    BY <2>5, SeqMonotonic
  <2>7. /\ replies' \in Seq(old \cup {reply}) /\ Len(replies') = n + 1
        /\ \A i \in 1..n : replies'[i] = replies[i]
        /\ replies'[n + 1] = reply /\ DOMAIN replies' = 1..(n + 1)
    <3> HIDE DEF reply, old, n
    <3>1. Len(replies') = Len(replies) + 1 /\ replies' \in Seq(old \cup {reply})
      BY <2>1, <2>6, AppendProperties
    <3>2. DOMAIN replies' = 1..Len(replies')
      BY <3>1, LenProperties
    <3>3. \A i \in 1..Len(replies) : replies'[i] = replies[i]
      BY <2>1, <2>6, AppendProperties
    <3>4. replies'[Len(replies) + 1] = reply
      BY <2>1, <2>6, AppendProperties
    <3> QED  BY <3>1, <3>2, <3>3, <3>4 DEF n
  <2>8. TypeOK'
    <3>1. it' \in Nat \ {0}
      BY <2>1, <2>2, <2>3, <2>4 DEF Forward, Fair, End
    <3>2. thrown' \in BOOLEAN
      BY <2>1
    <3>3. ASSUME NEW i \in DOMAIN replies'
          PROVE  /\ replies'[i].error \in {"none", "eof", "error", "malformed",
                                           "out_of_range", "throws"}
                 /\ replies'[i].value.type = "integer" => replies'[i].value.number \in Long
      <4>1. CASE i \in 1..n
        BY <2>5, <2>7, <4>1 DEF TypeOK
      <4>2. CASE i = n + 1
        BY <2>4, <2>7, <4>2 DEF Fair
      <4> QED  BY <2>5, <2>7, <4>1, <4>2
    <3> QED  BY <3>1, <3>2, <3>3 DEF TypeOK
  <2>9. Advances'
    <3>1. Len(buffer') \in Nat
      BY <2>1, <2>2
    <3>2. replies' \in Seq({replies'[i] : i \in DOMAIN replies'})
      <4>1. \A i \in 1..(n + 1) : replies'[i] \in {replies'[j] : j \in DOMAIN replies'}
        BY <2>7
      <4>2. replies' = [i \in 1..(n + 1) |-> replies'[i]]
        BY <2>7
      <4> HIDE DEF n
      <4>3. replies' \in [1..(n + 1) -> {replies'[i] : i \in DOMAIN replies'}]
        BY <4>1, <4>2
      <4>4. n + 1 \in Nat
        BY <2>5 DEF n
      <4> QED  BY <4>3, <4>4, SeqDef
    <3>3. /\ Len(replies') <= Readable'
          /\ it' # End(buffer') =>
                IF it' <= Readable' THEN Len(replies') = 0 \/ Len(replies') + 1 < it'
                ELSE Len(replies') < Readable'
      <4> DEFINE top == Readable
      <4>1. top = Reach(buffer) /\ Readable' = top /\ top \in Nat /\ Len(buffer) <= top
        BY <2>1, <2>2, StaleLength DEF Readable, Reach
      <4>2. it' = End(buffer) \/ (it # Len(buffer) /\ it <= top /\ it' > it + 1)
        <5> HIDE DEF top
        <5> QED  BY <2>1, <2>3, <4>1 DEF Forward
      <4>3. IF it <= top THEN n = 0 \/ n + 1 < it ELSE n < top
        BY <2>1 DEF Advances
      <4>4. it' \in Nat
        BY <2>1, <2>4 DEF Fair
      <4>5. n \in Nat /\ Len(replies') = n + 1 /\ it # End(buffer)
        BY <2>1, <2>5, <2>7
      <4> HIDE DEF n, top
      <4>6. n + 1 <= top
        BY <2>2, <4>1, <4>3, <4>5 DEF End
      <4>7. ASSUME it' # End(buffer), it' <= top
            PROVE  n + 2 < it'
        BY <2>2, <4>2, <4>3, <4>4, <4>5, <4>7 DEF End
      <4>8. ASSUME it' # End(buffer), it' > top
            PROVE  n + 1 < top
        BY <2>2, <4>1, <4>2, <4>3, <4>4, <4>5, <4>8 DEF End
      <4> QED  BY <2>1, <4>1, <4>4, <4>5, <4>6, <4>7, <4>8
    <3> QED  BY <3>1, <3>2, <3>3 DEF Advances
  <2> QED  BY <2>8, <2>9
<1> QED  BY <1>1, <1>2 DEF Next

\* The inductive invariant of the loop
LEMMA LoopInvariant == Spec => [](TypeOK /\ Advances)
BY InitAdvances, StepAdvances, PTL DEF Spec

\* What the loop is given is well-typed, for any bytes: the iterator is one, the
\* errors are known and integers have their 64 bits (reply.cpp:14-220).
THEOREM LoopTypeCorrect == Spec => []TypeOK
BY LoopInvariant, PTL

\* The loop over a buffer ends, for any bytes in it and behind them: it makes no more
\* replies than there are bytes to read (client.cpp:141-145, subscriber.cpp:147-158).
THEOREM LoopTerminates == Spec => []LoopEnds
<1>1. Advances => LoopEnds
  BY DEF Advances, LoopEnds
<1> QED  BY <1>1, LoopInvariant, PTL

-----------------------------------------------------------------------------
(* Numbers.                                                                *)

\* The remainder of a small number
LEMMA SmallMod ==
    ASSUME NEW w \in Nat \ {0}, NEW m \in 0..(w - 1)
    PROVE  m % w = m
OBVIOUS

\* A number that fits is not changed by narrowing
LEMMA NarrowSame ==
    ASSUME NEW n \in Int32
    PROVE  Narrow(n) = n /\ n \in Int
<1> DEFINE half == MaxInt + 1
           m == n + half
<1>1. half \in Nat \ {0} /\ n \in Int /\ m \in 0..(2 * half - 1)
  BY WidthsAssumption DEF Int32
<1>2. m % (2 * half) = m
  <2>1. (2 * half) \in Nat \ {0}
    BY <1>1
  <2> HIDE DEF half, m
  <2> QED  BY <1>1, <2>1, SmallMod
<1>3. Narrow(n) = (m % (2 * half)) - half
  BY <1>1, WidthsAssumption DEF Narrow
<1> HIDE DEF m
<1> QED  BY <1>1, <1>2, <1>3 DEF m

\* A text reads as the same number where it is read at all
LEMMA StoSame ==
    ASSUME NEW text
    PROVE  /\ Sto(text, Long) \subseteq Int32 => Sto(text, Int32) = Sto(text, Long)
           /\ Sto(text, Long) # {} => Sto(text, Int) = Sto(text, Long)
<1>1. Int32 \subseteq Long /\ Long \subseteq Int
  BY WidthsAssumption DEF Int32, Long
<1>2. PICK found : \A range : Sto(text, range) = found \cap range
  BY DEF Sto
<1>3. \A n, m \in Sto(text, Int) : n = m
  BY DEF Sto
<1>4. Sto(text, Long) \subseteq Int32 => Sto(text, Int32) = Sto(text, Long)
  <2>1. Sto(text, Int32) = found \cap Int32 /\ Sto(text, Long) = found \cap Long
    BY <1>2
  <2> QED  BY <1>1, <2>1
<1>5. Sto(text, Long) # {} => Sto(text, Int) = Sto(text, Long)
  <2>1. Sto(text, Int) = found \cap Int /\ Sto(text, Long) = found \cap Long
    BY <1>2
  <2>2. Sto(text, Long) \subseteq Sto(text, Int)
    BY <1>1, <2>1
  <2> QED  BY <1>3, <2>2
<1> QED  BY <1>4, <1>5

\* NumbersAgree of one pair
NumbersSame(a, b) ==
    /\ AsLong(a) = AsLong(b)
    /\ AsLong(a) \subseteq Int32 =>
          AsInt(a) = AsLong(a) /\ AsInt(b) = AsLong(a) /\ AsDouble(a) = AsDouble(b)
    /\ AsLong(a) # {} => AsFloat(a) = AsLong(a) /\ AsFloat(b) = AsLong(a)

\* What the conversions make of an integer and of a text
LEMMA NumberOf ==
    ASSUME NEW v
    PROVE  /\ v.type = "integer" =>
                 /\ AsString(v) = {Decimal(v.number)} /\ AsLong(v) = {v.number}
                 /\ AsInt(v) = {Narrow(v.number)} /\ AsDouble(v) = {Narrow(v.number)}
                 /\ AsFloat(v) = {v.number}
           /\ v.type = "bulk_string" =>
                 /\ AsString(v) = {v.text} /\ AsLong(v) = Sto(v.text, Long)
                 /\ AsInt(v) = Sto(v.text, Int32) /\ AsDouble(v) = Sto(v.text, Int)
                 /\ AsFloat(v) = Sto(v.text, Int)
BY DEF AsString, AsLong, AsInt, AsDouble, AsFloat

\* An integer, and the same integer or its digits
LEMMA IntegersSame ==
    ASSUME NEW a, NEW b, a.type = "integer", a.number \in Long,
           \/ b.type = "integer" /\ b.number = a.number
           \/ b.type = "bulk_string" /\ b.text = Decimal(a.number)
    PROVE  NumbersSame(a, b) /\ NumbersSame(b, a)
<1> DEFINE n == a.number
<1>1. n \in Int /\ Long \subseteq Int /\ Int32 \subseteq Long
  BY WidthsAssumption DEF Int32, Long
<1>2. n \in Int32 => Narrow(n) = n
  BY NarrowSame
<1>3. \A range : Sto(Decimal(n), range) = {m \in {n} : m \in range}
  BY <1>1, DecimalReadsBack
<1>4. AsLong(a) = {n} /\ AsInt(a) = {Narrow(n)} /\ AsDouble(a) = {Narrow(n)} /\ AsFloat(a) = {n}
  BY NumberOf
<1>5. CASE b.type = "integer" /\ b.number = n
  <2>1. AsLong(b) = {n} /\ AsInt(b) = {Narrow(n)} /\ AsDouble(b) = {Narrow(n)} /\ AsFloat(b) = {n}
    BY <1>5, NumberOf
  <2> HIDE DEF n
  <2> QED  BY <1>2, <1>4, <2>1 DEF NumbersSame
<1>6. CASE b.type = "bulk_string" /\ b.text = Decimal(n)
  <2>1. /\ AsLong(b) = {m \in {n} : m \in Long} /\ AsInt(b) = {m \in {n} : m \in Int32}
        /\ AsDouble(b) = {m \in {n} : m \in Int} /\ AsFloat(b) = {m \in {n} : m \in Int}
    BY <1>3, <1>6, NumberOf
  <2>2. AsLong(b) = {n} /\ AsDouble(b) = {n} /\ AsFloat(b) = {n}
    BY <1>1, <2>1
  <2>3. n \in Int32 => AsInt(b) = {n}
    BY <2>1
  <2> HIDE DEF n
  <2> QED  BY <1>2, <1>4, <2>2, <2>3 DEF NumbersSame
<1> QED  BY <1>5, <1>6

\* A number reads the same whether the server sent an integer or its digits, for
\* numbers of any width (value.hpp:192-324): from the digits std::to_string
\* writes stol makes the number again, and where all conversions of a text give
\* a number they give the same.
THEOREM NumbersReadAlike == Spec => []NumbersAgree
<1>1. TypeOK => NumbersAgree
  <2> SUFFICES ASSUME TypeOK,
                      NEW a \in Answers, a.type \in {"integer", "bulk_string"},
                      NEW b \in Answers, b.type \in {"integer", "bulk_string"},
                      AsString(a) = AsString(b)
               PROVE  NumbersSame(a, b)
    BY DEF NumbersAgree, NumbersSame
  <2>1. \A v \in Answers : v.type = "integer" => v.number \in Long
    BY DEF TypeOK, Answers
  <2>2. CASE a.type = "integer" /\ b.type = "integer"
    <3>1. Decimal(a.number) = Decimal(b.number)
      BY <2>2, NumberOf
    <3>2. a.number \in Int /\ b.number \in Int
      BY <2>1, <2>2, WidthsAssumption DEF Long
    <3>3. /\ Sto(Decimal(a.number), Int) = {m \in {a.number} : m \in Int}
          /\ Sto(Decimal(b.number), Int) = {m \in {b.number} : m \in Int}
      BY <3>2, DecimalReadsBack
    <3>4. a.number = b.number
      BY <3>1, <3>2, <3>3
    <3>5. a.number \in Long /\ b.type = "integer" /\ b.number = a.number
      BY <2>1, <2>2, <3>4
    <3> QED  BY <2>2, <3>5, IntegersSame
  <2>3. CASE a.type = "integer" /\ b.type = "bulk_string"
    <3>1. b.text = Decimal(a.number)
      BY <2>3, NumberOf
    <3> QED  BY <2>1, <2>3, <3>1, IntegersSame
  <2>4. CASE a.type = "bulk_string" /\ b.type = "integer"
    <3>1. a.text = Decimal(b.number)
      BY <2>4, NumberOf
    <3> QED  BY <2>1, <2>4, <3>1, IntegersSame
  <2>5. CASE a.type = "bulk_string" /\ b.type = "bulk_string"
    <3>1. a.text = b.text
      BY <2>5, NumberOf
    <3> QED  BY <2>5, <3>1, NumberOf, StoSame DEF NumbersSame
  <2> QED  BY <2>2, <2>3, <2>4, <2>5
<1> QED  BY <1>1, LoopTypeCorrect, PTL

-----------------------------------------------------------------------------
(* The replies that were sent come back.                                   *)

\* Replies are finite: the elements of an array lie less deep than the array
FiniteNesting ==
    \E depth \in [Values -> Nat] : \A v \in Values :
        v.type = "array" => \A i \in DOMAIN v.items : depth[v.items[i]] < depth[v]

\* EXEC did not fail: an error inside an array ends it (the run parse_exec)
NoErrorsInArrays ==
    \A v \in Values : v.type = "array" => \A i \in DOMAIN v.items : v.items[i].type # "error"

\* What there is of each type
LEMMA Replies ==
    ASSUME NEW v \in Values
    PROVE  \/ v.type = "nil" /\ v = NilValue
           \/ /\ v.type = "simple_string" /\ v = SimpleStringValue(v.text)
              /\ v.text \in Seq(Byte) /\ \A k \in 1..Len(v.text) : v.text[k] # "CR"
           \/ /\ v.type = "error" /\ v = ErrorValue(v.text)
              /\ v.text \in Seq(Byte) /\ \A k \in 1..Len(v.text) : v.text[k] # "CR"
           \/ v.type = "integer" /\ v = IntegerValue(v.number) /\ v.number \in Long
           \/ /\ v.type = "bulk_string" /\ v = BulkStringValue(v.text)
              /\ v.text \in Seq(Byte) /\ Len(v.text) <= MaxLong
           \/ /\ v.type = "array" /\ v = ArrayValue(v.items) /\ v.items \in Seq(Values)
              /\ Len(v.items) <= MaxLong
<1>1. ASSUME NEW text \in Seq(DOMAIN CodeOf)
      PROVE  text \in Seq(Byte) /\ DOMAIN text = 1..Len(text)
  <2>1. DOMAIN CodeOf \subseteq Byte
    BY DEF Byte
  <2> HIDE DEF CodeOf
  <2> QED  BY <2>1, SeqMonotonic, LenProperties
<1>2. CASE v = NilValue
  BY <1>2 DEF NilValue
<1>3. CASE /\ v.type \in {"simple_string", "error"}
           /\ v = [type |-> v.type, text |-> v.text]
           /\ v.text \in Seq(DOMAIN CodeOf)
           /\ \A i \in DOMAIN v.text : v.text[i] # "CR"
  <2>1. v.text \in Seq(Byte) /\ \A k \in 1..Len(v.text) : v.text[k] # "CR"
    BY <1>1, <1>3
  <2> QED  BY <1>3, <2>1 DEF SimpleStringValue, ErrorValue
<1>4. CASE v.type = "integer" /\ v = IntegerValue(v.number) /\ v.number \in Long
  BY <1>4
<1>5. CASE /\ v.type = "bulk_string" /\ v = BulkStringValue(v.text)
           /\ v.text \in Seq(DOMAIN CodeOf) /\ Len(v.text) <= MaxLong
  BY <1>1, <1>5
<1>6. CASE v.type = "array" /\ v = ArrayValue(v.items) /\ Len(v.items) <= MaxLong
  BY <1>6, ItemsAssumption
<1> QED  BY <1>2, <1>3, <1>4, <1>5, <1>6, RepliesAssumption

LEMMA ElementsBytes ==
    ASSUME NEW v \in Values, v.items \in Seq(Values), NEW bytes \in [Values -> Seq(Byte)]
    PROVE  /\ Elements(v, bytes) \in Seq(Seq(Byte))
           /\ Len(v.items) \in Nat /\ DOMAIN v.items = 1..Len(v.items)
           /\ \A i \in 1..Len(v.items) : /\ v.items[i] \in Values
                                         /\ Elements(v, bytes)[i] = bytes[v.items[i]]
<1> DEFINE n == Len(v.items)
<1>1. n \in Nat /\ DOMAIN v.items = 1..n
  BY LenProperties
<1>2. \A i \in 1..n : v.items[i] \in Values
  BY ElementOfSeq
<1>3. Elements(v, bytes) = [i \in 1..n |-> bytes[v.items[i]]]
  BY <1>1 DEF Elements
<1> HIDE DEF n
<1>4. [i \in 1..n |-> bytes[v.items[i]]] \in [1..n -> Seq(Byte)]
  BY <1>2
<1>5. Elements(v, bytes) \in Seq(Seq(Byte))
  <2>1. Elements(v, bytes) \in [1..n -> Seq(Byte)]
    BY <1>3, <1>4
  <2>2. n \in Nat
    BY <1>1
  <2> QED  BY <2>1, <2>2, SeqDef
<1>6. \A i \in 1..n : Elements(v, bytes)[i] = bytes[v.items[i]]
  BY <1>3
<1> QED  BY <1>1, <1>2, <1>5, <1>6 DEF n

LEMMA ElementsMany ==
    ASSUME NEW v \in Values, v.items \in Seq(Values), NEW bytes \in [Values -> Seq(Byte)]
    PROVE  Len(Elements(v, bytes)) = Len(v.items)
<1>1. Len(v.items) \in Nat /\ DOMAIN v.items = 1..Len(v.items)
  BY LenProperties
<1>2. Elements(v, bytes) \in Seq(Seq(Byte))
  BY ElementsBytes
<1>3. Len(Elements(v, bytes)) \in Nat
      /\ DOMAIN Elements(v, bytes) = 1..Len(Elements(v, bytes))
  BY <1>2, LenProperties
<1>4. DOMAIN Elements(v, bytes) = 1..Len(v.items)
  BY <1>1 DEF Elements
<1> HIDE DEF Elements
<1> QED  BY <1>1, <1>3, <1>4

\* The same by the type of the value
LEMMA BytesBy ==
    ASSUME NEW v \in Values, NEW bytes \in [Values -> Seq(Byte)]
    PROVE  /\ v.type = "nil" => BytesOne(v, bytes) = LineOf("$", <<"-", "1">>)
           /\ v.type = "simple_string" => BytesOne(v, bytes) = LineOf("+", v.text)
           /\ v.type = "error" => BytesOne(v, bytes) = LineOf("-", v.text)
           /\ v.type = "integer" => BytesOne(v, bytes) = LineOf(":", Decimal(v.number))
           /\ v.type = "bulk_string" => BytesOne(v, bytes) = BulkBytes(v.text)
           /\ v.type = "array" => BytesOne(v, bytes) = ArrayBytes(Elements(v, bytes))
<1>1. ASSUME v.type = "nil"
      PROVE  BytesOne(v, bytes) = LineOf("$", <<"-", "1">>)
  BY <1>1 DEF BytesOne
<1>2. ASSUME v.type = "simple_string"
      PROVE  BytesOne(v, bytes) = LineOf("+", v.text)
  BY <1>2 DEF BytesOne
<1>3. ASSUME v.type = "error"
      PROVE  BytesOne(v, bytes) = LineOf("-", v.text)
  BY <1>3 DEF BytesOne
<1>4. ASSUME v.type = "integer"
      PROVE  BytesOne(v, bytes) = LineOf(":", Decimal(v.number))
  BY <1>4 DEF BytesOne
<1>5. ASSUME v.type = "bulk_string"
      PROVE  BytesOne(v, bytes) = BulkBytes(v.text)
  BY <1>5 DEF BytesOne, BulkBytes
<1>6. ASSUME v.type = "array"
      PROVE  BytesOne(v, bytes) = ArrayBytes(Elements(v, bytes))
  <2>1. v.items \in Seq(Values)
    BY <1>6, ItemsAssumption
  <2>2. Len(Elements(v, bytes)) = Len(v.items)
    BY <2>1, ElementsMany
  <2>3. BytesOne(v, bytes) = LineOf("*", Decimal(Len(v.items))) \o
                                FlattenSeq(Elements(v, bytes))
    BY <1>6 DEF BytesOne
  <2>4. ArrayBytes(Elements(v, bytes)) = LineOf("*", Decimal(Len(Elements(v, bytes)))) \o
                                FlattenSeq(Elements(v, bytes))
    BY DEF ArrayBytes
  <2> QED  BY <2>2, <2>3, <2>4
<1> QED  BY <1>1, <1>2, <1>3, <1>4, <1>5, <1>6

LEMMA BytesTyped ==
    ASSUME NEW v \in Values, NEW bytes \in [Values -> Seq(Byte)]
    PROVE  BytesOne(v, bytes) \in Seq(Byte) /\ Len(BytesOne(v, bytes)) # 0
<1>1. /\ "+" \in Byte /\ "-" \in Byte /\ ":" \in Byte /\ "$" \in Byte
      /\ <<"-", "1">> \in Seq(Byte)
  <2>1. "1" \in DigitSet
    BY DEF DigitSet, Digits
  <2>2. "+" \in Byte /\ "-" \in Byte /\ ":" \in Byte /\ "$" \in Byte /\ "1" \in Byte
    BY <2>1 DEF Byte
  <2> QED  BY <2>2
<1>2. CASE v.type = "nil"
  BY <1>1, <1>2, BytesBy, LineBytes
<1>3. CASE v.type = "simple_string" \/ v.type = "error"
  <2>1. v.text \in Seq(Byte)
    BY <1>3, Replies
  <2> QED  BY <1>1, <1>3, <2>1, BytesBy, LineBytes
<1>4. CASE v.type = "integer"
  <2>1. v.number \in Int
    BY <1>4, Replies, WidthsAssumption DEF Long
  <2>2. Decimal(v.number) \in Seq(Byte)
    BY <2>1, DecimalBytes
  <2> QED  BY <1>1, <1>4, <2>2, BytesBy, LineBytes
<1>5. CASE v.type = "bulk_string"
  <2>1. v.text \in Seq(Byte)
    BY <1>5, Replies
  <2> QED  BY <1>5, <2>1, BytesBy, BulkTyped
<1>6. CASE v.type = "array"
  <2>1. Elements(v, bytes) \in Seq(Seq(Byte))
    BY <1>6, ItemsAssumption, ElementsBytes
  <2> QED  BY <1>6, <2>1, BytesBy, ArrayTyped
<1> QED  BY <1>2, <1>3, <1>4, <1>5, <1>6, Replies

\* The recursion of Bytes goes down the nesting, so it is a function
LEMMA BytesAre ==
    ASSUME FiniteNesting
    PROVE  /\ Bytes \in [Values -> Seq(Byte)]
           /\ \A v \in Values : Bytes[v] = BytesOne(v, Bytes)
<1>1. PICK depth \in [Values -> Nat] : \A v \in Values :
         v.type = "array" => \A i \in DOMAIN v.items : depth[v.items[i]] < depth[v]
  BY DEF FiniteNesting
<1>0. \A v \in Values : v.type = "array" => \A i \in DOMAIN v.items : v.items[i] \in Values
  BY ItemsAssumption, LenProperties, ElementOfSeq
<1> DEFINE Unfold == [g \in [Values -> Seq(Byte)] |-> [v \in Values |-> BytesOne(v, g)]]
           first == [v \in Values |-> <<>>]
<1>2. Unfold \in [[Values -> Seq(Byte)] -> [Values -> Seq(Byte)]]
  BY BytesTyped
<1>3. first \in [Values -> Seq(Byte)]
  BY EmptySeq
<1>4. ASSUME NEW f \in [Values -> Seq(Byte)], NEW g \in [Values -> Seq(Byte)],
             NEW v \in Values, \A w \in Values : depth[w] < depth[v] => f[w] = g[w]
      PROVE  Unfold[f][v] = Unfold[g][v]
  <2>1. v.type = "array" => \A i \in DOMAIN v.items : f[v.items[i]] = g[v.items[i]]
    BY <1>0, <1>1, <1>4
  <2> QED  BY <2>1, BytesSame
<1> HIDE DEF Unfold, first
<1>5. Descends(Values, Seq(Byte), depth, Unfold)
  <2>1. depth \in [Values -> Nat] /\ [Values -> Seq(Byte)] # {}
    BY <1>1, <1>3
  <2> QED  BY <1>2, <1>4, <2>1 DEF Descends
<1>6. PICK g : Solution(Values, Seq(Byte), Unfold, g)
  BY <1>5, RecursionSolved
<1> DEFINE bytes[v \in Values] ==
             CASE v.type = "nil"           -> LineOf("$", <<"-", "1">>)
               [] v.type = "simple_string" -> LineOf("+", v.text)
               [] v.type = "error"         -> LineOf("-", v.text)
               [] v.type = "integer"       -> LineOf(":", Decimal(v.number))
               [] v.type = "bulk_string"   ->
                     LineOf("$", Decimal(Len(v.text))) \o v.text \o CRLF
               [] v.type = "array"         ->
                     LineOf("*", Decimal(Len(v.items))) \o
                       FlattenSeq([i \in DOMAIN v.items |-> bytes[v.items[i]]])
<1>7. g = [v \in Values |-> BytesOne(v, g)]
  BY <1>6 DEF Unfold, Solution
<1>8. bytes = [v \in Values |-> BytesOne(v, bytes)]
  BY <1>7 DEF BytesOne, Elements
<1>9. Bytes = bytes
  BY DEF Bytes
<1> HIDE DEF bytes
<1> DEFINE T == {k \in Nat : \A v \in Values : depth[v] < k => bytes[v] = g[v]}
<1>10. 0 \in T
  BY <1>1
<1>11. ASSUME NEW k \in Nat, k \in T
       PROVE  k + 1 \in T
  <2> SUFFICES ASSUME NEW v \in Values, depth[v] < k + 1
               PROVE  bytes[v] = g[v]
    OBVIOUS
  <2>1. v.type = "array" => \A i \in DOMAIN v.items : bytes[v.items[i]] = g[v.items[i]]
    BY <1>0, <1>1, <1>11
  <2>2. BytesOne(v, bytes) = BytesOne(v, g)
    BY <2>1, BytesSame
  <2> QED  BY <1>7, <1>8, <2>2
<1> HIDE DEF T
<1>12. Nat \subseteq T
  BY <1>10, <1>11, AllNumbers
<1>13. \A v \in Values : bytes[v] = g[v]
  <2> SUFFICES ASSUME NEW v \in Values
               PROVE  bytes[v] = g[v]
    OBVIOUS
  <2>1. depth[v] + 1 \in T /\ depth[v] \in Nat /\ depth[v] < depth[v] + 1
    BY <1>1, <1>12
  <2> QED  BY <2>1 DEF T
<1>14. bytes = g
  BY <1>6, <1>8, <1>13 DEF Solution
<1> QED  BY <1>6, <1>8, <1>9, <1>14 DEF Solution

\* Every reply is read back from its bytes, errors at the top as errors
LEMMA ValuesRead ==
    ASSUME FiniteNesting, NoErrorsInArrays
    PROVE  \A v \in Values :
              /\ Bytes[v] \in Seq(Byte) /\ Len(Bytes[v]) # 0
              /\ v.type # "error" => ReadAs(Bytes[v], v)
<1>1. PICK depth \in [Values -> Nat] : \A v \in Values :
         v.type = "array" => \A i \in DOMAIN v.items : depth[v.items[i]] < depth[v]
  BY DEF FiniteNesting
<1>2. /\ Bytes \in [Values -> Seq(Byte)]
      /\ \A v \in Values : Bytes[v] = BytesOne(v, Bytes)
  BY BytesAre
<1>3. \A v \in Values : Bytes[v] \in Seq(Byte) /\ Len(Bytes[v]) # 0
  BY <1>2, BytesTyped
<1> DEFINE T == {k \in Nat : \A v \in Values : depth[v] < k /\ v.type # "error" =>
                                ReadAs(Bytes[v], v)}
<1>4. 0 \in T
  BY <1>1
<1>5. ASSUME NEW k \in Nat, k \in T
      PROVE  k + 1 \in T
  <2> SUFFICES ASSUME NEW v \in Values, depth[v] < k + 1, v.type # "error"
               PROVE  ReadAs(Bytes[v], v)
    OBVIOUS
  <2>1. CASE v.type = "nil"
    <3>1. v = NilValue
      BY <2>1, Replies
    <3> QED  BY <1>2, <2>1, <3>1, BytesBy, NilRead
  <2>2. CASE v.type = "simple_string"
    <3>1. v = SimpleStringValue(v.text) /\ v.text \in Seq(Byte)
          /\ \A j \in 1..Len(v.text) : v.text[j] # "CR"
      BY <2>2, Replies
    <3>2. Bytes[v] = LineOf("+", v.text)
      BY <1>2, <2>2, BytesBy
    <3>3. ReadAs(LineOf("+", v.text), SimpleStringValue(v.text))
      BY <3>1, SimpleStringRead
    <3> QED  BY <3>1, <3>2, <3>3
  <2>3. CASE v.type = "integer"
    <3>1. v = IntegerValue(v.number) /\ v.number \in Long
      BY <2>3, Replies
    <3>2. Bytes[v] = LineOf(":", Decimal(v.number))
      BY <1>2, <2>3, BytesBy
    <3>3. ReadAs(LineOf(":", Decimal(v.number)), IntegerValue(v.number))
      BY <3>1, IntegerRead
    <3> QED  BY <3>1, <3>2, <3>3
  <2>4. CASE v.type = "bulk_string"
    <3>1. v = BulkStringValue(v.text) /\ v.text \in Seq(Byte) /\ Len(v.text) <= MaxLong
      BY <2>4, Replies
    <3>2. Bytes[v] = BulkBytes(v.text)
      BY <1>2, <2>4, BytesBy
    <3>3. ReadAs(BulkBytes(v.text), BulkStringValue(v.text))
      BY <3>1, BulkStringRead
    <3> QED  BY <3>1, <3>2, <3>3
  <2>5. CASE v.type = "array"
    <3> DEFINE ss == Elements(v, Bytes)
               vs == v.items
    <3>1. v = ArrayValue(vs) /\ vs \in Seq(Values) /\ Len(vs) <= MaxLong
      BY <2>5, Replies
    <3>2. Bytes[v] = ArrayBytes(ss)
      BY <1>2, <2>5, BytesBy
    <3>3. /\ ss \in Seq(Seq(Byte)) /\ DOMAIN vs = 1..Len(vs)
          /\ \A i \in 1..Len(vs) : vs[i] \in Values /\ ss[i] = Bytes[vs[i]]
      BY <1>2, <3>1, ElementsBytes
    <3>4. Len(ss) = Len(vs)
      BY <1>2, <3>1, ElementsMany
    <3> HIDE DEF ss
    <3>5. ASSUME NEW j \in 1..Len(ss)
          PROVE  Len(ss[j]) # 0 /\ ReadAs(ss[j], vs[j])
      <4>1. vs[j] \in Values /\ ss[j] = Bytes[vs[j]] /\ j \in DOMAIN vs
        BY <3>3, <3>4
      <4>2. depth[vs[j]] < k /\ depth[vs[j]] \in Nat
        BY <1>1, <2>5, <4>1
      <4>3. vs[j].type # "error"
        BY <2>5, <4>1 DEF NoErrorsInArrays
      <4>4. ReadAs(Bytes[vs[j]], vs[j])
        BY <1>5, <4>1, <4>2, <4>3
      <4> QED  BY <1>3, <4>1, <4>4
    <3>6. Len(ss) <= MaxLong
      BY <3>1, <3>4
    <3> HIDE DEF vs
    <3>7. ReadAs(ArrayBytes(ss), ArrayValue(vs))
      BY <3>1, <3>3, <3>4, <3>5, <3>6, ArrayRead
    <3> QED  BY <3>1, <3>2, <3>7
  <2> QED  BY <2>1, <2>2, <2>3, <2>4, <2>5, Replies
<1> HIDE DEF T
<1>6. Nat \subseteq T
  BY <1>4, <1>5, AllNumbers
<1>7. ASSUME NEW v \in Values, v.type # "error"
      PROVE  ReadAs(Bytes[v], v)
  <2>1. depth[v] + 1 \in T /\ depth[v] \in Nat /\ depth[v] < depth[v] + 1
    BY <1>1, <1>6
  <2> QED  BY <1>7, <2>1 DEF T
<1> QED  BY <1>3, <1>7

\* and so it is what load_data returns
LEMMA ValuesReturned ==
    ASSUME FiniteNesting, NoErrorsInArrays, NEW v \in Values, NEW b, NEW i,
           Holds(b, i, Bytes[v])
    PROVE  LET response == ParseReply(b, i)
           IN  /\ [value |-> response.value, error |-> response.error] = Returned(v)
               /\ response.next = i + Len(Bytes[v])
               /\ response.error # "throws"
<1> DEFINE response == ParseReply(b, i)
<1>1. CASE v.type = "error"
  <2>1. v = ErrorValue(v.text) /\ v.text \in Seq(Byte)
        /\ \A j \in 1..Len(v.text) : v.text[j] # "CR"
    BY <1>1, Replies
  <2>2. Bytes[v] = LineOf("-", v.text)
    BY <1>1, BytesAre, BytesBy
  <2>3. Holds(b, i, LineOf("-", v.text))
    BY <2>2
  <2>4. response = Response(ErrorValue(v.text), "error", i + Len(LineOf("-", v.text)))
    BY <2>1, <2>3, ErrorRead
  <2>5. response.value = v /\ response.error = "error" /\ response.next = i + Len(Bytes[v])
    BY <2>1, <2>2, <2>4 DEF Response
  <2> HIDE DEF response
  <2>6. [value |-> response.value, error |-> response.error] = Returned(v)
    BY <1>1, <2>5 DEF Returned
  <2> QED  BY <2>5, <2>6 DEF response
<1>2. CASE v.type # "error"
  <2>1. ReadAs(Bytes[v], v)
    BY <1>2, ValuesRead
  <2>2. response = Success(v, i + Len(Bytes[v]))
    BY <2>1 DEF ReadAs
  <2>3. response.value = v /\ response.error = "none" /\ response.next = i + Len(Bytes[v])
    BY <2>2 DEF Response, Success
  <2> HIDE DEF response
  <2>4. [value |-> response.value, error |-> response.error] = Returned(v)
    BY <1>2, <2>3 DEF Returned
  <2> QED  BY <2>3, <2>4 DEF response
<1> QED  BY <1>1, <1>2

-----------------------------------------------------------------------------
(* The loop over the bytes of several replies.                             *)

Pieces == [i \in DOMAIN sent |-> Bytes[sent[i]]]
Expected == [i \in DOMAIN sent |-> Returned(sent[i])]
Arrived == sent # <<>> /\ buffer = BytesOf(sent)

\* The first k of them are returned, and the bytes of just these consumed
Passed(k, f) ==
    /\ sent \in Seq(Values) /\ k \in 0..Len(sent)
    /\ replies = SubSeq(Expected, 1, k)
    /\ Flat(Pieces, Len(Pieces), f) /\ it = 1 + Len(f[k])
    /\ thrown = FALSE
Passing == Arrived => \E k, f : Passed(k, f)

LEMMA PiecesAre ==
    ASSUME FiniteNesting, NoErrorsInArrays, sent \in Seq(Values)
    PROVE  /\ Pieces \in Seq(Seq(Byte)) /\ Len(sent) \in Nat /\ DOMAIN sent = 1..Len(sent)
           /\ \A i \in 1..Len(sent) :
                 /\ sent[i] \in Values /\ Pieces[i] = Bytes[sent[i]] /\ Len(Pieces[i]) # 0
                 /\ Expected[i] = Returned(sent[i])
           /\ Expected \in Seq({Returned(v) : v \in Values})
<1>1. /\ Len(sent) \in Nat /\ DOMAIN sent = 1..Len(sent)
      /\ \A i \in 1..Len(sent) : sent[i] \in Values
  BY LenProperties, ElementOfSeq
<1>2. \A i \in 1..Len(sent) : Bytes[sent[i]] \in Seq(Byte) /\ Len(Bytes[sent[i]]) # 0
  BY <1>1, ValuesRead
<1>3. \A i \in DOMAIN sent : Pieces[i] \in Seq(Byte)
  BY <1>1, <1>2 DEF Pieces
<1>4. Pieces = [i \in DOMAIN sent |-> Pieces[i]]
  BY DEF Pieces
<1>5. Pieces \in Seq(Seq(Byte))
  <2> HIDE DEF Pieces
  <2> QED  BY <1>3, <1>4, MappedIs
<1>6. \A i \in DOMAIN sent : Expected[i] \in {Returned(v) : v \in Values}
  BY <1>1 DEF Expected
<1>7. Expected = [i \in DOMAIN sent |-> Expected[i]]
  BY DEF Expected
<1>8. Expected \in Seq({Returned(v) : v \in Values})
  BY <1>6, <1>7, MappedIs
<1>9. \A i \in 1..Len(sent) : /\ Pieces[i] = Bytes[sent[i]] /\ Len(Pieces[i]) # 0
                              /\ Expected[i] = Returned(sent[i])
  BY <1>1, <1>2 DEF Pieces, Expected
<1> QED  BY <1>1, <1>5, <1>8, <1>9

LEMMA PiecesMany ==
    ASSUME sent \in Seq(Values)
    PROVE  Len(Pieces) = Len(sent) /\ Len(Expected) = Len(sent)
<1>1. Pieces = [i \in DOMAIN sent |-> Pieces[i]] /\ Expected = [i \in DOMAIN sent |-> Expected[i]]
  BY DEF Pieces, Expected
<1>2. Len(Pieces) = Len(sent)
  BY <1>1, MappedMany
<1>3. Len(Expected) = Len(sent)
  BY <1>1, MappedMany
<1> QED  BY <1>2, <1>3

\* As long as there are more, the next one begins at the iterator
LEMMA NextPiece ==
    ASSUME FiniteNesting, NoErrorsInArrays, Arrived, NEW k, NEW f, Passed(k, f)
    PROVE  /\ k = Len(sent) => it = End(buffer)
           /\ k < Len(sent) => /\ Holds(buffer, it, Bytes[sent[k + 1]])
                               /\ it # End(buffer)
                               /\ it + Len(Bytes[sent[k + 1]]) = 1 + Len(f[k + 1])
<1> DEFINE n == Len(sent)
<1>1. /\ sent \in Seq(Values) /\ k \in 0..n /\ Flat(Pieces, n, f) /\ it = 1 + Len(f[k])
      /\ Len(Pieces) = n
  BY PiecesMany DEF Passed
<1>2. /\ Pieces \in Seq(Seq(Byte)) /\ n \in Nat
      /\ \A i \in 1..n : Pieces[i] = Bytes[sent[i]] /\ Len(Pieces[i]) # 0
  BY <1>1, PiecesAre
<1>3. buffer = FlattenSeq(Pieces)
  BY DEF Arrived, BytesOf, Pieces
<1>4. FlattenSeq(Pieces) = f[n] /\ FlattenSeq(Pieces) \in Seq(Byte)
  BY <1>1, <1>2, FlatLast
<1>5. Len(buffer) \in Nat /\ buffer \in Seq(Byte)
  BY <1>3, <1>4, LenProperties
<1>6. Holds(buffer, 1, FlattenSeq(Pieces))
  <2>1. \A j \in 1..Len(buffer) : 1 + j - 1 = j
    OBVIOUS
  <2>2. 1 + Len(buffer) <= End(buffer)
    BY <1>5 DEF End
  <2> HIDE DEF n
  <2> QED  BY <1>3, <1>5, <2>1, <2>2 DEF Holds
<1>7. ASSUME k = n
      PROVE  it = End(buffer)
  <2>1. Len(f[k]) = Len(buffer)
    BY <1>3, <1>4, <1>7
  <2> QED  BY <1>1, <1>5, <2>1 DEF End
<1>8. ASSUME k < n
      PROVE  /\ Holds(buffer, it, Bytes[sent[k + 1]])
             /\ it # End(buffer)
             /\ it + Len(Bytes[sent[k + 1]]) = 1 + Len(f[k + 1])
  <2> DEFINE m == k + 1
  <2>1. m \in 1..n /\ m - 1 = k
    BY <1>1, <1>2, <1>8
  <2> HIDE DEF m
  <2>2. /\ Holds(buffer, 1 + Len(f[m - 1]), Pieces[m])
        /\ Len(f[m]) = Len(f[m - 1]) + Len(Pieces[m])
        /\ Len(f[m - 1]) \in Nat /\ Len(Pieces[m]) \in Nat
    <3>1. \A j \in 1..Len(Pieces) :
             /\ Holds(buffer, 1 + Len(f[j - 1]), Pieces[j])
             /\ Len(f[j]) = Len(f[j - 1]) + Len(Pieces[j])
             /\ Len(f[j - 1]) \in Nat /\ Len(Pieces[j]) \in Nat
      <4>1. Flat(Pieces, Len(Pieces), f)
        BY <1>1
      <4> QED  BY <1>2, <1>6, <4>1, HoldsEach
    <3> QED  BY <1>1, <2>1, <3>1
  <2>3. Holds(buffer, it, Pieces[m]) /\ it \in Nat
    BY <1>1, <2>1, <2>2
  <2>4. it + Len(Pieces[m]) = 1 + Len(f[m])
    <3>1. \A x, y \in Nat : (1 + x) + y = 1 + (x + y)
      OBVIOUS
    <3>2. it = 1 + Len(f[m - 1])
      BY <1>1, <2>1
    <3> QED  BY <2>2, <3>1, <3>2
  <2>5. it + Len(Pieces[m]) <= End(buffer)
    BY <2>3 DEF Holds
  <2>6. Pieces[m] = Bytes[sent[m]] /\ Len(Pieces[m]) # 0
    BY <1>2, <2>1
  <2>7. it # End(buffer)
    BY <2>2, <2>3, <2>5, <2>6
  <2> QED  BY <2>3, <2>4, <2>6, <2>7 DEF m
<1> QED  BY <1>7, <1>8

LEMMA InitPassing ==
    ASSUME FiniteNesting, NoErrorsInArrays
    PROVE  Init => Passing
<1> SUFFICES ASSUME Init, Arrived
             PROVE  \E k, f : Passed(k, f)
  BY DEF Passing
<1>1. sent \in Seq(Values)
  <2>1. sent \in BoundedSeq(Values, MaxSent)
    BY DEF Init, Arrived
  <2>2. PICK m \in 0..MaxSent : sent \in [1..m -> Values]
    BY <2>1 DEF BoundedSeq, SeqOf
  <2>3. m \in Nat
    BY <2>2, MaxSentAssumption
  <2> QED  BY <2>2, <2>3, SeqDef
<1>2. PICK f : Flat(Pieces, Len(Pieces), f)
  <2>1. Len(Pieces) \in Nat
    BY <1>1, PiecesAre, PiecesMany
  <2> QED  BY <2>1, FlatExists
<1>3. replies = <<>> /\ it = 1 /\ thrown = FALSE
  BY DEF Init
<1>4. SubSeq(Expected, 1, 0) = <<>>
  BY SubSeqEmpty
<1>5. it = 1 + Len(f[0])
  <2>1. f[0] = <<>>
    BY <1>2 DEF Flat
  <2>2. Len(<<>>) = 0
    OBVIOUS
  <2> QED  BY <1>3, <2>1, <2>2
<1>6. 0 \in 0..Len(sent)
  BY <1>1, LenProperties
<1>7. Passed(0, f)
  BY <1>1, <1>2, <1>3, <1>4, <1>5, <1>6 DEF Passed
<1> QED  BY <1>7

LEMMA StepPassing ==
    ASSUME FiniteNesting, NoErrorsInArrays
    PROVE  Passing /\ [Next]_vars => Passing'
<1> SUFFICES ASSUME Passing, [Next]_vars, Arrived'
             PROVE  \E k, f : Passed(k, f)'
  BY DEF Passing
<1>1. CASE UNCHANGED vars
  BY <1>1 DEF vars, Passing, Arrived, Passed, Pieces, Expected
<1>2. CASE LoadData
  <2> DEFINE response == ParseReply(buffer, it)
             reply == [value |-> response.value, error |-> response.error]
  <2>1. /\ it # End(buffer) /\ thrown' = (response.error = "throws")
        /\ it' = response.next /\ replies' = Append(replies, reply)
        /\ buffer' = buffer /\ sent' = sent
    BY <1>2 DEF LoadData
  <2>2. Arrived
    BY <2>1 DEF Arrived
  <2>3. PICK k, f : Passed(k, f)
    BY <2>2 DEF Passing
  <2>4. /\ sent \in Seq(Values) /\ k \in 0..Len(sent) /\ Len(sent) \in Nat
        /\ replies = SubSeq(Expected, 1, k) /\ Flat(Pieces, Len(Pieces), f)
    BY <2>3, LenProperties DEF Passed
  <2>5. k < Len(sent)
    <3>1. k # Len(sent)
      BY <2>1, <2>2, <2>3, NextPiece
    <3> QED  BY <2>4, <3>1
  <2> DEFINE m == k + 1
  <2>6. m \in 1..Len(sent) /\ m \in 0..Len(sent)
    BY <2>4, <2>5
  <2>7. /\ Holds(buffer, it, Bytes[sent[m]])
        /\ it + Len(Bytes[sent[m]]) = 1 + Len(f[m])
    BY <2>2, <2>3, <2>5, NextPiece
  <2>8. sent[m] \in Values /\ Expected[m] = Returned(sent[m])
    <3> HIDE DEF m
    <3> QED  BY <2>4, <2>6, PiecesAre
  <2>9. /\ reply = Returned(sent[m]) /\ response.next = it + Len(Bytes[sent[m]])
        /\ response.error # "throws"
    <3> HIDE DEF m
    <3> QED  BY <2>7, <2>8, ValuesReturned
  <2> HIDE DEF response, reply
  <2>10. Append(SubSeq(Expected, 1, k), Expected[m]) = SubSeq(Expected, 1, m)
    <3>1. Expected \in Seq({Returned(v) : v \in Values}) /\ Len(Expected) = Len(sent)
      BY <2>4, PiecesAre, PiecesMany
    <3>2. k \in Nat /\ k + 1 <= Len(Expected)
      BY <2>4, <2>5, <3>1
    <3> QED  BY <3>1, <3>2, AppendNext
  <2>11. replies' = SubSeq(Expected, 1, m)
    BY <2>1, <2>4, <2>8, <2>9, <2>10
  <2>12. it' = 1 + Len(f[m])
    BY <2>1, <2>7, <2>9
  <2>13. thrown' = FALSE
    BY <2>1, <2>9
  <2>14. Pieces' = Pieces /\ Expected' = Expected
    BY <2>1 DEF Pieces, Expected
  <2> HIDE DEF m
  <2>15. Passed(m, f)'
    BY <2>1, <2>4, <2>6, <2>11, <2>12, <2>13, <2>14 DEF Passed
  <2> QED  BY <2>15
<1> QED  BY <1>1, <1>2 DEF Next

LEMMA PassingIsSent ==
    ASSUME FiniteNesting, NoErrorsInArrays
    PROVE  Passing => RepliesAreSent
<1> SUFFICES ASSUME Passing, Arrived
             PROVE  IsPrefix(replies, Expected) /\ (Finished => replies = Expected)
  BY DEF RepliesAreSent, Arrived, Expected
<1>1. PICK k, f : Passed(k, f)
  BY DEF Passing
<1>2. /\ sent \in Seq(Values) /\ k \in 0..Len(sent) /\ Len(sent) \in Nat
      /\ replies = SubSeq(Expected, 1, k) /\ thrown = FALSE
  BY <1>1, LenProperties DEF Passed
<1>3. Expected \in Seq({Returned(v) : v \in Values}) /\ Len(Expected) = Len(sent)
  BY <1>2, PiecesAre, PiecesMany
<1>4. Len(replies) = k /\ replies \in Seq({Returned(v) : v \in Values})
  <2>1. \A i \in 1..k : Expected[i] \in {Returned(v) : v \in Values}
    BY <1>2, <1>3, ElementOfSeq
  <2>2. Len(SubSeq(Expected, 1, k)) = IF 1 <= k THEN k - 1 + 1 ELSE 0
    BY <1>2, <2>1, SubSeqProperties
  <2>3. SubSeq(Expected, 1, k) \in Seq({Returned(v) : v \in Values})
    BY <1>2, <2>1, SubSeqProperties
  <2> QED  BY <1>2, <2>2, <2>3
<1>5. IsPrefix(replies, Expected)
  <2>1. SubSeq(replies, 1, Len(replies)) = replies
    BY <1>4, SubSeqFull
  <2> QED  BY <1>2, <1>3, <1>4, <2>1 DEF IsPrefix
<1>6. ASSUME Finished
      PROVE  replies = Expected
  <2>1. it = End(buffer)
    BY <1>2, <1>6 DEF Finished
  <2>2. ~ (k < Len(sent))
    BY <1>1, <2>1, NextPiece
  <2>3. k = Len(Expected)
    BY <1>2, <1>3, <2>2
  <2>4. SubSeq(Expected, 1, Len(Expected)) = Expected
    BY <1>3, SubSeqFull
  <2> QED  BY <1>2, <2>3, <2>4
<1> QED  BY <1>5, <1>6

\* Replies that arrive in one read come back one by one, each with its value and
\* consumed exactly: any number of them, of any length and nested as deep as
\* you like, with any bytes in their strings, unless one is an array with an
\* error in it (reply.cpp:26-220, client.cpp:138-147).
THEOREM RepliesComeBack ==
    ASSUME FiniteNesting, NoErrorsInArrays
    PROVE  Spec => []RepliesAreSent
<1>1. Init => Passing
  BY InitPassing
<1>2. Passing /\ [Next]_vars => Passing'
  BY StepPassing
<1>3. Passing => RepliesAreSent
  BY PassingIsSent
<1> QED  BY <1>1, <1>2, <1>3, PTL DEF Spec

-----------------------------------------------------------------------------
(* Values without errors are ordered.                                      *)

Sound == {v \in Values : ~ HasError[v]}
ErrorIn(v, hasError) ==
    \/ v.type = "error"
    \/ v.type = "array" /\ \E i \in DOMAIN v.items : hasError[v.items[i]]

\* HasError goes down the nesting, so it is what it says
LEMMA HasErrorIs ==
    ASSUME FiniteNesting
    PROVE  \A v \in Values : HasError[v] = ErrorIn(v, HasError)
<1>1. PICK depth \in [Values -> Nat] : \A v \in Values :
         v.type = "array" => \A i \in DOMAIN v.items : depth[v.items[i]] < depth[v]
  BY DEF FiniteNesting
<1>0. \A v \in Values : v.type = "array" => \A i \in DOMAIN v.items : v.items[i] \in Values
  BY ItemsAssumption, LenProperties, ElementOfSeq
<1> DEFINE Unfold == [g \in [Values -> BOOLEAN] |-> [v \in Values |-> ErrorIn(v, g)]]
           first == [v \in Values |-> TRUE]
<1>2. Unfold \in [[Values -> BOOLEAN] -> [Values -> BOOLEAN]]
  BY DEF ErrorIn
<1>3. first \in [Values -> BOOLEAN]
  OBVIOUS
<1>4. ASSUME NEW f \in [Values -> BOOLEAN], NEW g \in [Values -> BOOLEAN],
             NEW v \in Values, \A w \in Values : depth[w] < depth[v] => f[w] = g[w]
      PROVE  Unfold[f][v] = Unfold[g][v]
  <2>1. v.type = "array" => \A i \in DOMAIN v.items : f[v.items[i]] = g[v.items[i]]
    BY <1>0, <1>1, <1>4
  <2>2. ErrorIn(v, f) = ErrorIn(v, g)
    BY <2>1 DEF ErrorIn
  <2> QED  BY <2>2
<1> HIDE DEF Unfold, first
<1>5. Descends(Values, BOOLEAN, depth, Unfold)
  <2>1. depth \in [Values -> Nat] /\ [Values -> BOOLEAN] # {}
    BY <1>1, <1>3
  <2> QED  BY <1>2, <1>4, <2>1 DEF Descends
<1>6. PICK g : Solution(Values, BOOLEAN, Unfold, g)
  BY <1>5, RecursionSolved
<1> DEFINE hasError[v \in Values] ==
             \/ v.type = "error"
             \/ v.type = "array" /\ \E i \in DOMAIN v.items : hasError[v.items[i]]
<1>7. g = [v \in Values |-> ErrorIn(v, g)]
  BY <1>6 DEF Unfold, Solution
<1>8. hasError = [v \in Values |-> ErrorIn(v, hasError)]
  BY <1>7 DEF ErrorIn
<1>9. HasError = hasError
  BY DEF HasError
<1> HIDE DEF hasError
<1> QED  BY <1>8, <1>9

\* Nothing in an array without errors is one or has one
LEMMA SoundItems ==
    ASSUME FiniteNesting, NEW v \in Sound
    PROVE  /\ v.type # "error"
           /\ v.type = "array" => v.items \in Seq(Sound)
<1>1. v \in Values /\ ~ ErrorIn(v, HasError)
  BY HasErrorIs DEF Sound
<1>2. v.type # "error"
  BY <1>1 DEF ErrorIn
<1>3. ASSUME v.type = "array"
      PROVE  v.items \in Seq(Sound)
  <2>1. v.items \in Seq(Values)
    BY <1>1, <1>3, ItemsAssumption
  <2>2. \A i \in 1..Len(v.items) : v.items[i] \in Values
    BY <2>1, ElementOfSeq
  <2>3. Len(v.items) \in Nat /\ DOMAIN v.items = 1..Len(v.items)
    BY <2>1, LenProperties
  <2>4. \A i \in 1..Len(v.items) : v.items[i] \in Sound
    BY <1>1, <1>3, <2>2, <2>3 DEF ErrorIn, Sound
  <2>5. v.items \in [1..Len(v.items) -> Values]
    BY <2>1, LenProperties
  <2>6. v.items \in [1..Len(v.items) -> Sound]
    <3> DEFINE n == Len(v.items)
               items == v.items
    <3>1. items \in [1..n -> Values] /\ \A i \in 1..n : items[i] \in Sound
      BY <2>4, <2>5
    <3> HIDE DEF n, items
    <3>2. items \in [1..n -> Sound]
      BY <3>1
    <3> QED  BY <3>2 DEF n, items
  <2> QED  BY <2>3, <2>6, SeqDef
<1> QED  BY <1>2, <1>3

\* The order of one pair, that of the elements of arrays being given
LessOne(a, b, less) ==
    IF a.type # b.type THEN {TypeRank[a.type] < TypeRank[b.type]}
    ELSE CASE a.type = "nil" -> {FALSE}
           [] a.type \in {"simple_string", "bulk_string"} -> {TextLess(a.text, b.text)}
           [] a.type = "error" -> BOOLEAN
           [] a.type = "integer" -> {a.number < b.number}
           [] a.type = "array" -> LessItems(less, a.items, b.items)

\* The same by the types of both
LEMMA OfTwoTypes ==
    ASSUME NEW a, NEW b, NEW less, a.type # b.type
    PROVE  LessOne(a, b, less) = {TypeRank[a.type] < TypeRank[b.type]}
BY DEF LessOne
LEMMA OfTwoNils ==
    ASSUME NEW a, NEW b, NEW less, a.type = "nil", b.type = "nil"
    PROVE  LessOne(a, b, less) = {FALSE}
BY DEF LessOne
LEMMA OfTwoTexts ==
    ASSUME NEW a, NEW b, NEW less,
           a.type \in {"simple_string", "bulk_string"}, b.type = a.type
    PROVE  LessOne(a, b, less) = {TextLess(a.text, b.text)}
BY DEF LessOne
LEMMA OfTwoErrors ==
    ASSUME NEW a, NEW b, NEW less, a.type = "error", b.type = "error"
    PROVE  LessOne(a, b, less) = BOOLEAN
BY DEF LessOne
LEMMA OfTwoIntegers ==
    ASSUME NEW a, NEW b, NEW less, a.type = "integer", b.type = "integer"
    PROVE  LessOne(a, b, less) = {a.number < b.number}
BY DEF LessOne
LEMMA OfTwoArrays ==
    ASSUME NEW a, NEW b, NEW less, a.type = "array", b.type = "array"
    PROVE  LessOne(a, b, less) = LessItems(less, a.items, b.items)
BY DEF LessOne

LEMMA LessOneTyped ==
    ASSUME NEW a \in Values, NEW b \in Values, NEW less
    PROVE  LessOne(a, b, less) \in SUBSET BOOLEAN
<1>1. CASE a.type # b.type
  <2>1. {TypeRank[a.type] < TypeRank[b.type]} \in SUBSET BOOLEAN
    OBVIOUS
  <2> QED  BY <1>1, <2>1, OfTwoTypes
<1>2. CASE a.type = "nil" /\ b.type = "nil"
  <2>1. {FALSE} \in SUBSET BOOLEAN
    OBVIOUS
  <2> QED  BY <1>2, <2>1, OfTwoNils
<1>3. CASE a.type \in {"simple_string", "bulk_string"} /\ b.type = a.type
  <2>1. {TextLess(a.text, b.text)} \in SUBSET BOOLEAN
    BY DEF TextLess
  <2> QED  BY <1>3, <2>1, OfTwoTexts
<1>4. CASE a.type = "error" /\ b.type = "error"
  BY <1>4, OfTwoErrors
<1>5. CASE a.type = "integer" /\ b.type = "integer"
  <2>1. {a.number < b.number} \in SUBSET BOOLEAN
    OBVIOUS
  <2> QED  BY <1>5, <2>1, OfTwoIntegers
<1>6. CASE a.type = "array" /\ b.type = "array"
  <2>1. a.items \in Seq(Values) /\ b.items \in Seq(Values)
    BY <1>6, ItemsAssumption
  <2>2. PICK from : LessSteps(less, a.items, b.items, from)
                       /\ LessItems(less, a.items, b.items) = from[1]
    BY <2>1, LessItemsIs
  <2>3. from[1] \in SUBSET BOOLEAN
    BY <2>2 DEF LessSteps
  <2> QED  BY <1>6, <2>2, <2>3, OfTwoArrays
<1> QED  BY <1>1, <1>2, <1>3, <1>4, <1>5, <1>6, Replies

\* It asks only for pairs of elements
SameItems(f, g, a, b) ==
    a.type = "array" /\ b.type = "array" =>
       \A i \in DOMAIN a.items, j \in DOMAIN b.items :
          /\ f[<<a.items[i], b.items[j]>>] = g[<<a.items[i], b.items[j]>>]
          /\ f[<<b.items[j], a.items[i]>>] = g[<<b.items[j], a.items[i]>>]

LEMMA LessOneSame ==
    ASSUME NEW a \in Values, NEW b \in Values, NEW f, NEW g, SameItems(f, g, a, b)
    PROVE  LessOne(a, b, f) = LessOne(a, b, g)
<1>1. CASE a.type = "array" /\ b.type = "array"
  <2>1. a.items \in Seq(Values) /\ b.items \in Seq(Values)
    BY <1>1, ItemsAssumption
  <2>2. /\ Len(a.items) \in Nat /\ DOMAIN a.items = 1..Len(a.items)
        /\ Len(b.items) \in Nat /\ DOMAIN b.items = 1..Len(b.items)
    BY <2>1, LenProperties
  <2>3. ASSUME NEW k \in 1..Len(b.items), k <= Len(a.items)
        PROVE  /\ f[<<a.items[k], b.items[k]>>] = g[<<a.items[k], b.items[k]>>]
               /\ f[<<b.items[k], a.items[k]>>] = g[<<b.items[k], a.items[k]>>]
    <3>1. k \in 1..Len(a.items)
      BY <2>2, <2>3
    <3> QED  BY <1>1, <2>2, <3>1 DEF SameItems
  <2>4. SameAt(f, g, a.items, b.items)
    BY <2>3 DEF SameAt
  <2>5. LessItems(f, a.items, b.items) = LessItems(g, a.items, b.items)
    BY <2>1, <2>4, LessItemsSame
  <2> QED  BY <1>1, <2>5, OfTwoArrays
<1>2. CASE a.type # b.type
  BY <1>2, OfTwoTypes
<1>3. CASE a.type = b.type /\ a.type # "array"
  BY <1>3 DEF LessOne
<1> QED  BY <1>1, <1>2, <1>3

\* The recursion of Less goes down the nesting of both
LEMMA LessIs ==
    ASSUME FiniteNesting
    PROVE  \A a, b \in Values : Less[<<a, b>>] = LessOne(a, b, Less)
<1>1. PICK depth \in [Values -> Nat] : \A v \in Values :
         v.type = "array" => \A i \in DOMAIN v.items : depth[v.items[i]] < depth[v]
  BY DEF FiniteNesting
<1>0. \A v \in Values : v.type = "array" => \A i \in DOMAIN v.items : v.items[i] \in Values
  BY ItemsAssumption, LenProperties, ElementOfSeq
<1> DEFINE D == Values \X Values
           R == SUBSET BOOLEAN
           deep == [p \in D |-> depth[p[1]] + depth[p[2]]]
           Unfold == [g \in [D -> R] |-> [p \in D |-> LessOne(p[1], p[2], g)]]
           first == [p \in D |-> {}]
<1>2. Unfold \in [[D -> R] -> [D -> R]]
  <2>1. ASSUME NEW p \in D, NEW g
        PROVE  LessOne(p[1], p[2], g) \in R
    <3>1. p[1] \in Values /\ p[2] \in Values
      OBVIOUS
    <3> HIDE DEF D, R
    <3>2. LessOne(p[1], p[2], g) \in SUBSET BOOLEAN
      BY <3>1, LessOneTyped
    <3> QED  BY <3>2 DEF R
  <2> HIDE DEF D, R
  <2> QED  BY <2>1
<1>3. first \in [D -> R]
  OBVIOUS
<1>4. deep \in [D -> Nat]
  BY <1>1
<1>5. ASSUME NEW f \in [D -> R], NEW g \in [D -> R],
             NEW p \in D, \A q \in D : deep[q] < deep[p] => f[q] = g[q]
      PROVE  Unfold[f][p] = Unfold[g][p]
  <2> DEFINE a == p[1]
             b == p[2]
  <2>1. p = <<a, b>> /\ a \in Values /\ b \in Values
    OBVIOUS
  <2>2. ASSUME a.type = "array", b.type = "array",
               NEW i \in DOMAIN a.items, NEW j \in DOMAIN b.items
        PROVE  /\ f[<<a.items[i], b.items[j]>>] = g[<<a.items[i], b.items[j]>>]
               /\ f[<<b.items[j], a.items[i]>>] = g[<<b.items[j], a.items[i]>>]
    <3> DEFINE c == a.items[i]
               d == b.items[j]
    <3>1. c \in Values /\ d \in Values /\ depth[c] < depth[a] /\ depth[d] < depth[b]
      BY <1>0, <1>1, <2>1, <2>2
    <3>2. /\ depth[a] \in Nat /\ depth[b] \in Nat /\ depth[c] \in Nat /\ depth[d] \in Nat
      BY <1>1, <2>1, <3>1
    <3>3. /\ <<c, d>> \in D /\ deep[<<c, d>>] = depth[c] + depth[d]
          /\ <<d, c>> \in D /\ deep[<<d, c>>] = depth[d] + depth[c]
          /\ deep[p] = depth[a] + depth[b]
      BY <3>1
    <3> HIDE DEF deep, a, b, c, d, D
    <3>4. deep[<<c, d>>] < deep[p] /\ deep[<<d, c>>] < deep[p]
      BY <3>1, <3>2, <3>3
    <3>5. f[<<c, d>>] = g[<<c, d>>] /\ f[<<d, c>>] = g[<<d, c>>]
      BY <1>5, <3>3, <3>4
    <3> QED  BY <3>5 DEF c, d
  <2>3. LessOne(a, b, f) = LessOne(a, b, g)
    <3> HIDE DEF a, b
    <3>1. SameItems(f, g, a, b)
      BY <2>2 DEF SameItems
    <3>2. a \in Values /\ b \in Values
      BY <2>1
    <3> HIDE DEF D, R
    <3> QED  BY <3>1, <3>2, LessOneSame
  <2> HIDE DEF D, R
  <2> QED  BY <2>3
<1> HIDE DEF Unfold, first, deep
<1>6. Descends(D, R, deep, Unfold)
  <2>1. [D -> R] # {}
    BY <1>3
  <2> HIDE DEF D, R
  <2> QED  BY <1>2, <1>4, <1>5, <2>1 DEF Descends
<1>7. PICK g : Solution(D, R, Unfold, g)
  BY <1>6, RecursionSolved
<1> DEFINE less[pair \in Values \X Values] ==
             LET a == pair[1]
                 b == pair[2]
             IN  IF a.type # b.type THEN {TypeRank[a.type] < TypeRank[b.type]}
                 ELSE CASE a.type = "nil" -> {FALSE}
                        [] a.type \in {"simple_string", "bulk_string"} ->
                              {TextLess(a.text, b.text)}
                        [] a.type = "error" -> BOOLEAN
                        [] a.type = "integer" -> {a.number < b.number}
                        [] a.type = "array" -> LessItems(less, a.items, b.items)
<1>8. g = [pair \in Values \X Values |-> LessOne(pair[1], pair[2], g)]
  BY <1>7 DEF Unfold, Solution
<1>9. less = [pair \in Values \X Values |-> LessOne(pair[1], pair[2], less)]
  BY <1>8 DEF LessOne
<1>10. Less = less
  BY DEF Less
<1> HIDE DEF less
<1>11. ASSUME NEW a \in Values, NEW b \in Values
       PROVE  less[<<a, b>>] = LessOne(a, b, less)
  <2>1. <<a, b>> \in Values \X Values
    OBVIOUS
  <2> QED  BY <1>9, <2>1
<1> QED  BY <1>10, <1>11

\* The text of a string is of the bytes in use
LEMMA TextsCoded ==
    ASSUME NEW v \in Values, v.type \in {"simple_string", "bulk_string"}
    PROVE  v.text \in Seq(DOMAIN CodeOf)
<1>1. v # NilValue
  BY DEF NilValue
<1> QED  BY <1>1, RepliesAssumption

LEMMA RanksOrdered ==
    ASSUME NEW a \in Sound, FiniteNesting
    PROVE  /\ TypeRank[a.type] \in Nat
           /\ \A b \in Sound : a.type # b.type => TypeRank[a.type] # TypeRank[b.type]
<1> DEFINE Types == {"nil", "simple_string", "integer", "bulk_string", "array"}
<1>1. ASSUME NEW v \in Sound
      PROVE  v.type \in Types
  <2>1. v \in Values /\ v.type # "error"
    BY SoundItems DEF Sound
  <2> QED  BY <2>1, Replies
<1>2. \A x \in Types : TypeRank[x] \in Nat
  BY DEF TypeRank
<1>3. \A x, y \in Types : x # y => TypeRank[x] # TypeRank[y]
  BY DEF TypeRank
<1> HIDE DEF Types
<1> QED  BY <1>1, <1>2, <1>3

\* The order of values: by type, and then by text, number or elements
IsText(v) == v.type \in {"simple_string", "bulk_string"}
Within(R, a, b) ==
    /\ a.type = b.type
    /\ \/ IsText(a) /\ TextLess(a.text, b.text)
       \/ a.type = "integer" /\ a.number < b.number
       \/ a.type = "array" /\ Lex(R, a.items, b.items)
Below(R, a, b) == TypeRank[a.type] < TypeRank[b.type] \/ Within(R, a, b)

\* Values of N that are no errors, their elements those of S
Built(N, S) ==
    /\ N \subseteq Sound
    /\ \A v \in N : v.type = "array" => v.items \in Seq(S)

LEMMA Kinds ==
    ASSUME FiniteNesting, NEW N, NEW S, Built(N, S), NEW v \in N
    PROVE  \/ v.type = "nil" /\ v = NilValue /\ ~ IsText(v)
           \/ IsText(v) /\ v.text \in Seq(DOMAIN CodeOf)
              /\ v = [type |-> v.type, text |-> v.text]
           \/ v.type = "integer" /\ v.number \in Int /\ v = IntegerValue(v.number) /\ ~ IsText(v)
           \/ v.type = "array" /\ v.items \in Seq(S) /\ v = ArrayValue(v.items) /\ ~ IsText(v)
<1>1. v \in Values /\ v.type # "error" /\ (v.type = "array" => v.items \in Seq(S))
  BY SoundItems DEF Built, Sound
<1>2. CASE v.type = "nil"
  BY <1>1, <1>2, Replies DEF IsText
<1>3. CASE IsText(v)
  <2>1. v = [type |-> v.type, text |-> v.text]
    BY <1>1, <1>3, Replies DEF IsText, SimpleStringValue, BulkStringValue
  <2> QED  BY <1>1, <1>3, <2>1, TextsCoded DEF IsText
<1>4. CASE v.type = "integer"
  <2>1. v.number \in Long /\ v = IntegerValue(v.number)
    BY <1>1, <1>4, Replies
  <2>2. v.number \in Int
    BY <2>1, WidthsAssumption DEF Long
  <2> QED  BY <1>4, <2>1, <2>2 DEF IsText
<1>5. CASE v.type = "array"
  BY <1>1, <1>5, Replies DEF IsText
<1> QED  BY <1>1, <1>2, <1>3, <1>4, <1>5, Replies DEF IsText

\* No text is less than itself, and so on
LEMMA TextsLess ==
    /\ \A s \in Seq(DOMAIN CodeOf) : ~ TextLess(s, s)
    /\ \A s, t \in Seq(DOMAIN CodeOf) : s = t \/ TextLess(s, t) \/ TextLess(t, s)
    /\ \A s, t, u \in Seq(DOMAIN CodeOf) :
          TextLess(s, t) /\ TextLess(t, u) => TextLess(s, u)
<1> DEFINE C == Seq(DOMAIN CodeOf)
           Q == {p \in C \X C : TextLess(p[1], p[2])}
<1>1. \A s, t \in C : <<s, t>> \in Q <=> TextLess(s, t)
  OBVIOUS
<1> HIDE DEF Q
<1>2. Orders(Q, C)
  BY <1>1, TextsOrdered
<1> HIDE DEF C
<1>3. \A s \in C : ~ TextLess(s, s)
  BY <1>1, <1>2 DEF Orders
<1>4. \A s, t \in C : s = t \/ TextLess(s, t) \/ TextLess(t, s)
  BY <1>1, <1>2 DEF Orders
<1>5. \A s, t, u \in C : TextLess(s, t) /\ TextLess(t, u) => TextLess(s, u)
  BY <1>1, <1>2 DEF Orders
<1> QED  BY <1>3, <1>4, <1>5 DEF C

\* Within a type they are ordered
LEMMA WithinNotSelf ==
    ASSUME FiniteNesting, NEW N, NEW S, Built(N, S), NEW R, Orders(R, S), NEW a \in N
    PROVE  ~ Within(R, a, a)
<1>1. CASE IsText(a) /\ a.text \in Seq(DOMAIN CodeOf)
  <2>1. a.type # "integer" /\ a.type # "array"
    BY <1>1 DEF IsText
  <2>2. ~ TextLess(a.text, a.text)
    BY <1>1, TextsLess
  <2> QED  BY <2>1, <2>2 DEF Within
<1>2. CASE a.type = "integer" /\ a.number \in Int /\ ~ IsText(a)
  BY <1>2 DEF Within
<1>3. CASE a.type = "array" /\ a.items \in Seq(S) /\ ~ IsText(a)
  <2>1. ~ Lex(R, a.items, a.items)
    BY <1>3, LexNotSelf
  <2> QED  BY <1>3, <2>1 DEF Within
<1>4. CASE a.type = "nil" /\ ~ IsText(a)
  BY <1>4 DEF Within
<1> QED  BY <1>1, <1>2, <1>3, <1>4, Kinds

LEMMA WithinTotal ==
    ASSUME FiniteNesting, NEW N, NEW S, Built(N, S), NEW R, Orders(R, S),
           NEW a \in N, NEW b \in N, a.type = b.type, a # b
    PROVE  Within(R, a, b) \/ Within(R, b, a)
<1>0. IsText(a) <=> IsText(b)
  BY DEF IsText
<1>1. CASE IsText(a)
  <2>1. /\ a.text \in Seq(DOMAIN CodeOf) /\ a = [type |-> a.type, text |-> a.text]
        /\ b.text \in Seq(DOMAIN CodeOf) /\ b = [type |-> b.type, text |-> b.text]
    BY <1>0, <1>1, Kinds
  <2>2. a.text # b.text
    BY <2>1
  <2>3. TextLess(a.text, b.text) \/ TextLess(b.text, a.text)
    BY <2>1, <2>2, TextsLess
  <2> QED  BY <1>0, <1>1, <2>3 DEF Within
<1>2. CASE a.type = "integer" /\ ~ IsText(a)
  <2>1. /\ a.number \in Int /\ a = IntegerValue(a.number)
        /\ b.number \in Int /\ b = IntegerValue(b.number)
    BY <1>0, <1>2, Kinds
  <2>2. a.number # b.number
    BY <2>1
  <2>3. a.number < b.number \/ b.number < a.number
    BY <2>1, <2>2
  <2> QED  BY <1>2, <2>3 DEF Within
<1>3. CASE a.type = "array" /\ ~ IsText(a)
  <2>1. /\ a.items \in Seq(S) /\ a = ArrayValue(a.items)
        /\ b.items \in Seq(S) /\ b = ArrayValue(b.items)
    BY <1>0, <1>3, Kinds
  <2>2. a.items # b.items
    BY <2>1
  <2>3. Lex(R, a.items, b.items) \/ Lex(R, b.items, a.items)
    BY <2>1, <2>2, LexTotal
  <2> QED  BY <1>3, <2>3 DEF Within
<1>4. CASE a.type = "nil" /\ ~ IsText(a)
  <2>1. a = NilValue /\ b = NilValue
    BY <1>0, <1>4, Kinds
  <2> QED  BY <2>1
<1> QED  BY <1>1, <1>2, <1>3, <1>4, Kinds

LEMMA WithinTransitive ==
    ASSUME FiniteNesting, NEW N, NEW S, Built(N, S), NEW R, Orders(R, S),
           NEW a \in N, NEW b \in N, NEW c \in N, Within(R, a, b), Within(R, b, c)
    PROVE  Within(R, a, c)
<1>0. a.type = b.type /\ b.type = c.type /\ (IsText(a) <=> IsText(b)) /\ (IsText(b) <=> IsText(c))
  BY DEF Within, IsText
<1>1. CASE IsText(a)
  <2>1. /\ a.text \in Seq(DOMAIN CodeOf) /\ b.text \in Seq(DOMAIN CodeOf)
        /\ c.text \in Seq(DOMAIN CodeOf)
    BY <1>0, <1>1, Kinds
  <2>2. TextLess(a.text, b.text) /\ TextLess(b.text, c.text)
    <3>1. a.type # "integer" /\ a.type # "array"
      BY <1>1 DEF IsText
    <3> QED  BY <1>0, <3>1 DEF Within
  <2>3. TextLess(a.text, c.text)
    BY <2>1, <2>2, TextsLess
  <2> QED  BY <1>0, <1>1, <2>3 DEF Within
<1>2. CASE a.type = "integer" /\ ~ IsText(a)
  <2>1. a.number \in Int /\ b.number \in Int /\ c.number \in Int
    BY <1>0, <1>2, Kinds
  <2>2. a.number < b.number /\ b.number < c.number
    BY <1>0, <1>2 DEF Within
  <2>3. a.number < c.number
    BY <2>1, <2>2
  <2> QED  BY <1>0, <1>2, <2>3 DEF Within
<1>3. CASE a.type = "array" /\ ~ IsText(a)
  <2>1. a.items \in Seq(S) /\ b.items \in Seq(S) /\ c.items \in Seq(S)
    BY <1>0, <1>3, Kinds
  <2>2. Lex(R, a.items, b.items) /\ Lex(R, b.items, c.items)
    BY <1>0, <1>3 DEF Within
  <2>3. Lex(R, a.items, c.items)
    BY <2>1, <2>2, LexTransitive
  <2> QED  BY <1>0, <1>3, <2>3 DEF Within
<1>4. CASE a.type = "nil" /\ ~ IsText(a)
  BY <1>4 DEF Within
<1> QED  BY <1>1, <1>2, <1>3, <1>4, Kinds

LEMMA BelowOrders ==
    ASSUME FiniteNesting, NEW N, NEW S, Built(N, S), NEW R, Orders(R, S),
           NEW Q, \A a, b \in N : <<a, b>> \in Q <=> Below(R, a, b)
    PROVE  Orders(Q, N)
<1>1. ASSUME NEW a \in N
      PROVE  TypeRank[a.type] \in Nat
  BY RanksOrdered DEF Built
<1>2. ASSUME NEW a \in N, NEW b \in N, a.type # b.type
      PROVE  TypeRank[a.type] # TypeRank[b.type]
  BY <1>2, RanksOrdered DEF Built
<1>3. ASSUME NEW a \in N
      PROVE  ~ Below(R, a, a)
  <2>1. ~ Within(R, a, a)
    BY WithinNotSelf
  <2> QED  BY <1>1, <2>1 DEF Below
<1>4. ASSUME NEW a \in N, NEW b \in N, a # b
      PROVE  Below(R, a, b) \/ Below(R, b, a)
  <2>1. CASE a.type = b.type
    <3>1. Within(R, a, b) \/ Within(R, b, a)
      BY <1>4, <2>1, WithinTotal
    <3> QED  BY <3>1 DEF Below
  <2>2. CASE a.type # b.type
    <3> DEFINE x == TypeRank[a.type]
               y == TypeRank[b.type]
    <3>1. x \in Nat /\ y \in Nat /\ x # y
      BY <1>1, <1>2, <2>2
    <3> HIDE DEF x, y
    <3>2. x < y \/ y < x
      BY <3>1
    <3> QED  BY <3>2 DEF Below, x, y
  <2> QED  BY <2>1, <2>2
<1>5. ASSUME NEW a \in N, NEW b \in N, NEW c \in N, Below(R, a, b), Below(R, b, c)
      PROVE  Below(R, a, c)
  <2>1. CASE Within(R, a, b) /\ Within(R, b, c)
    BY <2>1, WithinTransitive DEF Below
  <2>2. CASE ~ (Within(R, a, b) /\ Within(R, b, c))
    <3> DEFINE x == TypeRank[a.type]
               y == TypeRank[b.type]
               z == TypeRank[c.type]
    <3>1. x \in Nat /\ y \in Nat /\ z \in Nat
      BY <1>1
    <3>2. (x < y \/ x = y) /\ (y < z \/ y = z) /\ (x < y \/ y < z)
      BY <1>5, <2>2 DEF Below, Within
    <3> HIDE DEF x, y, z
    <3>3. x < z
      BY <3>1, <3>2
    <3> QED  BY <3>3 DEF Below, x, z
  <2> QED  BY <2>1, <2>2
<1> HIDE DEF Below
<1> QED  BY <1>3, <1>4, <1>5 DEF Orders

\* What Less answers of one pair, if it orders their elements
LEMMA LessTells ==
    ASSUME FiniteNesting, NEW N, NEW S, Built(N, S), NEW R, Orders(R, S), Tells(Less, R, S),
           NEW a \in N, NEW b \in N
    PROVE  Less[<<a, b>>] = {Below(R, a, b)}
<1>1. a \in Values /\ b \in Values /\ a \in Sound /\ b \in Sound
  BY DEF Built, Sound
<1>2. Less[<<a, b>>] = LessOne(a, b, Less)
  BY <1>1, LessIs
<1>3. TypeRank[a.type] \in Nat
  BY <1>1, RanksOrdered
<1>4. CASE a.type # b.type
  <2>1. Below(R, a, b) <=> TypeRank[a.type] < TypeRank[b.type]
    BY <1>4 DEF Below, Within
  <2>2. LessOne(a, b, Less) = {TypeRank[a.type] < TypeRank[b.type]}
    BY <1>4, OfTwoTypes
  <2>3. Below(R, a, b) \in BOOLEAN /\ (TypeRank[a.type] < TypeRank[b.type]) \in BOOLEAN
    BY DEF Below
  <2> QED  BY <1>2, <2>1, <2>2, <2>3
<1>5. a.type = b.type => (Below(R, a, b) <=> Within(R, a, b))
  BY <1>3 DEF Below
<1>6. CASE a.type = b.type /\ IsText(a)
  <2>1. a.type # "integer" /\ a.type # "array"
    BY <1>6 DEF IsText
  <2>2. Below(R, a, b) <=> TextLess(a.text, b.text)
    BY <1>5, <1>6, <2>1 DEF Within
  <2>3. LessOne(a, b, Less) = {TextLess(a.text, b.text)}
    BY <1>6, OfTwoTexts DEF IsText
  <2>4. Below(R, a, b) \in BOOLEAN /\ TextLess(a.text, b.text) \in BOOLEAN
    BY DEF Below, TextLess
  <2> QED  BY <1>2, <2>2, <2>3, <2>4
<1>7. CASE a.type = b.type /\ a.type = "integer" /\ ~ IsText(a)
  <2>1. Below(R, a, b) <=> a.number < b.number
    BY <1>5, <1>7 DEF Within
  <2>2. LessOne(a, b, Less) = {a.number < b.number}
    BY <1>7, OfTwoIntegers
  <2>3. Below(R, a, b) \in BOOLEAN /\ (a.number < b.number) \in BOOLEAN
    BY DEF Below
  <2> QED  BY <1>2, <2>1, <2>2, <2>3
<1>8. CASE a.type = b.type /\ a.type = "array" /\ ~ IsText(a)
  <2>1. Below(R, a, b) <=> Lex(R, a.items, b.items)
    BY <1>5, <1>8 DEF Within
  <2>2. a.items \in Seq(S) /\ b.items \in Seq(S)
    BY <1>8 DEF Built
  <2>3. LessItems(Less, a.items, b.items) = {Lex(R, a.items, b.items)}
    BY <2>2, LessItemsLex
  <2>4. LessOne(a, b, Less) = LessItems(Less, a.items, b.items)
    BY <1>8, OfTwoArrays
  <2>5. Below(R, a, b) \in BOOLEAN /\ Lex(R, a.items, b.items) \in BOOLEAN
    BY DEF Below, Lex
  <2> QED  BY <1>2, <2>1, <2>3, <2>4, <2>5
<1>9. CASE a.type = b.type /\ a.type = "nil" /\ ~ IsText(a)
  <2>1. Below(R, a, b) = FALSE
    <3>1. ~ Within(R, a, b) /\ Below(R, a, b) \in BOOLEAN
      BY <1>9 DEF Within, Below
    <3> QED  BY <1>5, <1>9, <3>1
  <2>2. LessOne(a, b, Less) = {FALSE}
    BY <1>9, OfTwoNils
  <2> QED  BY <1>2, <2>1, <2>2
<1> QED  BY <1>4, <1>6, <1>7, <1>8, <1>9, Kinds

\* By the depth of their nesting
LEMMA SoundOrdered ==
    ASSUME FiniteNesting
    PROVE  \E R : Orders(R, Sound) /\ Tells(Less, R, Sound)
<1>1. PICK depth \in [Values -> Nat] : \A v \in Values :
         v.type = "array" => \A i \in DOMAIN v.items : depth[v.items[i]] < depth[v]
  BY DEF FiniteNesting
<1> DEFINE R == {p \in Values \X Values : Less[p] = {TRUE}}
           Shallow(k) == {v \in Sound : depth[v] < k}
           T == {k \in Nat : Orders(R, Shallow(k)) /\ Tells(Less, R, Shallow(k))}
<1>2. ASSUME NEW v \in Sound
      PROVE  v \in Values /\ depth[v] \in Nat
  BY <1>1 DEF Sound
<1>3. ASSUME NEW a \in Values, NEW b \in Values
      PROVE  <<a, b>> \in R <=> Less[<<a, b>>] = {TRUE}
  BY <1>3
<1> HIDE DEF R
<1>4. 0 \in T
  <2>1. Shallow(0) = {}
    BY <1>2
  <2> HIDE DEF Shallow
  <2> QED  BY <2>1 DEF Orders, Tells
<1>5. ASSUME NEW k \in Nat, k \in T
      PROVE  k + 1 \in T
  <2> DEFINE S == Shallow(k)
             N == Shallow(k + 1)
  <2>1. Orders(R, S) /\ Tells(Less, R, S)
    BY <1>5
  <2>2. ASSUME NEW v \in N, v.type = "array"
        PROVE  v.items \in Seq(S)
    <3> DEFINE items == v.items
               n == Len(items)
    <3>1. v \in Sound /\ depth[v] < k + 1
      OBVIOUS
    <3>2. items \in Seq(Sound)
      BY <2>2, <3>1, SoundItems
    <3>3. n \in Nat /\ DOMAIN items = 1..n
      BY <3>2, LenProperties
    <3>4. \A i \in 1..n : items[i] \in Sound
      BY <3>2, ElementOfSeq
    <3>5. \A i \in 1..n : depth[items[i]] < depth[v]
      BY <1>1, <1>2, <2>2, <3>1, <3>3
    <3>6. \A i \in 1..n : items[i] \in S
      <4> HIDE DEF n, items
      <4> QED  BY <1>2, <3>1, <3>4, <3>5
    <3>7. items \in [1..n -> Sound]
      BY <3>2, LenProperties
    <3>8. items \in [1..n -> S]
      <4> HIDE DEF n, items, S
      <4> QED  BY <3>6, <3>7
    <3> HIDE DEF S
    <3>9. items \in Seq(S)
      BY <3>3, <3>8, SeqDef
    <3> QED  BY <3>9
  <2>3. Built(N, S)
    <3>1. N \subseteq Sound
      OBVIOUS
    <3> HIDE DEF N, S
    <3> QED  BY <2>2, <3>1 DEF Built
  <2>4. N \subseteq Values
    BY <1>2
  <2> HIDE DEF N, S
  <2>5. ASSUME NEW a \in N, NEW b \in N
        PROVE  Less[<<a, b>>] = {Below(R, a, b)} /\ (<<a, b>> \in R <=> Below(R, a, b))
    <3>1. Less[<<a, b>>] = {Below(R, a, b)}
      BY <2>1, <2>3, LessTells
    <3>2. Below(R, a, b) \in BOOLEAN
      BY DEF Below
    <3>3. <<a, b>> \in R <=> Less[<<a, b>>] = {TRUE}
      BY <1>3, <2>4
    <3> QED  BY <3>1, <3>2, <3>3
  <2>6. \A a, b \in N : <<a, b>> \in R <=> Below(R, a, b)
    BY <2>5
  <2>7. Orders(R, N)
    BY <2>1, <2>3, <2>6, BelowOrders
  <2>8. ASSUME NEW a \in N, NEW b \in N
        PROVE  Less[<<a, b>>] = {(<<a, b>> \in R)}
    <3>1. (<<a, b>> \in R) = Below(R, a, b)
      <4>1. Below(R, a, b) \in BOOLEAN
        BY DEF Below
      <4> QED  BY <2>5, <4>1
    <3> QED  BY <2>5, <3>1
  <2>9. Tells(Less, R, N)
    BY <2>8 DEF Tells
  <2> QED  BY <2>7, <2>9 DEF N
<1>6. Nat \subseteq T
  <2> HIDE DEF T
  <2> QED  BY <1>4, <1>5, AllNumbers
<1>7. ASSUME NEW a \in Sound, NEW b \in Sound, NEW c \in Sound
      PROVE  \E k \in T : a \in Shallow(k) /\ b \in Shallow(k) /\ c \in Shallow(k)
  <2> DEFINE k == depth[a] + depth[b] + depth[c] + 1
  <2>1. depth[a] \in Nat /\ depth[b] \in Nat /\ depth[c] \in Nat
    BY <1>2
  <2>2. k \in Nat /\ depth[a] < k /\ depth[b] < k /\ depth[c] < k
    BY <2>1
  <2> HIDE DEF k, T
  <2>3. k \in T
    BY <1>6, <2>2
  <2>4. a \in Shallow(k) /\ b \in Shallow(k) /\ c \in Shallow(k)
    BY <2>2
  <2> QED  BY <2>3, <2>4
<1> HIDE DEF Shallow
<1>8. Orders(R, Sound)
  <2>1. ASSUME NEW a \in Sound
        PROVE  <<a, a>> \notin R
    BY <1>7 DEF Orders
  <2>2. ASSUME NEW a \in Sound, NEW b \in Sound
        PROVE  a = b \/ <<a, b>> \in R \/ <<b, a>> \in R
    BY <1>7 DEF Orders
  <2>3. ASSUME NEW a \in Sound, NEW b \in Sound, NEW c \in Sound,
               <<a, b>> \in R, <<b, c>> \in R
        PROVE  <<a, c>> \in R
    BY <1>7, <2>3 DEF Orders
  <2> HIDE DEF T
  <2> QED  BY <2>1, <2>2, <2>3 DEF Orders
<1>9. Tells(Less, R, Sound)
  <2>1. ASSUME NEW a \in Sound, NEW b \in Sound
        PROVE  Less[<<a, b>>] = {(<<a, b>> \in R)}
    BY <1>7 DEF Tells
  <2> HIDE DEF T
  <2> QED  BY <2>1 DEF Tells
<1> QED  BY <1>8, <1>9

\* The ordering of values without errors is one, however deep they are nested
\* (value.cpp:99-130): it is strict and total and one answer to every question.
THEOREM ValuesAreOrdered ==
    ASSUME FiniteNesting
    PROVE  Spec => []Ordered
<1>1. PICK R : Orders(R, Sound) /\ Tells(Less, R, Sound)
  BY SoundOrdered
<1>2. Ordered
  <2>1. ASSUME NEW a \in Sound, NEW b \in Sound
        PROVE  Less[<<a, b>>] = {(<<a, b>> \in R)}
    BY <1>1 DEF Tells
  <2>2. ASSUME NEW a \in Sound
        PROVE  Less[<<a, a>>] = {FALSE}
    <3>1. (<<a, a>> \in R) = FALSE
      BY <1>1 DEF Orders
    <3> QED  BY <2>1, <3>1
  <2>3. ASSUME NEW a \in Sound, NEW b \in Sound, a # b
        PROVE  {Less[<<a, b>>], Less[<<b, a>>]} = {{TRUE}, {FALSE}}
    <3>1. <<a, b>> \in R \/ <<b, a>> \in R
      BY <1>1, <2>3 DEF Orders
    <3>2. ~ (<<a, b>> \in R /\ <<b, a>> \in R)
      BY <1>1 DEF Orders
    <3>3. CASE <<a, b>> \in R
      <4>1. (<<a, b>> \in R) = TRUE /\ (<<b, a>> \in R) = FALSE
        BY <3>2, <3>3
      <4>2. Less[<<a, b>>] = {TRUE} /\ Less[<<b, a>>] = {FALSE}
        BY <2>1, <4>1
      <4> QED  BY <4>2
    <3>4. CASE <<b, a>> \in R
      <4>1. (<<a, b>> \in R) = FALSE /\ (<<b, a>> \in R) = TRUE
        BY <3>2, <3>4
      <4>2. Less[<<a, b>>] = {FALSE} /\ Less[<<b, a>>] = {TRUE}
        BY <2>1, <4>1
      <4>3. {{FALSE}, {TRUE}} = {{TRUE}, {FALSE}}
        OBVIOUS
      <4> QED  BY <4>2, <4>3, Zenon
    <3> QED  BY <3>1, <3>3, <3>4
  <2>4. ASSUME NEW a \in Sound, NEW b \in Sound, Less[<<a, b>>] = {TRUE}
        PROVE  <<a, b>> \in R
    <3> SUFFICES ASSUME <<a, b>> \notin R
                 PROVE  FALSE
      OBVIOUS
    <3>1. (<<a, b>> \in R) = FALSE
      OBVIOUS
    <3>2. Less[<<a, b>>] = {FALSE}
      BY <2>1, <3>1
    <3>3. {TRUE} # {FALSE}
      OBVIOUS
    <3> QED  BY <2>4, <3>2, <3>3
  <2>5. ASSUME NEW a \in Sound, NEW b \in Sound, NEW c \in Sound,
               Less[<<a, b>>] = {TRUE}, Less[<<b, c>>] = {TRUE}
        PROVE  Less[<<a, c>>] = {TRUE}
    <3>1. <<a, b>> \in R /\ <<b, c>> \in R
      BY <2>5, <2>4
    <3>2. (<<a, c>> \in R) = TRUE
      BY <1>1, <3>1 DEF Orders
    <3> QED  BY <2>1, <3>2
  <2>6. {v \in Answers : ~ HasError[v]} \subseteq Sound
    BY DEF Answers, Sound
  <2>7. {v \in Values : ~ HasError[v]} = Sound
    BY DEF Sound
  <2> SUFFICES ASSUME NEW a \in {v \in Answers : ~ HasError[v]},
                      NEW b \in {v \in Answers : ~ HasError[v]}
               PROVE  /\ Less[<<a, a>>] = {FALSE}
                      /\ a # b => {Less[<<a, b>>], Less[<<b, a>>]} = {{TRUE}, {FALSE}}
                      /\ \A c \in Sound : Less[<<a, b>>] = {TRUE} /\ Less[<<b, c>>] = {TRUE}
                                            => Less[<<a, c>>] = {TRUE}
    BY <2>7 DEF Ordered
  <2>8. a \in Sound /\ b \in Sound
    BY <2>6
  <2>9. Less[<<a, a>>] = {FALSE}
    BY <2>2, <2>8
  <2>10. a # b => {Less[<<a, b>>], Less[<<b, a>>]} = {{TRUE}, {FALSE}}
    BY <2>3, <2>8
  <2>11. \A c \in Sound : Less[<<a, b>>] = {TRUE} /\ Less[<<b, c>>] = {TRUE}
                          => Less[<<a, c>>] = {TRUE}
    BY <2>5, <2>8
  <2> QED  BY <2>9, <2>10, <2>11, Zenon
<1> QED  BY <1>2, PTL

-----------------------------------------------------------------------------
(* Finite sets have an order.                                              *)

\* The greatest of some that are ordered
LEMMA GreatestOne ==
    ASSUME NEW S, NEW R, Orders(R, S), NEW n \in Nat, NEW K \in SUBSET S,
           IsFiniteSet(K), Cardinality(K) = n + 1
    PROVE  \E m \in K : \A x \in K : x = m \/ <<x, m>> \in R
<1> DEFINE Has(k, A) == IsFiniteSet(A) /\ Cardinality(A) = k + 1
           Above(A, m) == \A x \in A : x = m \/ <<x, m>> \in R
           T == {k \in Nat : \A A \in SUBSET S : Has(k, A) => \E m \in A : Above(A, m)}
<1>1. 0 \in T
  <2> SUFFICES ASSUME NEW A \in SUBSET S, Has(0, A)
               PROVE  \E m \in A : Above(A, m)
    OBVIOUS
  <2>1. A # {}
    BY FS_EmptySet
  <2>2. PICK m \in A : TRUE
    BY <2>1
  <2>3. IsFiniteSet(A \ {m}) /\ Cardinality(A \ {m}) = 0
    BY <2>2, FS_RemoveElement
  <2>4. A \ {m} = {}
    BY <2>3, FS_EmptySet
  <2> QED  BY <2>2, <2>4
<1>2. ASSUME NEW k \in Nat, k \in T
      PROVE  k + 1 \in T
  <2> SUFFICES ASSUME NEW A \in SUBSET S, Has(k + 1, A)
               PROVE  \E m \in A : Above(A, m)
    OBVIOUS
  <2>1. A # {}
    BY FS_EmptySet
  <2>2. PICK x \in A : TRUE
    BY <2>1
  <2> DEFINE B == A \ {x}
  <2>3. Has(k, B)
    BY <2>2, FS_RemoveElement
  <2>4. B \in SUBSET S
    OBVIOUS
  <2>5. PICK m \in B : Above(B, m)
    <3> HIDE DEF Has, Above, B
    <3> QED  BY <1>2, <2>3, <2>4
  <2>6. x \in S /\ m \in S /\ x # m
    BY <2>2
  <2>7. CASE <<x, m>> \in R
    BY <2>2, <2>5, <2>7
  <2>8. CASE <<m, x>> \in R
    <3>1. ASSUME NEW y \in B
          PROVE  <<y, x>> \in R
      BY <2>4, <2>5, <2>6, <2>8, <3>1 DEF Orders
    <3> QED  BY <2>2, <3>1
  <2> QED  BY <2>6, <2>7, <2>8 DEF Orders
<1> HIDE DEF T
<1>3. n \in T
  BY <1>1, <1>2, AllNumbers
<1> QED  BY <1>3 DEF T

Rising(R, K, n, s) ==
    s \in [1..n -> K] /\ \A i, j \in 1..n : i < j => <<s[i], s[j]>> \in R

LEMMA SortedExists ==
    ASSUME NEW S, NEW R, Orders(R, S), NEW K \in SUBSET S, IsFiniteSet(K)
    PROVE  \E s : Rising(R, K, Cardinality(K), s)
<1> DEFINE Has(k, A) == IsFiniteSet(A) /\ Cardinality(A) = k
           T == {k \in Nat : \A A \in SUBSET S : Has(k, A) => \E s : Rising(R, A, k, s)}
<1>1. 0 \in T
  <2> SUFFICES ASSUME NEW A \in SUBSET S, Has(0, A)
               PROVE  \E s : Rising(R, A, 0, s)
    OBVIOUS
  <2>1. 1..0 = {}
    OBVIOUS
  <2>2. [i \in 1..0 |-> i] \in [1..0 -> A]
    BY <2>1
  <2>3. Rising(R, A, 0, [i \in 1..0 |-> i])
    BY <2>1, <2>2 DEF Rising
  <2> QED  BY <2>3
<1>2. ASSUME NEW k \in Nat, k \in T
      PROVE  k + 1 \in T
  <2> SUFFICES ASSUME NEW A \in SUBSET S, Has(k + 1, A)
               PROVE  \E s : Rising(R, A, k + 1, s)
    OBVIOUS
  <2>1. PICK m \in A : \A x \in A : x = m \/ <<x, m>> \in R
    BY GreatestOne
  <2> DEFINE B == A \ {m}
  <2>2. Has(k, B)
    <3>1. m \in A
      BY <2>1
    <3>2. IsFiniteSet(A) /\ Cardinality(A) = k + 1
      OBVIOUS
    <3>3. IsFiniteSet(B)
      BY <3>1, <3>2, FS_RemoveElement
    <3>4. Cardinality(B) = (k + 1) - 1
      <4> HIDE DEF Has, T
      <4> QED  BY <3>1, <3>2, FS_RemoveElement
    <3> QED  BY <3>3, <3>4
  <2>3. B \in SUBSET S
    OBVIOUS
  <2>4. PICK s : Rising(R, B, k, s)
    <3> HIDE DEF Has, B
    <3> QED  BY <1>2, <2>2, <2>3
  <2> DEFINE t == [i \in 1..(k + 1) |-> IF i = k + 1 THEN m ELSE s[i]]
  <2>5. \A i \in 1..(k + 1) : i = k + 1 \/ i \in 1..k
    OBVIOUS
  <2>6. \A i \in 1..k : s[i] \in B
    BY <2>4 DEF Rising
  <2>7. t \in [1..(k + 1) -> A]
    BY <2>1, <2>5, <2>6
  <2>8. ASSUME NEW i \in 1..(k + 1), NEW j \in 1..(k + 1), i < j
        PROVE  <<t[i], t[j]>> \in R
    <3>1. i \in 1..k /\ i # k + 1
      BY <2>8
    <3>2. CASE j = k + 1
      <4>1. t[i] = s[i] /\ t[j] = m
        BY <3>1, <3>2
      <4>2. s[i] \in A /\ s[i] # m
        BY <2>6, <3>1
      <4> QED  BY <2>1, <4>1, <4>2
    <3>3. CASE j # k + 1
      <4>1. j \in 1..k
        BY <2>5, <3>3
      <4>2. t[i] = s[i] /\ t[j] = s[j]
        BY <3>1, <3>3
      <4> QED  BY <2>4, <2>8, <3>1, <4>1, <4>2 DEF Rising
    <3> QED  BY <3>2, <3>3
  <2> HIDE DEF t
  <2>9. Rising(R, A, k + 1, t)
    BY <2>7, <2>8 DEF Rising
  <2> QED  BY <2>9
<1> HIDE DEF T
<1>3. Nat \subseteq T
  BY <1>1, <1>2, AllNumbers
<1>4. Cardinality(K) \in Nat
  BY FS_CardinalityType
<1> QED  BY <1>3, <1>4 DEF T

\* The keys of a map in their order are all of them, each once
LEMMA InOrderIs ==
    ASSUME NEW K \in SUBSET Seq(DOMAIN CodeOf), IsFiniteSet(K)
    PROVE  /\ Cardinality(K) \in Nat
           /\ InOrder(K) \in [1..Cardinality(K) -> K]
           /\ \A i, j \in 1..Cardinality(K) : i # j => InOrder(K)[i] # InOrder(K)[j]
           /\ \A x \in K : \E i \in 1..Cardinality(K) : InOrder(K)[i] = x
<1> DEFINE C == Seq(DOMAIN CodeOf)
           Q == {p \in C \X C : TextLess(p[1], p[2])}
           n == Cardinality(K)
           Ascends(s) == \A i, j \in DOMAIN s : i < j => TextLess(s[i], s[j])
           keys == InOrder(K)
<1>1. \A s, t \in C : <<s, t>> \in Q <=> TextLess(s, t)
  OBVIOUS
<1>2. Orders(Q, C)
  <2> HIDE DEF Q
  <2> QED  BY <1>1, TextsOrdered
<1>3. n \in Nat
  BY FS_CardinalityType
<1>4. PICK s : Rising(Q, K, n, s)
  <2>1. K \in SUBSET C
    OBVIOUS
  <2> HIDE DEF Q, C
  <2> QED  BY <1>2, <2>1, SortedExists
<1>5. s \in [1..n -> K] /\ Ascends(s)
  <2>1. s \in [1..n -> K] /\ DOMAIN s = 1..n /\ \A i, j \in 1..n : i < j => <<s[i], s[j]>> \in Q
    BY <1>4 DEF Rising
  <2>2. \A i \in 1..n : s[i] \in C
    BY <2>1
  <2> HIDE DEF Q, C, n
  <2>3. \A i, j \in 1..n : i < j => TextLess(s[i], s[j])
    BY <1>1, <2>1, <2>2
  <2> QED  BY <2>1, <2>3
<1>6. keys = CHOOSE t \in [1..n -> K] : Ascends(t)
  BY DEF InOrder
<1>7. keys \in [1..n -> K] /\ Ascends(keys)
  <2> HIDE DEF keys, n, Ascends
  <2> QED  BY <1>5, <1>6
<1> HIDE DEF keys
<1>8. DOMAIN keys = 1..n
  BY <1>7
<1>9. ASSUME NEW i \in 1..n, NEW j \in 1..n, i # j
      PROVE  keys[i] # keys[j]
  <2>1. i < j \/ j < i
    <3> HIDE DEF n
    <3> QED  BY <1>9
  <2>2. keys[i] \in C /\ keys[j] \in C
    BY <1>7
  <2>3. TextLess(keys[i], keys[j]) \/ TextLess(keys[j], keys[i])
    BY <1>7, <1>8, <2>1
  <2> QED  BY <2>2, <2>3, TextsLess
<1>10. ASSUME NEW x \in K
       PROVE  \E i \in 1..n : keys[i] = x
  <2>1. keys \in Injection(1..n, K)
    <3> HIDE DEF n
    <3> QED  BY <1>7, <1>9 DEF Injection, IsInjective
  <2>2. Cardinality(1..n) = n
    <3>1. 1 \in Int /\ n \in Int
      BY <1>3
    <3>2. Cardinality(1..n) = IF 1 > n THEN 0 ELSE n - 1 + 1
      <4> HIDE DEF n
      <4> QED  BY <3>1, FS_Interval
    <3> HIDE DEF n
    <3> QED  BY <1>3, <3>2
  <2>3. keys \in Surjection(1..n, K)
    <3> HIDE DEF n
    <3> QED  BY <2>1, <2>2, FS_Injection DEF n
  <2> HIDE DEF n
  <2> QED  BY <2>3 DEF Surjection
<1> QED  BY <1>3, <1>7, <1>9, <1>10 DEF keys

-----------------------------------------------------------------------------
(* Maps survive.                                                           *)

\* Pairs one behind the other
IsPair(p, S) == p \in Seq(S) /\ Len(p) = 2
Flattened(s, S, ss, n) ==
    /\ s \in Seq(S) /\ Len(s) = 2 * n
    /\ \A k \in 1..n : s[2 * k - 1] = ss[k][1] /\ s[2 * k] = ss[k][2]

LEMMA PairsFlat ==
    ASSUME NEW S, NEW n \in Nat, NEW ss, ss \in [1..n -> Seq(S)],
           \A k \in 1..n : IsPair(ss[k], S)
    PROVE  Flattened(FlattenSeq(ss), S, ss, n)
<1>1. ss \in Seq(Seq(S)) /\ Len(ss) = n
  <2>1. ss \in Seq(Seq(S))
    BY SeqDef
  <2>2. Len(ss) \in Nat /\ DOMAIN ss = 1..Len(ss)
    BY <2>1, LenProperties
  <2>3. DOMAIN ss = 1..n
    OBVIOUS
  <2> QED  BY <2>1, <2>2, <2>3
<1>2. PICK f : Flat(ss, n, f)
  BY FlatExists
<1>3. \A j \in 0..n : f[j] \in Seq(S)
  BY <1>1, <1>2, FlatSeqs
<1>4. FlattenSeq(ss) = f[n]
  BY <1>1, <1>2, FlatLast
<1> DEFINE T == {j \in Nat : j <= n => Flattened(f[j], S, ss, j)}
<1>5. 0 \in T
  <2>1. f[0] = <<>> /\ Len(<<>>) = 2 * 0
    BY <1>2 DEF Flat
  <2>2. <<>> \in Seq(S)
    BY EmptySeq
  <2>3. \A k \in 1..0 : f[0][2 * k - 1] = ss[k][1] /\ f[0][2 * k] = ss[k][2]
    OBVIOUS
  <2> QED  BY <2>1, <2>2, <2>3 DEF Flattened
<1>6. ASSUME NEW j \in Nat, j \in T
      PROVE  j + 1 \in T
  <2> SUFFICES ASSUME j + 1 <= n
               PROVE  Flattened(f[j + 1], S, ss, j + 1)
    OBVIOUS
  <2> DEFINE s == f[j]
             p == ss[j + 1]
             t == f[j + 1]
  <2>1. j + 1 \in 1..n /\ (j + 1) - 1 = j /\ j <= n
    OBVIOUS
  <2>2. t = Joined(s, p)
    BY <1>2, <2>1 DEF Flat
  <2>3. p \in Seq(S) /\ Len(p) = 2
    BY <2>1 DEF IsPair
  <2>4. /\ s \in Seq(S) /\ Len(s) = 2 * j
        /\ \A k \in 1..j : s[2 * k - 1] = ss[k][1] /\ s[2 * k] = ss[k][2]
    BY <1>6, <2>1 DEF Flattened
  <2> HIDE DEF s, p, t
  <2>5. t \in Seq(S) /\ Len(t) = Len(s) + Len(p)
    BY <2>2, <2>3, <2>4, JoinedLength
  <2>6. \A i \in 1..(Len(s) + Len(p)) : t[i] = IF i <= Len(s) THEN s[i] ELSE p[i - Len(s)]
    BY <2>2, <2>3, <2>4, ConcatProperties DEF Joined
  <2>7. Len(t) = 2 * (j + 1)
    BY <2>3, <2>4, <2>5
  <2>8. \A i \in 1..(2 * j + 2) : t[i] = IF i <= 2 * j THEN s[i] ELSE p[i - 2 * j]
    BY <2>3, <2>4, <2>6
  <2>9. ASSUME NEW k \in 1..(j + 1)
        PROVE  t[2 * k - 1] = ss[k][1] /\ t[2 * k] = ss[k][2]
    <3>1. CASE k = j + 1
      <4>1. /\ 2 * k - 1 \in 1..(2 * j + 2) /\ ~ (2 * k - 1 <= 2 * j) /\ (2 * k - 1) - 2 * j = 1
            /\ 2 * k \in 1..(2 * j + 2) /\ ~ (2 * k <= 2 * j) /\ 2 * k - 2 * j = 2
        BY <3>1
      <4>2. t[2 * k - 1] = p[1] /\ t[2 * k] = p[2]
        BY <2>8, <4>1
      <4> QED  BY <3>1, <4>2 DEF p
    <3>2. CASE k # j + 1
      <4>1. /\ k \in 1..j
            /\ 2 * k - 1 \in 1..(2 * j + 2) /\ 2 * k - 1 <= 2 * j
            /\ 2 * k \in 1..(2 * j + 2) /\ 2 * k <= 2 * j
        BY <3>2
      <4>2. t[2 * k - 1] = s[2 * k - 1] /\ t[2 * k] = s[2 * k]
        BY <2>8, <4>1
      <4> QED  BY <2>4, <4>1, <4>2
    <3> QED  BY <3>1, <3>2
  <2>10. Flattened(t, S, ss, j + 1)
    BY <2>5, <2>7, <2>9 DEF Flattened
  <2> QED  BY <2>10 DEF t
<1> HIDE DEF T
<1>7. n \in T
  BY <1>5, <1>6, AllNumbers
<1>8. Flattened(f[n], S, ss, n)
  BY <1>7 DEF T
<1> QED  BY <1>4, <1>8

\* AsHash: the field of a text is behind the first key that is this text
KeyOf(v) == [k \in 1..(Len(v.items) \div 2) |-> AsString(v.items[2 * k - 1])]
KeysOf(v) == UNION {KeyOf(v)[k] : k \in 1..(Len(v.items) \div 2)}
FieldsOf(v) ==
    [text \in KeysOf(v) |->
        v.items[2 * Min({k \in 1..(Len(v.items) \div 2) : KeyOf(v)[k] = {text}})]]
IsHash(v) ==
    Len(v.items) % 2 = 0 /\ \A k \in 1..(Len(v.items) \div 2) : KeyOf(v)[k] # {}

LEMMA AsHashIs ==
    ASSUME NEW v, v.type = "array"
    PROVE  AsHash(v) = {hash \in {FieldsOf(v)} : IsHash(v)}
BY DEF AsHash, FieldsOf, KeysOf, KeyOf, IsHash

\* Numbers are written in bytes that have a code
LEMMA DigitsCoded == DigitSet \subseteq DOMAIN CodeOf /\ "-" \in DOMAIN CodeOf
<1> DEFINE first == <<"NUL", "LF", "CR", "SP", "QUOTE", "$", "*", "+", "-">>
           last == <<":", "OK", "message", "pmessage", "x">>
           X == {"NUL", "LF", "CR", "SP", "QUOTE", "$", "*", "+", "-"}
                   \cup {"0", "1", "2", "3", "4", "5", "6", "7", "8", "9"}
                   \cup {":", "OK", "message", "pmessage", "x"}
           some == Joined(first, Digits)
<1>1. first \in Seq(X) /\ Len(first) = 9 /\ first[9] = "-" /\ last \in Seq(X) /\ Len(last) = 5
  OBVIOUS
<1>2. Digits \in Seq(X) /\ Len(Digits) = 10 /\ DOMAIN Digits = 1..10
  BY DEF Digits
<1>3. Bytecodes = Joined(some, last)
  BY DEF Bytecodes, Joined
<1> HIDE DEF first, last, X
<1>4. some \in Seq(X) /\ Len(some) = 19
  <2>1. some \in Seq(X) /\ Len(some) = Len(first) + Len(Digits)
    BY <1>1, <1>2, JoinedLength
  <2> QED  BY <1>1, <1>2, <2>1
<1>5. \A i \in 1..19 : some[i] = IF i <= 9 THEN first[i] ELSE Digits[i - 9]
  <2>1. \A i \in 1..(Len(first) + Len(Digits)) :
           some[i] = IF i <= Len(first) THEN first[i] ELSE Digits[i - Len(first)]
    BY <1>1, <1>2, ConcatProperties DEF Joined
  <2>2. Len(first) = 9 /\ Len(Digits) = 10
    BY <1>1, <1>2
  <2> HIDE DEF some
  <2>3. \A i \in 1..(9 + 10) : some[i] = IF i <= 9 THEN first[i] ELSE Digits[i - 9]
    BY <2>1, <2>2, Zenon
  <2> QED  BY <2>3
<1> HIDE DEF some
<1>6. Bytecodes \in Seq(X) /\ Len(Bytecodes) = 24
  <2>1. Bytecodes \in Seq(X) /\ Len(Bytecodes) = Len(some) + Len(last)
    BY <1>1, <1>3, <1>4, JoinedLength
  <2> QED  BY <1>1, <1>4, <2>1
<1>7. \A i \in 1..19 : Bytecodes[i] = some[i]
  <2>1. \A i \in 1..(Len(some) + Len(last)) :
           Bytecodes[i] = IF i <= Len(some) THEN some[i] ELSE last[i - Len(some)]
    BY <1>1, <1>3, <1>4, ConcatProperties DEF Joined
  <2>2. Len(some) = 19 /\ Len(last) = 5
    BY <1>1, <1>4
  <2>3. \A i \in 1..(19 + 5) : Bytecodes[i] = IF i <= 19 THEN some[i] ELSE last[i - 19]
    BY <2>1, <2>2, Zenon
  <2> QED  BY <2>3
<1>8. \A i \in 1..24 : Bytecodes[i] \in DOMAIN CodeOf
  <2>1. DOMAIN Bytecodes = 1..24
    BY <1>6, LenProperties
  <2> HIDE DEF Bytecodes
  <2> QED  BY <2>1 DEF CodeOf
<1>9. "-" \in DOMAIN CodeOf
  BY <1>1, <1>5, <1>7, <1>8
<1>10. ASSUME NEW j \in 1..10
       PROVE  Digits[j] \in DOMAIN CodeOf
  <2>1. j + 9 \in 1..19 /\ j + 9 \in 1..24 /\ ~ (j + 9 <= 9) /\ (j + 9) - 9 = j
    OBVIOUS
  <2>2. Bytecodes[j + 9] = Digits[j]
    BY <1>5, <1>7, <2>1
  <2> QED  BY <1>8, <2>1, <2>2
<1> QED  BY <1>2, <1>9, <1>10 DEF DigitSet

LEMMA DecimalCoded ==
    ASSUME NEW n \in Int
    PROVE  Decimal(n) \in Seq(DOMAIN CodeOf)
<1> DEFINE C == DOMAIN CodeOf
<1>1. DigitSet \subseteq C /\ "-" \in C
  BY DigitsCoded
<1> HIDE DEF C
<1>2. CASE n >= 0
  <2>1. Decimal(n) \in Seq(DigitSet)
    BY <1>2, DecimalSpells DEF Spells
  <2>2. Decimal(n) \in Seq(C)
    BY <1>1, <2>1, SeqMonotonic
  <2> QED  BY <2>2 DEF C
<1>3. CASE n < 0
  <2> DEFINE k == -n
  <2>1. k \in Nat /\ k > 0 /\ -k = n
    BY <1>3
  <2> HIDE DEF k
  <2>2. PICK text : Spells(text, k) /\ Decimal(-k) = <<"-">> \o text
    BY <2>1, DecimalSpells
  <2>3. text \in Seq(C)
    BY <1>1, <2>2, SeqMonotonic DEF Spells
  <2>4. <<"-">> \in Seq(C)
    BY <1>1
  <2>5. <<"-">> \o text \in Seq(C)
    BY <2>3, <2>4, ConcatProperties
  <2> QED  BY <2>1, <2>2, <2>5 DEF C
<1> QED  BY <1>2, <1>3

\* The texts of values are of bytes
LEMMA TextOfOne ==
    ASSUME NEW v \in Values
    PROVE  \A t \in AsString(v) : AsString(v) = {t} /\ t \in Seq(DOMAIN CodeOf)
<1> SUFFICES ASSUME NEW t \in AsString(v)
             PROVE  AsString(v) = {t} /\ t \in Seq(DOMAIN CodeOf)
  OBVIOUS
<1>1. CASE v.type \in {"simple_string", "bulk_string", "error"}
  <2>1. v # NilValue
    BY <1>1 DEF NilValue
  <2>2. v.text \in Seq(DOMAIN CodeOf)
    BY <1>1, <2>1, RepliesAssumption
  <2>3. AsString(v) = {v.text}
    BY <1>1 DEF AsString
  <2> QED  BY <2>2, <2>3
<1>2. CASE v.type = "integer"
  <2>1. v.number \in Int
    BY <1>2, Replies, WidthsAssumption DEF Long
  <2>2. AsString(v) = {Decimal(v.number)}
    BY <1>2 DEF AsString
  <2>3. Decimal(v.number) \in Seq(DOMAIN CodeOf)
    BY <2>1, DecimalCoded
  <2> QED  BY <2>2, <2>3
<1>3. CASE v.type \in {"nil", "array"}
  BY <1>3 DEF AsString
<1> QED  BY <1>1, <1>2, <1>3, Replies

\* A map from texts
IsMap(hash) ==
    /\ IsFiniteSet(DOMAIN hash) /\ DOMAIN hash \in SUBSET Seq(DOMAIN CodeOf)
    /\ hash = [text \in DOMAIN hash |-> hash[text]]

LEMMA HashIsMap ==
    ASSUME NEW v \in Values, v.type = "array", NEW hash \in AsHash(v)
    PROVE  IsMap(hash)
<1> DEFINE n == Len(v.items) \div 2
           S == Seq(DOMAIN CodeOf)
           textOf == [k \in 1..n |-> The(KeyOf(v)[k])]
<1>1. hash = FieldsOf(v) /\ IsHash(v)
  BY AsHashIs
<1>2. v.items \in Seq(Values)
  BY ItemsAssumption
<1>3. Len(v.items) \in Nat
  BY <1>2, LenProperties
<1>4. n \in Nat /\ \A k \in 1..n : 2 * k - 1 \in 1..Len(v.items)
  <2> DEFINE m == Len(v.items)
  <2>1. m \in Nat
    BY <1>3
  <2> HIDE DEF m
  <2>2. m \div 2 \in Nat /\ 2 * (m \div 2) <= m
    BY <2>1
  <2>3. \A k \in 1..(m \div 2) : 2 * k - 1 \in 1..m
    BY <2>1, <2>2
  <2> QED  BY <2>2, <2>3 DEF m
<1>5. ASSUME NEW k \in 1..n
      PROVE  KeyOf(v)[k] = {textOf[k]} /\ textOf[k] \in S
  <2> DEFINE w == v.items[2 * k - 1]
  <2>1. w \in Values
    BY <1>2, <1>4, ElementOfSeq
  <2>2. KeyOf(v)[k] = AsString(w) /\ AsString(w) # {}
    BY <1>1 DEF KeyOf, IsHash
  <2>3. textOf[k] \in AsString(w)
    BY <2>2 DEF The
  <2> HIDE DEF w, textOf
  <2>4. AsString(w) = {textOf[k]} /\ textOf[k] \in S
    BY <2>1, <2>3, TextOfOne
  <2> QED  BY <2>2, <2>4
<1>6. KeysOf(v) = {textOf[k] : k \in 1..n}
  <2> HIDE DEF textOf, S
  <2>1. \A x : x \in KeysOf(v) <=> \E k \in 1..n : x \in KeyOf(v)[k]
    BY DEF KeysOf
  <2> HIDE DEF n
  <2>2. \A x : x \in KeysOf(v) <=> \E k \in 1..n : x = textOf[k]
    BY <1>5, <2>1
  <2> QED  BY <2>2
<1>7. KeysOf(v) \in SUBSET S
  <2> HIDE DEF textOf, n, S
  <2> QED  BY <1>5, <1>6
<1>8. IsFiniteSet(KeysOf(v))
  <2>1. textOf \in Surjection(1..n, KeysOf(v))
    <3>1. textOf \in [1..n -> KeysOf(v)]
      BY <1>6
    <3> HIDE DEF textOf, n
    <3> QED  BY <1>6, <3>1 DEF Surjection
  <2>2. IsFiniteSet(1..n)
    <3>1. 1 \in Int /\ n \in Int
      BY <1>4
    <3> HIDE DEF n
    <3> QED  BY <3>1, FS_Interval
  <2> HIDE DEF textOf, n
  <2> QED  BY <2>1, <2>2, FS_Surjection
<1>9. DOMAIN hash = KeysOf(v) /\ hash = [text \in DOMAIN hash |-> hash[text]]
  BY <1>1 DEF FieldsOf
<1> QED  BY <1>7, <1>8, <1>9 DEF IsMap

\* HashValue of a map, read as a hash, is the map
LEMMA HashKept ==
    ASSUME NEW hash, IsMap(hash)
    PROVE  AsHash(HashValue(hash)) = {hash}
<1> DEFINE K == DOMAIN hash
           n == Cardinality(K)
           keys == InOrder(K)
           S == {SimpleStringValue(text) : text \in K} \cup {hash[text] : text \in K}
           pairs == [i \in DOMAIN keys |-> <<SimpleStringValue(keys[i]), hash[keys[i]]>>]
           items == FlattenSeq(pairs)
           v == HashValue(hash)
<1>1. /\ n \in Nat /\ keys \in [1..n -> K]
      /\ \A i, j \in 1..n : i # j => keys[i] # keys[j]
      /\ \A x \in K : \E i \in 1..n : keys[i] = x
  BY InOrderIs DEF IsMap
<1>2. v.type = "array" /\ v.items = items
  BY DEF HashValue, ArrayValue
<1> HIDE DEF v, keys, n
<1>3. DOMAIN keys = 1..n
  BY <1>1
<1>4. ASSUME NEW k \in 1..n
      PROVE  /\ IsPair(pairs[k], S) /\ keys[k] \in K
             /\ pairs[k][1] = SimpleStringValue(keys[k]) /\ pairs[k][2] = hash[keys[k]]
  <2> DEFINE x == keys[k]
             a == SimpleStringValue(x)
             b == hash[x]
  <2>1. x \in K
    BY <1>1
  <2>2. a \in S /\ b \in S
    BY <2>1
  <2>3. pairs[k] = <<a, b>>
    BY <1>3
  <2> HIDE DEF a, b, x, S, pairs
  <2>4. <<a, b>> \in Seq(S) /\ Len(<<a, b>>) = 2
    BY <2>2
  <2> QED  BY <2>1, <2>3, <2>4 DEF IsPair, a, b, x
<1>5. pairs \in [1..n -> Seq(S)]
  <2>1. pairs = [k \in 1..n |-> pairs[k]]
    BY <1>3
  <2> HIDE DEF pairs, S
  <2> QED  BY <1>4, <2>1 DEF IsPair
<1>6. Flattened(items, S, pairs, n)
  <2> HIDE DEF pairs, S
  <2> QED  BY <1>1, <1>4, <1>5, PairsFlat
<1> HIDE DEF items, pairs, S
<1>7. Len(items) = 2 * n
  BY <1>6 DEF Flattened
<1>8. ASSUME NEW k \in 1..n
      PROVE  items[2 * k - 1] = SimpleStringValue(keys[k]) /\ items[2 * k] = hash[keys[k]]
  BY <1>4, <1>6 DEF Flattened
<1>9. Len(v.items) \div 2 = n /\ Len(v.items) % 2 = 0
  <2>1. (2 * n) \div 2 = n /\ (2 * n) % 2 = 0
    BY <1>1
  <2> QED  BY <1>2, <1>7, <2>1
<1>10. ASSUME NEW k \in 1..n
       PROVE  KeyOf(v)[k] = {keys[k]}
  <2>1. KeyOf(v)[k] = AsString(SimpleStringValue(keys[k]))
    BY <1>2, <1>8, <1>9 DEF KeyOf
  <2>2. AsString(SimpleStringValue(keys[k])) = {keys[k]}
    BY DEF AsString, SimpleStringValue
  <2> QED  BY <2>1, <2>2
<1>11. IsHash(v)
  BY <1>9, <1>10 DEF IsHash
<1>12. KeysOf(v) = K
  <2>1. \A x : x \in KeysOf(v) <=> \E k \in 1..n : x \in KeyOf(v)[k]
    <3>1. \A x : x \in KeysOf(v) <=> \E k \in 1..(Len(v.items) \div 2) : x \in KeyOf(v)[k]
      BY DEF KeysOf
    <3> QED  BY <1>9, <3>1
  <2>2. \A x : x \in KeysOf(v) <=> \E k \in 1..n : x = keys[k]
    BY <1>10, <2>1
  <2> HIDE DEF K
  <2>3. \A k \in 1..n : keys[k] \in K
    BY <1>1
  <2>4. \A x \in K : \E k \in 1..n : x = keys[k]
    BY <1>1
  <2>5. \A x : x \in KeysOf(v) <=> x \in K
    BY <2>2, <2>3, <2>4, Zenon
  <2> QED  BY <2>5
<1>13. ASSUME NEW text \in K
       PROVE  v.items[2 * Min({k \in 1..n : KeyOf(v)[k] = {text}})] = hash[text]
  <2> DEFINE found == {k \in 1..n : KeyOf(v)[k] = {text}}
  <2>1. PICK j \in 1..n : keys[j] = text
    BY <1>1
  <2>2. found = {j}
    <3>1. j \in found
      BY <1>10, <2>1
    <3>2. ASSUME NEW k \in found
          PROVE  k = j
      <4>1. keys[k] = text
        BY <1>10
      <4> QED  BY <1>1, <2>1, <4>1
    <3> HIDE DEF found
    <3> QED  BY <3>1, <3>2
  <2>3. Min(found) = j
    <3>1. found \in SUBSET Nat /\ found # {}
      BY <2>2
    <3> HIDE DEF found
    <3> QED  BY <2>2, <3>1, MinIs
  <2> HIDE DEF found
  <2>4. items[2 * j] = hash[keys[j]]
    BY <1>8
  <2> QED  BY <1>2, <2>1, <2>3, <2>4 DEF found
<1>14. FieldsOf(v) = hash
  <2>1. FieldsOf(v) = [text \in K |-> hash[text]]
    <3> HIDE DEF K
    <3> QED  BY <1>9, <1>12, <1>13 DEF FieldsOf
  <2> QED  BY <2>1 DEF IsMap
<1> QED  BY <1>2, <1>11, <1>14, AsHashIs DEF v

\* What an answer reads as a hash survives being made a value again, for maps of any
\* size (value.cpp:36-45, value.hpp:326-350): the order of its keys loses none of them
\* and none comes twice, so that each finds its own field again.
THEOREM HashesAreKept == Spec => []HashesSurvive
<1>1. HashesSurvive
  <2> SUFFICES ASSUME NEW v \in Answers, NEW hash \in AsHash(v)
               PROVE  AsHash(HashValue(hash)) = {hash}
    BY DEF HashesSurvive
  <2>1. v \in Values /\ v.type = "array"
    BY DEF Answers, AsHash
  <2> QED  BY <2>1, HashIsMap, HashKept
<1> QED  BY <1>1, PTL
=============================================================================
