----------------------------- MODULE ReplyLoop -----------------------------
(***************************************************************************)
(* The loop that calls the parser until the buffer of one read is used up, *)
(* of client.cpp:138-147, with a new buffer for every read (Stale = <<>>), *)
(* and of subscriber.cpp:146-158, whose buffer keeps the bytes of earlier  *)
(* reads; and what a caller makes of the values it gets.                   *)
(***************************************************************************)
EXTENDS ReplyParser

CONSTANTS
    MaxSent,    \* how many replies are sent on the link
    Garbage,    \* other buffers: what a read finds in the middle of a string
    NoCall, MaxStrays

ASSUME MaxSentAssumption == MaxSent \in Nat

ASSUME GarbageAssumption == Garbage \subseteq Seq(DOMAIN CodeOf)

\* Replies are finite: the elements of an array are replies too
ASSUME ItemsAssumption ==
    \A v \in Values : v.type = "array" => v.items \in Seq(Values)

\* and what RESP can say: a line has no end in it, and sizes and numbers fit
\* into int64_t
ASSUME RepliesAssumption ==
    \A v \in Values :
        \/ v = NilValue
        \/ /\ v.type \in {"simple_string", "error"}
           /\ v = [type |-> v.type, text |-> v.text]
           /\ v.text \in Seq(DOMAIN CodeOf)
           /\ \A i \in DOMAIN v.text : v.text[i] # "CR"
        \/ v.type = "integer" /\ v = IntegerValue(v.number) /\ v.number \in Long
        \/ /\ v.type = "bulk_string" /\ v = BulkStringValue(v.text)
           /\ v.text \in Seq(DOMAIN CodeOf) /\ Len(v.text) <= MaxLong
        \/ v.type = "array" /\ v = ArrayValue(v.items) /\ Len(v.items) <= MaxLong

VARIABLES
    sent,      \* the replies whose bytes are in the buffer
    cut,       \* what of them: [from, to]
    buffer,    \* read_buffer, up to bytes_read
    it,        \* the iterator of the loop
    replies,   \* what load_data returned, in order
    thrown     \* an exception left load_data

vars == <<sent, cut, buffer, it, replies, thrown>>

F == INSTANCE ReplyFragments

-----------------------------------------------------------------------------
(* The loop over a buffer.                                                 *)

\* Bytes that look like replies or numbers to the parser
Plain(v) == v.type \notin {"simple_string", "error", "bulk_string"}
               \/ \A i \in DOMAIN v.text : v.text[i] \notin {"CR", ":", "-", "$", "*", "+"}

\* A read begins and ends anywhere in the bytes of some replies: in the first
\* and the last one
Init ==
    /\ it = 1
    /\ replies = <<>>
    /\ thrown = FALSE
    /\ \/ /\ sent \in BoundedSeq(Values, MaxSent) \ {<<>>}
          /\ LET all == BytesOf(sent)
                 first == Len(Bytes[Head(sent)])
                 final == Len(Bytes[Last(sent)])
             IN  /\ cut \in [from : 1..first, to : (Len(all) - final + 1)..Len(all)]
                 /\ cut.from <= cut.to
                 /\ buffer = SubSeq(all, cut.from, cut.to)
       \/ /\ sent = <<>>
          /\ cut = [from |-> 1, to |-> 0]
          /\ buffer \in Garbage

\* reply.load_data(it, end) and replies.push_back
LoadData ==
    LET response == ParseReply(buffer, it) IN
    /\ it # End(buffer)
    /\ ~ thrown
    /\ thrown' = (response.error = "throws")
    /\ it' = response.next
    /\ replies' = Append(replies, [value |-> response.value, error |-> response.error])
    /\ UNCHANGED <<sent, cut, buffer>>

Next == LoadData

Spec == Init /\ [][Next]_vars

-----------------------------------------------------------------------------
(* Properties.                                                             *)

TypeOK ==
    /\ it \in Nat \ {0}
    /\ thrown \in BOOLEAN
    /\ \A i \in DOMAIN replies :
          /\ replies[i].error \in {"none", "eof", "error", "malformed",
                                  "out_of_range", "throws"}
          /\ replies[i].value.type = "integer" => replies[i].value.number \in Long

Finished == it = End(buffer) \/ thrown

\* Replies that arrived whole are returned one by one, each with its value and
\* consumed exactly, whatever bytes its strings hold (reply.cpp:26-220; what
\* redis_client_test.cpp:217 relies on).
Returned(v) == [value |-> v, error |-> IF v.type = "error" THEN "error" ELSE "none"]
RepliesAreSent ==
    sent # <<>> /\ buffer = BytesOf(sent) =>
        LET expected == [i \in DOMAIN sent |-> Returned(sent[i])]
        IN  IsPrefix(replies, expected) /\ (Finished => replies = expected)

\* A new buffer that begins or ends in the middle of a reply gives replies that
\* ReplyFragments allows, so what RedisClient shows with fragments holds of
\* the bytes (reply.cpp:14-220, client.cpp:129-147). NothingFromBefore is about
\* the subscriber's, which is not a new one.
FragmentsOf ==
    [n \in DOMAIN sent |->
        [call |-> "call", n |-> n, ok |-> sent[n].type # "error",
         form |-> IF n = 1 /\ cut.from > 1 THEN "tail"
                  ELSE IF n = Len(sent) /\ buffer # SubSeq(BytesOf(sent), cut.from,
                                                  Len(BytesOf(sent)))
                  THEN "head" ELSE "whole"]]

StandsFor(concrete, abstract) ==
    CASE abstract.kind = "value" -> concrete = Returned(sent[abstract.n])
      [] abstract.kind \in {"partial", "nil"} -> concrete.error = "none"
      [] abstract.kind = "stray" -> TRUE
      [] OTHER -> concrete.error = abstract.kind

CutsAreCovered ==
    Stale = <<>> /\ sent # <<>> /\ Finished /\ (cut.from > 1 => Plain(Head(sent))) =>
        \E parsed \in F!Parsed(FragmentsOf) :
            /\ Len(parsed) = Len(replies)
            /\ \A i \in DOMAIN parsed : StandsFor(replies[i], parsed[i])

\* Whatever a read returns, and whatever is left behind it in the buffer, the
\* loop ends: no call, one that started behind the end of the data included,
\* leaves the iterator where it was, and there are no more replies than bytes
\* to read (client.cpp:141-145, subscriber.cpp:147-158).
Readable == IF Len(buffer) < Len(Stale) THEN Len(Stale) ELSE Len(buffer)
LoopEnds == Len(replies) <= Readable

\* Why it does: a call goes to the end, where the loop stops, or two bytes or more
\* ahead, and then there were two or more left.
Advances ==
    /\ Len(buffer) \in Nat
    /\ replies \in Seq({replies[i] : i \in DOMAIN replies})
    /\ Len(replies) <= Readable
    /\ it # End(buffer) =>
          IF it <= Readable THEN Len(replies) = 0 \/ Len(replies) + 1 < it
          ELSE Len(replies) < Readable

\* A read that begins with a reply gives no more values than it has replies, the
\* one it is cut in included (reply.hpp:46: "Creates a reply from a buffer that
\* begins with "it" and ends with "end""). What is behind the end is of an
\* earlier read (subscriber.cpp:111).
NothingFromBefore ==
    sent # <<>> /\ cut.from = 1 =>
        Cardinality({i \in DOMAIN replies : replies[i].value # NilValue}) <= Len(sent)

-----------------------------------------------------------------------------
(* Properties of the values a caller gets.                                 *)

Answers == {replies[i].value : i \in DOMAIN replies} \cap Values

HasError ==
    LET hasError[v \in Values] ==
          \/ v.type = "error"
          \/ v.type = "array" /\ \E i \in DOMAIN v.items : hasError[v.items[i]]
    IN  hasError

\* Values without errors are ordered: of two different ones exactly one is less,
\* none is less than itself, and what is less than a lesser one is less
\* (value.cpp:99-130), nested arrays and prefixes included.
Ordered ==
    \A a, b \in {v \in Answers : ~ HasError[v]} :
        /\ Less[<<a, a>>] = {FALSE}
        /\ a # b => {Less[<<a, b>>], Less[<<b, a>>]} = {{TRUE}, {FALSE}}
        /\ \A c \in {v \in Values : ~ HasError[v]} :
              Less[<<a, b>>] = {TRUE} /\ Less[<<b, c>>] = {TRUE} => Less[<<a, c>>] = {TRUE}

\* A number reads the same whether the server sent an integer or a string with
\* its digits, as int64_t and float, and as int and double if it fits an int
\* (value.hpp:192-324).
NumbersAgree ==
    \A a, b \in {v \in Answers : v.type \in {"integer", "bulk_string"}} :
        AsString(a) = AsString(b) =>
            /\ AsLong(a) = AsLong(b)
            /\ AsLong(a) \subseteq Int32 =>
                  AsInt(a) = AsLong(a) /\ AsInt(b) = AsLong(a) /\ AsDouble(a) = AsDouble(b)
            /\ AsLong(a) # {} => AsFloat(a) = AsLong(a) /\ AsFloat(b) = AsLong(a)

\* What an answer reads as a hash survives being made a value again
\* (value.cpp:36-45, value.hpp:326-350).
HashesSurvive ==
    \A v \in Answers : \A hash \in AsHash(v) : AsHash(HashValue(hash)) = {hash}

\* The two ways to make a message of an array of strings agree: as<redis_message>
\* gives nothing that the constructor does not, and refuses no array of which
\* the constructor makes a message with a channel (message.hpp:25-49,
\* value.hpp:375-412; redis_message_test.cpp tries the one, redis_sub_test.cpp
\* the other).
MessagesAgree ==
    \A v \in {a \in Answers : a.type = "array" /\ \A i \in DOMAIN a.items :
                                                AsString(a.items[i]) # {}} :
        LET texts == [i \in DOMAIN v.items |-> The(AsString(v.items[i]))]
        IN  /\ AsMessage(v) \subseteq {MessageOf(texts)}
            /\ Valid(MessageOf(texts)) => AsMessage(v) # {}

\* Two values of one type whose texts and arrays have the same sizes are equal just
\* if they are the same, nested or not (value.cpp:47-95). Without that condition
\* one that begins the other one is equal to it: value.hpp:111 has no such
\* condition, but operator== looks at the size of the left one only (lines 80-88).
SameSizes ==
    LET same[a \in Values, b \in Values] ==
          /\ a.type = b.type
          /\ a.type = "array" =>
                Len(a.items) = Len(b.items)
                    /\ \A i \in DOMAIN a.items : same[a.items[i], b.items[i]]
          /\ a.type \in {"simple_string", "error", "bulk_string"} =>
                Len(a.text) = Len(b.text)
    IN  same
EqualMeansSame ==
    \A a, b \in Answers : SameSizes[a, b] => Equal[a, b] = {a = b}
=============================================================================
