------------------------------ MODULE Exchange ------------------------------
(***************************************************************************)
(* From a call to its answer: commands are built from texts, from words or *)
(* by the builders, sent as one pipeline (client.cpp:110-147), read and    *)
(* run by a server, and the answers are parsed and converted; what is      *)
(* published is parsed and converted on the link of a subscriber.          *)
(*                                                                         *)
(* The reads return whole replies here; what happens to those that are cut *)
(* is the subject of ReplyLoop and of RedisClient.                         *)
(***************************************************************************)
EXTENDS Command, CommandBuilders

CONSTANTS
    Pipelines   \* sequences of texts, lists of words and calls of builders

\* A command is a vector of strings, whose sizes fit into int64_t
Fits(list) ==
    /\ list \in Seq(Seq(STRING)) /\ Len(list) <= MaxLong
    /\ \A i \in DOMAIN list : Len(list[i]) <= MaxLong

ASSUME PipelinesAssumption ==
    \A p \in Pipelines : Len(p) \in Nat /\ \A i \in 1..Len(p) :
        LET item == p[i] IN
        /\ item.from \in {"text", "words", "builder"}
        /\ item.from = "text" => item.text \in Seq(STRING) /\ Len(item.text) <= MaxLong
        /\ item.from = "words" => Fits(item.words)
        /\ item.from = "builder" => \A list \in Build(item.call) : Fits(list)

\* What a command of a pipeline is made from
Text(t) == [from |-> "text", text |-> t]
List(list) == [from |-> "words", words |-> list]
Made(call) == [from |-> "builder", call |-> call]

VARIABLES
    pipeline,  \* what the commands are made from
    batch,     \* the commands: their words
    wire,      \* bytes that the server has still to read
    received,  \* the commands it read
    store,     \* what it keeps: contents by key
    given,     \* its replies
    pushed,    \* what it sent to a subscriber
    answers    \* the replies the client returned

vars == <<commandVars, pipeline, batch, wire, received, store, given, pushed, answers>>

Init ==
    /\ NoCommand
    /\ pipeline \in Pipelines
    /\ batch = <<>>
    /\ wire = <<>>
    /\ received = <<>>
    /\ store = << >>
    /\ given = <<>>
    /\ pushed = <<>>
    /\ answers = <<>>

-----------------------------------------------------------------------------
(* The client sends.                                                       *)

outside == <<pipeline, wire, received, store, given, pushed, answers>>

Construct ==
    /\ Len(batch) < Len(pipeline)
    /\ LET item == pipeline[Len(batch) + 1] IN
       \/ item.from = "text" /\ FromText(item.text)
       \/ item.from = "words" /\ FromWords(item.words)
       \/ item.from = "builder" /\ \E list \in Build(item.call) : FromWords(list)
    /\ UNCHANGED <<batch, outside>>

\* A conversion to string in a builder throws: no command, nothing is sent
Throw ==
    /\ stage = "idle"
    /\ Len(batch) < Len(pipeline)
    /\ LET item == pipeline[Len(batch) + 1]
       IN  item.from = "builder" /\ Build(item.call) = {}
    /\ stage' = "threw"
    /\ UNCHANGED <<text, it, member, words, batch, outside>>

ReadText == Turn /\ UNCHANGED <<batch, outside>>

Collect ==
    /\ stage = "built"
    /\ batch' = Append(batch, words)
    /\ words' = <<>>
    /\ text' = <<>>
    /\ it' = 1
    /\ stage' = "idle"
    /\ UNCHANGED <<member, outside>>

\* The commands of a pipeline are written one behind the other
SendAll ==
    /\ stage = "idle"
    /\ Len(batch) = Len(pipeline)
    /\ wire' = FlattenSeq([i \in DOMAIN batch |-> SerializedCommand(batch[i])])
    /\ stage' = "sent"
    /\ UNCHANGED <<text, it, member, words, pipeline, batch, received, store,
                   given, pushed, answers>>

-----------------------------------------------------------------------------
(* The server.                                                             *)

\* It reads an array of bulk strings, or a line of one plain word
Request ==
    LET OfStrings(request) ==
          [words |-> [i \in DOMAIN request.value.items |-> request.value.items[i].text],
           next  |-> request.next]
    IN  IF wire[1] = "*" THEN OfStrings(ParseReply(wire, 1))
        ELSE [words |-> <<Line(wire, 1)>>, next |-> AfterLine(wire, 1)]

Plain(word) ==
    word # <<>> /\ word[1] # "*" /\ Range(word) \cap {"SP", "QUOTE", "CR", "LF"} = {}

\* Names are not case-sensitive
Named(list) == IF list[1] = <<"hexists">> THEN "HEXISTS"
               ELSE IF Len(list[1]) = 1 THEN list[1][1] ELSE "unknown"

\* How many arguments the commands take
Arguments(name) ==
    CASE name \in {"FLUSHALL", "PING"} -> 0..1
      [] name \in {"GET", "INCR", "DECR", "HGETALL", "HKEYS", "HVALS", "HLEN", "LLEN",
                   "SMEMBERS", "PERSIST", "PTTL", "TTL"} -> {1}
      [] name \in {"INCRBY", "INCRBYFLOAT", "DECRBY", "HGET", "HEXISTS", "LINDEX",
                   "SISMEMBER", "PUBLISH"} -> {2}
      [] name \in {"HSETNX", "HINCRBY", "HINCRBYFLOAT", "LSET", "LRANGE", "LREM",
                   "JSON.STRAPPEND", "JSON.NUMINCRBY", "JSON.NUMMULTBY"} -> {3}
      [] name \in {"LINSERT", "JSON.ARRTRIM"} -> {4}
      [] name \in {"RPOP", "LPOP", "SPOP", "JSON.DEL", "JSON.TYPE", "JSON.STRLEN",
                   "JSON.OBJLEN", "JSON.OBJKEYS"} -> 1..2
      [] name \in {"EXPIRE", "PEXPIRE", "EXPIREAT", "PEXPIREAT"} -> 2..3
      [] name \in {"DEL", "EXISTS", "SDIFF", "SINTER", "SUNION", "JSON.GET",
                   "JSON.ARRPOP"} -> Nat \ {0}
      [] name \in {"SET", "HDEL", "SADD", "SREM", "RPUSH", "LPUSH", "RPUSHX", "LPUSHX",
                   "BRPOP", "BLPOP", "HMGET", "SMISMEMBER"} -> Nat \ {0, 1}
      [] name \in {"JSON.SET", "JSON.ARRAPPEND"} -> Nat \ (0..2)
      [] name = "JSON.ARRINSERT" -> Nat \ (0..3)
      [] name = "HSET" -> {n \in Nat : n > 1 /\ n % 2 = 1}
      [] OTHER -> {}

Accepts(list) == Len(list) - 1 \in Arguments(Named(list))

\* What it answers and keeps, for the commands by which a test can tell; all
\* others it accepts, and changes nothing
Bulk(texts) == ArrayValue([i \in DOMAIN texts |-> BulkStringValue(texts[i])])
Kind == [GET |-> "string", HSET |-> "hash", HGETALL |-> "hash", RPUSH |-> "list",
         LRANGE |-> "list", SADD |-> "set", SMEMBERS |-> "set"]
Empty == [string |-> <<>>, hash |-> << >>, list |-> <<>>, set |-> {}]

Run(list) ==
    LET name == Named(list)
        key  == list[2]
        args == SubSeq(list, 3, Len(list))
        kept == IF key \in DOMAIN store THEN store[key].content ELSE Empty[Kind[name]]
        Reply(reply) == [reply |-> reply, store |-> store, pushed |-> <<>>]
        Keep(kind, content, reply) ==
            [reply |-> reply, pushed |-> <<>>,
             store |-> [k \in DOMAIN store \cup {key} |->
                          IF k = key THEN [kind |-> kind, content |-> content] ELSE store[k]]]
        Count(old, new) == IntegerValue(Cardinality(new) - Cardinality(old))
    IN  IF \/ ~ Accepts(list)
           \/ name \in DOMAIN Kind /\ key \in DOMAIN store /\ store[key].kind # Kind[name]
        THEN {Reply(ErrorValue(<<"x">>))}
        ELSE CASE name = "SET" ->
                    {Keep("string", args[1], SimpleStringValue(<<"OK">>))}
               [] name = "GET" ->
                    {Reply(IF key \in DOMAIN store THEN BulkStringValue(kept) ELSE NilValue)}
               [] name = "HSET" ->
                    LET pairs == 1..(Len(args) \div 2)
                        Latest(field) == Max({k \in pairs : args[2 * k - 1] = field})
                        fields == {args[2 * k - 1] : k \in pairs}
                        set == [field \in DOMAIN kept \cup fields |->
                                  IF field \in fields THEN args[2 * Latest(field)]
                                  ELSE kept[field]]
                    IN  {Keep("hash", set, Count(DOMAIN kept, DOMAIN set))}
               [] name = "HGETALL" ->
                    {Reply(Bulk(FlattenSeq([i \in DOMAIN fields |->
                                    <<fields[i], kept[fields[i]]>>]))) :
                        fields \in SetToSeqs(DOMAIN kept)}
               [] name = "RPUSH" ->
                    {Keep("list", kept \o args, IntegerValue(Len(kept \o args)))}
               [] name = "LRANGE" /\ args = <<<<"0">>, <<"-", "1">>>> -> {Reply(Bulk(kept))}
               [] name = "SADD" ->
                    {Keep("set", kept \cup Range(args), Count(kept, kept \cup Range(args)))}
               [] name = "SMEMBERS" -> {Reply(Bulk(members)) : members \in SetToSeqs(kept)}
               [] name = "PUBLISH" ->
                    {[Reply(IntegerValue(2)) EXCEPT !.pushed =
                        <<Bulk(<<<<"message">>, key, args[1]>>),
                          Bulk(<<<<"pmessage">>, <<"*">>, key, args[1]>>)>>]}
               [] OTHER -> {Reply(SimpleStringValue(<<"x">>))}

\* A command of one word goes out as a raw line (command.cpp:57): what the server
\* makes of one that is not plain is not followed
LinesArePlain == \A i \in DOMAIN batch : Len(batch[i]) = 1 => Plain(batch[i][1])

Serve ==
    /\ stage = "sent"
    /\ wire # <<>>
    /\ LinesArePlain
    /\ \E request \in {Request} : \E outcome \in Run(request.words) :
          /\ received' = Append(received, request.words)
          /\ wire' = SubSeq(wire, request.next, Len(wire))
          /\ given' = Append(given, outcome.reply)
          /\ store' = outcome.store
          /\ pushed' = pushed \o outcome.pushed
    /\ UNCHANGED <<commandVars, pipeline, batch, answers>>

-----------------------------------------------------------------------------
(* The client and a subscriber read whole replies: client.cpp:138-147,     *)
(* subscriber.cpp:146-158.                                                 *)

Loaded(buffer) ==
    LET from[i \in Nat] ==
          LET Behind(response) ==
                <<[value |-> response.value, error |-> response.error]>>
                    \o from[response.next]
          IN  IF i = End(buffer) THEN <<>> ELSE Behind(ParseReply(buffer, i))
    IN  from[1]

\* Where nothing was sent it waits for ever
Answer ==
    /\ stage = "sent"
    /\ wire = <<>>
    /\ given # <<>>
    /\ answers' = Loaded(BytesOf(given))
    /\ stage' = "answered"
    /\ UNCHANGED <<text, it, member, words, pipeline, batch, wire, received,
                   store, given, pushed>>

Next == Construct \/ Throw \/ ReadText \/ Collect \/ SendAll \/ Serve \/ Answer

Spec == Init /\ [][Next]_vars

-----------------------------------------------------------------------------
(* Properties.                                                             *)

\* Words read from a text are never empty (command.cpp:7-42).
TypeOK ==
    /\ it \in 1..End(text)
    /\ stage \in {"idle", "reading", "built", "undefined", "threw", "sent", "answered"}
    /\ Len(batch) <= Len(pipeline)
    /\ \A k \in DOMAIN batch :
          pipeline[k].from = "text" => \A i \in DOMAIN batch[k] : batch[k][i] # <<>>
    /\ \A key \in DOMAIN store : store[key].kind \in DOMAIN Empty
    /\ Len(received) = Len(given)
    /\ \A i \in DOMAIN given : given[i] \in Values

\* The server gets the words of every command of the pipeline, in order, and no
\* byte is left for another one, whatever bytes the words of commands of two or
\* more hold, if each command of one word is a plain one; one of none is not sent
\* (command.cpp:51-73, client.cpp:116-119).
Commands ==
    FlattenSeq([i \in DOMAIN batch |-> IF batch[i] = <<>> THEN <<>> ELSE <<batch[i]>>])
WordsReachServer ==
    LinesArePlain /\ received # <<>> =>
        IsPrefix(received, Commands) /\ (wire = <<>> => received = Commands)

\* What a caller means by a call: the command that the builder is named after,
\* with the texts of all arguments in their order, without defaults
Meaning(builder) ==
    CASE builder = "decrby" -> "DECRBY"
      [] builder = "hexists" -> "HEXISTS"
      [] builder = "hget_fields" -> "HMGET"
      [] builder = "sismember_strings" -> "SMISMEMBER"
      [] builder \in {"expire", "pexpire", "expireat", "pexpireat", "rpop", "lpop", "spop"} ->
            [expire |-> "EXPIRE", pexpire |-> "PEXPIRE", expireat |-> "EXPIREAT",
             pexpireat |-> "PEXPIREAT", rpop |-> "RPOP", lpop |-> "LPOP",
             spop |-> "SPOP"][builder]
      [] builder \in {"linsertbefore", "linsertafter"} -> "LINSERT"
      [] OTHER -> PlainCommands[builder][1]

Exactly(v) ==
    IF v.type = "double" /\ v.number % 10 # 0 THEN <<Decimal(v.number) \o <<"e-7">>>>
    ELSE IF v.type = "array" THEN FlattenSeq([i \in DOMAIN v.items |-> <<The(WordOf(v.items[i]))>>])
    ELSE <<The(WordOf(v))>>
Given(call) ==
    LET Said(v) ==
          /\ v # NilValue
          /\ ~ (call.builder \in {"rpop", "lpop"} /\ v = IntegerValue(0))
          /\ ~ (call.builder = "spop" /\ v = IntegerValue(1))
        said == SelectSeq(call.args, Said)
    IN  FlattenSeq([i \in DOMAIN said |-> Exactly(said[i])])

\* The calls that do not do what they are named after
Garbled(call) ==
    \/ call.builder \in {"decrby", "hget_fields", "linsertbefore", "linsertafter",
                         "sismember_strings"}
    \/ call.builder \in {"expireat", "pexpireat"} /\ call.args[3] # NilValue
    \/ \E i \in DOMAIN call.args :
          call.args[i].type = "double" /\ call.args[i].number % 10 # 0

\* What a builder's call comes to at the server, over parameter packs, maps,
\* flags and defaults: the command meant, with all that the caller gave and in
\* an accepted number of arguments. All builders but the garbled ones do
\* (commands*.hpp, commands.cpp; README, "What the code does otherwise").
CallsAreUnderstood ==
    (received # <<>> /\ \A i \in DOMAIN pipeline : pipeline[i].from = "builder") =>
        \A i \in DOMAIN received :
            LET call == pipeline[i].call
                understood == /\ Accepts(received[i])
                              /\ Named(received[i]) = Meaning(call.builder)
                              /\ Tail(received[i]) = Given(call)
            IN  understood <=> ~ Garbled(call)

\* What is written by a call and read by the next one comes back the same:
\* strings, maps, lists and sets of any bytes, of numbers too, through the
\* builder, the wire, the answer, the parser and as<T>() (commands*.hpp,
\* command.cpp:51-73, reply.cpp:26-220, value.hpp:192-373).
ReadsBack(call, answer) ==
    LET written == call.args[2]
        Texts(v) == [k \in DOMAIN v.items |-> AsString(v.items[k])]
    IN  CASE call.builder = "set" -> AsString(answer) = AsString(written)
          [] call.builder = "hset_map" ->
                LET TextsOf(hash) == [field \in DOMAIN hash |-> AsString(hash[field])]
                IN  {TextsOf(hash) : hash \in AsHash(answer)}
                        = {TextsOf(hash) : hash \in AsHash(written)}
          [] call.builder = "rpush_array" -> \A array \in AsArray(answer) :
                [k \in DOMAIN array |-> AsString(array[k])] = Texts(written)
          [] call.builder = "sadd" -> Range(Texts(answer)) = Range(Texts(written))
          [] OTHER -> TRUE
StoredComesBack ==
    stage = "answered" =>
        \A i \in DOMAIN pipeline :
            (/\ i + 1 \in DOMAIN pipeline
             /\ {pipeline[i].from, pipeline[i + 1].from} = {"builder"}
             /\ pipeline[i + 1].call.builder \in {"get", "hgetall", "lrange", "smembers"}
             /\ pipeline[i + 1].call.args[1] = pipeline[i].call.args[1])
                => ReadsBack(pipeline[i].call, answers[i + 1].value)

\* Every published message reaches read() and reads as a message, with its
\* channel, its contents and, if it came by a pattern, that (commands.cpp:40,
\* subscriber.cpp:143-161, value.hpp:375-412; redis_sub_test.cpp:95-120).
PublishedIsRead ==
    LET Published(item) == item.from = "builder" /\ item.call.builder = "publish"
        calls == SelectSeq(pipeline, Published)
        Of(item, pattern) == LET args == item.call.args
                             IN  {Message(args[1].text, pattern, args[2].text)}
        Messages(feed) == [i \in DOMAIN feed |-> AsMessage(feed[i].value)]
    IN  stage = "answered" =>
            Messages(Loaded(BytesOf(pushed)))
                = FlattenSeq([k \in DOMAIN calls |->
                                <<Of(calls[k], <<>>), Of(calls[k], <<"*">>)>>])

\* A pipeline has one answer for each of its commands, in their order; the
\* refused ones are those with the error, and only they read as FALSE where SET
\* reads as TRUE (client.cpp:138-147, value.hpp:414-430;
\* redis_client_test.cpp:217-224).
OutcomesTold ==
    stage = "answered" =>
        /\ Len(answers) = Len(Commands)
        /\ \A i \in DOMAIN answers :
              LET refused == ~ Accepts(received[i]) IN
              /\ refused => answers[i].error = "error" /\ AsBool(answers[i].value) = {FALSE}
              /\ Named(received[i]) = "SET" /\ ~ refused => AsBool(answers[i].value) = {TRUE}

=============================================================================
