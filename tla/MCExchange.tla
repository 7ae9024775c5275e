----------------------------- MODULE MCExchange -----------------------------
(***************************************************************************)
(* Small instances of Exchange for TLC.                                    *)
(***************************************************************************)
EXTENDS Exchange

\* What a read buffer may hold from an earlier read
UsedBefore == LineOf(":", <<"0">>)

\* Everything a server may send here; MaxLong only has to hold the lengths
Scalar ==
    [type : {"nil"}] \cup [type : {"simple_string", "error", "bulk_string"}, text : Seq(STRING)]
        \cup [type : {"integer"}, number : Int]
AnyValue == Scalar \cup [type : {"array"}, items : Seq(Scalar)]

\* One text, or lists of words
ShortTexts == BoundedSeq({"SP", "QUOTE", "x", "*"}, 6)
ShortWords == BoundedSeq({"SP", "QUOTE", "x", "CR", "$", "1"}, 2)
FewWords == {<<>>, <<"x">>, <<"CR", "LF">>, <<"*">>, <<"$", "1">>}
FromTexts == {<<Text(t)>> : t \in ShortTexts}
FromLists == {<<List(list)>> : list \in BoundedSeq(ShortWords, 2)}
FromTwo == {<<List(a), List(b)>> : a, b \in BoundedSeq(FewWords, 2)}

\* Arguments: a plain one, a line end, numbers
S(bytes) == SimpleStringValue(bytes)
Key == S(<<"x">>)
Line2 == S(<<"CR", "LF">>)
Two == IntegerValue(2)
Minus == IntegerValue(-1)
Zero == IntegerValue(0)
Nothing == ArrayValue(<<>>)
Both == ArrayValue(<<Key, Line2>>)
Mixed == ArrayValue(<<Two, BulkStringValue(<<"$", "1">>), Minus>>)
AMap == HashValue(<<"x">> :> Two @@ <<"CR", "LF">> :> BulkStringValue(<<"SP">>))

SingleCalls ==
    {Call("flush_all", <<>>)}
    \cup {Call(b, <<Key>>) : b \in {"get", "incr", "decr", "hgetall", "hkeys", "hvals", "hlen",
             "llen", "smembers", "persist", "pttl", "ttl"}}
    \cup {Call(b, <<Both>>) : b \in {"del", "exists", "sdiff", "sinter", "sunion"}}
    \cup {Call(b, <<Key, Line2>>) : b \in {"publish", "hexists", "hget", "hdel", "sismember",
             "rpush", "rpushx", "lpush", "lpushx", "json_get", "json_del", "json_type",
             "json_strlen", "json_arrpop", "json_objlen", "json_objkeys"}}
    \cup {Call(b, <<Key, Minus>>) : b \in {"incrby", "decrby", "brpop", "blpop", "lindex",
             "linsertbefore", "linsertafter", "rpop", "lpop", "spop"}}
    \cup {Call(b, <<Key, Zero>>) : b \in {"rpop", "lpop"}} \cup {Call("spop", <<Key, IntegerValue(1)>>)}
    \cup {Call("incrbyfloat", <<Key, DoubleValue(n)>>) : n \in {-1, 0, 6, 20}}
    \cup {Call("hincrbyfloat", <<Key, Line2, DoubleValue(n)>>) : n \in {-10, 9}}
    \cup {Call(b, <<Key, Both>>) : b \in {"hget_fields", "rpush_array", "rpushx_array",
             "lpush_array", "lpushx_array", "sadd", "srem", "sismember_strings"}}
    \cup {Call(b, <<Both, Zero>>) : b \in {"brpop_keys", "blpop_keys"}}
    \cup {Call("set", <<Key, Line2, params>>) : params \in {Nothing, ArrayValue(<<S(<<"x">>)>>)}}
    \cup {Call("hset", <<Key, Line2, Minus, params>>) : params \in {Nothing, Both}}
    \cup {Call("hset_map", <<Key, AMap, params>>) : params \in {Nothing, Both}}
    \cup {Call(b, <<Key, Line2, Two>>) : b \in {"hsetnx", "hincrby"}}
    \cup {Call(b, <<Key, Two, Line2>>) : b \in {"lset", "lrem"}}
    \cup {Call("lrange", <<Key, Zero, Minus>>)}
    \cup {Call(b, <<Key, Line2, S(<<"$", "1">>)>>) : b \in {"json_set", "json_strappend",
             "json_numincrby", "json_nummultby", "json_arrappend"}}
    \cup {Call("json_arrinsert", <<Key, Line2, Both>>), Call("json_arrtrim", <<Key, Line2, Key, Key>>)}
    \cup {Call(b, <<Key, Two, flag>>) : b \in {"expire", "pexpire", "expireat", "pexpireat"},
             flag \in {NilValue, S(<<"x">>)}}

\* Calls with an argument that does not convert
BadCalls ==
    {Call("rpush", <<Key, NilValue>>), Call("hsetnx", <<Key, Key, NilValue>>),
     Call("rpush_array", <<Key, ArrayValue(<<Key, NilValue>>)>>)}

\* What is written and read again, in pipelines with something else around it
Writes ==
    {<<Call("set", <<Key, v, Nothing>>), Call("get", <<Key>>)>> :
        v \in {S(<<>>), Line2, S(<<"OK">>), S(<<"-", "1">>)}}
    \cup {<<Call("hset_map", <<Key, HashValue(map), Nothing>>), Call("hgetall", <<Key>>)>> :
        map \in {<<"x">> :> Two, <<>> :> Minus @@ <<"x">> :> Line2,
                 <<"CR", "LF">> :> BulkStringValue(<<"+">>) @@ <<"x">> :> S(<<>>)
                    @@ <<"$", "1">> :> ErrorValue(<<"x">>)}}
    \cup {<<Call("rpush_array", <<Key, v>>), Call("lrange", <<Key, Zero, Minus>>)>> :
        v \in {Both, Mixed, ArrayValue(<<Line2, Line2>>)}}
    \cup {<<Call("sadd", <<Key, v>>), Call("smembers", <<Key>>)>> :
        v \in {Both, ArrayValue(<<Line2, S(<<>>), Line2>>)}}

Publishes == {<<Call("publish", <<channel, contents>>)>> :
                 channel \in {Key, S(<<>>), S(<<"message">>)}, contents \in {S(<<>>), Line2, Key}}

Others == {<<>>, <<Call("set", <<Line2, Two, Nothing>>)>>, <<Call("decrby", <<Line2, Two>>)>>}

FromBuilders ==
    LET Calls(calls) == [i \in DOMAIN calls |-> Made(calls[i])] IN
    {<<Made(call)>> : call \in SingleCalls \cup BadCalls}
    \cup {Calls(before \o calls \o after) :
            before, after \in Others, calls \in Writes \cup Publishes}
    \cup {Calls(a \o b) : a, b \in Publishes \cup {<<call>> : call \in BadCalls}}

AllPipelines == FromTexts \cup FromLists \cup FromTwo \cup FromBuilders
=============================================================================
