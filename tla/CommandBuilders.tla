-------------------------- MODULE CommandBuilders --------------------------
(***************************************************************************)
(* The functions that build commands (commands.hpp, commands.cpp and       *)
(* commands-hash, -json, -list, -set and -ttl.hpp).                        *)
(*                                                                         *)
(* A call has the builder's name and one argument per parameter: a string, *)
(* a number, a redis::value, an array for a vector or a parameter pack,    *)
(* HashValue of a map, nil for ttl_param::None. Overloads with a vector or *)
(* a map have names of their own. The name of a command is one symbol.     *)
(***************************************************************************)
EXTENDS Value

Call(builder, args) == [builder |-> builder, args |-> args]

-----------------------------------------------------------------------------
(* Builders that send the name of the command and then every argument.     *)

StringCommands ==
    [flush_all |-> <<"FLUSHALL">>, get |-> <<"GET">>, set |-> <<"SET">>,
     incr |-> <<"INCR">>, incrby |-> <<"INCRBY">>, incrbyfloat |-> <<"INCRBYFLOAT">>,
     decr |-> <<"DECR">>, decrby |-> <<"DECR", "SP", "BY">>, publish |-> <<"PUBLISH">>]

KeyCommands == [del |-> <<"DEL">>, exists |-> <<"EXISTS">>]

HashCommands ==
    [hexists |-> <<"hexists">>, hset |-> <<"HSET">>, hset_map |-> <<"HSET">>,
     hsetnx |-> <<"HSETNX">>, hget |-> <<"HGET">>, hget_fields |-> <<"HSET">>,
     hgetall |-> <<"HGETALL">>, hkeys |-> <<"HKEYS">>, hvals |-> <<"HVALS">>,
     hdel |-> <<"HDEL">>, hlen |-> <<"HLEN">>, hincrby |-> <<"HINCRBY">>,
     hincrbyfloat |-> <<"HINCRBYFLOAT">>]

ListCommands ==
    [rpush |-> <<"RPUSH">>, rpush_array |-> <<"RPUSH">>, rpushx |-> <<"RPUSHX">>,
     rpushx_array |-> <<"RPUSHX">>, brpop |-> <<"BRPOP">>, brpop_keys |-> <<"BRPOP">>,
     lpush |-> <<"LPUSH">>, lpush_array |-> <<"LPUSH">>, lpushx |-> <<"LPUSHX">>,
     lpushx_array |-> <<"LPUSHX">>, blpop |-> <<"BLPOP">>, blpop_keys |-> <<"BLPOP">>,
     lset |-> <<"LSET">>, llen |-> <<"LLEN">>, lindex |-> <<"LINDEX">>,
     lrange |-> <<"LRANGE">>, lrem |-> <<"LREM">>]

SetCommands ==
    [sadd |-> <<"SADD">>, sdiff |-> <<"SDIFF">>, sinter |-> <<"SINTER">>,
     sismember |-> <<"SISMEMBER">>, sismember_strings |-> <<"SISMEMBER">>,
     smembers |-> <<"SMEMBERS">>, srem |-> <<"SREM">>, sunion |-> <<"SUNION">>]

TtlCommands == [persist |-> <<"PERSIST">>, pttl |-> <<"PTTL">>, ttl |-> <<"TTL">>]

JsonCommands ==
    [json_get |-> <<"JSON.GET">>, json_set |-> <<"JSON.SET">>, json_del |-> <<"JSON.DEL">>,
     json_type |-> <<"JSON.TYPE">>, json_strlen |-> <<"JSON.STRLEN">>,
     json_strappend |-> <<"JSON.STRAPPEND">>, json_numincrby |-> <<"JSON.NUMINCRBY">>,
     json_nummultby |-> <<"JSON.NUMMULTBY">>, json_arrappend |-> <<"JSON.ARRAPPEND">>,
     json_arrinsert |-> <<"JSON.ARRINSERT">>, json_arrtrim |-> <<"JSON.ARRTRIM">>,
     json_arrpop |-> <<"JSON.ARRPOP">>, json_objlen |-> <<"JSON.OBJLEN">>,
     json_objkeys |-> <<"JSON.OBJKEYS">>]

PlainCommands ==
    StringCommands @@ KeyCommands @@ HashCommands @@ ListCommands @@ SetCommands
        @@ TtlCommands @@ JsonCommands

-----------------------------------------------------------------------------
(* The arguments as words: none at all if one cannot be converted, where   *)
(* (string)value throws.                                                   *)

\* std::to_string(double) rounds to six decimals. A double is a number of units
\* of 10^-7, its text the nearest number of units of 10^-6; one in the middle,
\* which a binary double hardly ever is, goes to the greater one.
DoubleValue(n) == [type |-> "double", number |-> n]
DoubleText(n) == Decimal((n + 5) \div 10) \o <<"e-6">>

WordOf(v) == IF v.type = "double" THEN {DoubleText(v.number)} ELSE AsString(v)

WordsOfArgument(v) ==
    IF v.type # "array" THEN {<<word>> : word \in WordOf(v)}
    ELSE IF \E i \in DOMAIN v.items : WordOf(v.items[i]) = {} THEN {}
    ELSE {[i \in DOMAIN v.items |-> CHOOSE word \in WordOf(v.items[i]) : TRUE]}

\* Mutant of Words: an argument without text is left out
WordsThatConvert(name, args) ==
    {<<name>> \o FlattenSeq([i \in DOMAIN args |->
                   IF WordsOfArgument(args[i]) \subseteq {<<>>, << <<>> >>} THEN <<>>
                   ELSE CHOOSE words \in WordsOfArgument(args[i]) : TRUE])}

Words(name, args) ==
    IF \E i \in DOMAIN args : WordsOfArgument(args[i]) = {} THEN {}
    ELSE {<<name>> \o FlattenSeq([i \in DOMAIN args |->
                        CHOOSE words \in WordsOfArgument(args[i]) : TRUE])}

-----------------------------------------------------------------------------
(* Builders that look at their arguments.                                  *)

\* Mutant of Expire: like ExpireAt, it forgets the time when there is a flag
ExpireForgets(name, args) ==
    IF args[3] = NilValue THEN Words(name, <<args[1], args[2]>>)
    ELSE Words(name, <<args[1], args[3]>>)

Expire(name, args) ==
    IF args[3] = NilValue THEN Words(name, <<args[1], args[2]>>) ELSE Words(name, args)

\* expireat and pexpireat: with a flag, the time is not sent
ExpireAt(name, args) ==
    IF args[3] = NilValue THEN Words(name, <<args[1], args[2]>>)
    ELSE Words(name, <<args[1], args[3]>>)

\* rpop and lpop: no count, no argument; spop: one
Pop(name, args, default) ==
    IF args[2] = IntegerValue(default) THEN Words(name, <<args[1]>>)
    ELSE Words(name, args)

LInsert(where, args) ==
    Words(<<"LINSERT">>, <<args[1], SimpleStringValue(where), args[2]>>)

Build(call) ==
    LET args == call.args IN
    CASE call.builder = "expire"    -> Expire(<<"EXPIRE">>, args)
      [] call.builder = "pexpire"   -> Expire(<<"PEXPIRE">>, args)
      [] call.builder = "expireat"  -> ExpireAt(<<"EXPIREAT">>, args)
      [] call.builder = "pexpireat" -> ExpireAt(<<"PEXPIREAT">>, args)
      [] call.builder = "rpop"      -> Pop(<<"RPOP">>, args, 0)
      [] call.builder = "lpop"      -> Pop(<<"LPOP">>, args, 0)
      [] call.builder = "spop"      -> Pop(<<"SPOP">>, args, 1)
      [] call.builder = "linsertbefore" -> LInsert(<<"BEFORE">>, args)
      [] call.builder = "linsertafter"  -> LInsert(<<"AFTER">>, args)
      [] OTHER -> Words(PlainCommands[call.builder], args)
=============================================================================
