---------------------------- MODULE MCReplyLoop ----------------------------
(***************************************************************************)
(* Small instances of ReplyLoop for TLC.                                   *)
(***************************************************************************)
EXTENDS ReplyLoop

\* One of each type, numbers in both forms, and strings that end a line in
\* their middle or look like a reply
OneX == BulkStringValue(<<"x">>)
Scalars ==
    {NilValue, IntegerValue(-1), IntegerValue(0), IntegerValue(10),
     SimpleStringValue(<<"x", "x">>), ErrorValue(<<"x">>), OneX,
     BulkStringValue(<<>>), BulkStringValue(<<"x", "CR", "LF">>),
     BulkStringValue(<<":", "1">>), BulkStringValue(<<"1", "0">>),
     BulkStringValue(<<"-", "1">>)}

\* Empty and nested arrays, with a null, and what HGETALL returns
Pair == ArrayValue(<<IntegerValue(-1), IntegerValue(0)>>)
Arrays ==
    {ArrayValue(<<>>), Pair, ArrayValue(<<IntegerValue(0), IntegerValue(-1)>>),
     ArrayValue(<<NilValue, SimpleStringValue(<<"x", "x">>)>>),
     ArrayValue(<<OneX, Pair>>), ArrayValue(<<OneX, NilValue, OneX, OneX>>)}

\* Messages of a channel and of a pattern, and arrays that are nearly one
Ten == BulkStringValue(<<"1", "0">>)
Word(w) == BulkStringValue(<<w>>)
Messages ==
    {ArrayValue(<<Word("message"), OneX, Ten>>),
     ArrayValue(<<Word("pmessage"), Ten, OneX, BulkStringValue(<<>>)>>),
     ArrayValue(<<Word("pmessage"), IntegerValue(0), IntegerValue(10)>>),
     ArrayValue(<<Word("message"), OneX, IntegerValue(0), NilValue>>),
     ArrayValue(<<Word("message"), IntegerValue(0), IntegerValue(0), IntegerValue(0),
                  IntegerValue(0)>>)}
Words == {Word("message"), Word("pmessage")}

ManyValues == Scalars \cup Arrays \cup Messages \cup Words

\* What EXEC returns of two commands, the first of which failed
ExecFailed == ArrayValue(<<ErrorValue(<<"x">>), IntegerValue(0)>>)
ValuesWithExec == {ErrorValue(<<"x">>), IntegerValue(0), ExecFailed}

AnyBytes == BoundedSeq({"+", "-", "$", "*", ":", "CR", "2", "x"}, 4)
NoBytes == {}

\* A buffer of its own for each read, and one that has been used before
Fresh == <<>>
FewValues ==
    {ErrorValue(<<"x">>), OneX, IntegerValue(-1), IntegerValue(0), IntegerValue(10), Pair,
     ArrayValue(<<OneX, Pair>>)}
UsedBefore ==
    LineOf(":", <<"0">>) \o LineOf(":", <<"0">>) \o LineOf("*", <<"1">>)
        \o LineOf("+", <<"x", "x">>) \o LineOf("-", <<"x">>)
=============================================================================
