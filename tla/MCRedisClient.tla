--------------------------- MODULE MCRedisClient ---------------------------
(***************************************************************************)
(* Small instances of RedisClient for TLC.                                 *)
(***************************************************************************)
EXTENDS RedisClient

CONSTANTS r1, r2, r3, c1, c2

\* Two single calls and a pipeline of two commands, for at most two sockets
ThreeCalls == {r1, r2, r3}
TwoCalls == {r1, r2}
SinglesOnly == {}
PipelineR2 == {r2}
SizesOfThree == [r \in ThreeCalls |-> IF r = r2 THEN 2 ELSE 1]
SizesOfTwo == [r \in TwoCalls |-> IF r = r2 THEN 2 ELSE 1]
AllSingle == [r \in TwoCalls |-> 1]

TwoSlots == {c1, c2}
OneSlot == {c1}

WithPassword == {[limit |-> 2, password |-> TRUE]}
OneWithoutPassword == {[limit |-> 1, password |-> FALSE]}
AnyConfig == [limit : 1..2, password : BOOLEAN]
=============================================================================
