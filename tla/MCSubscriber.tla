---------------------------- MODULE MCSubscriber ----------------------------
(***************************************************************************)
(* Small instances of Subscriber for TLC.                                  *)
(***************************************************************************)
EXTENDS Subscriber

CONSTANTS rd1, rd2, s1, s2, k1, k2, news

OneReader == {rd1}
TwoReaders == {rd1, rd2}
NoSenders == {}
OneSender == {s1}
TwoSenders == {s1, s2}
NoConsumers == {}
OneConsumer == {k1}
TwoConsumers == {k1, k2}
OneTopic == {news}
NoCommands == <<>>
Asks(verb) == [verb |-> verb, topic |-> news]
OnePing == s1 :> Asks("ping")
SubscribeAndPing == s1 :> Asks("subscribe") @@ s2 :> Asks("ping")
PsubscribeAndReset == s1 :> Asks("psubscribe") @@ s2 :> Asks("reset")
=============================================================================
