---------------------------- MODULE MessageFeed ----------------------------
(***************************************************************************)
(* What a subscriber promises to those who call read() (subscriber.hpp:97, *)
(* 109): messages are taken from the link and handed over, each once and   *)
(* in the order they came; only once the feed was closed may those that    *)
(* nobody has read be given up, the last ones first.                       *)
(***************************************************************************)
EXTENDS Naturals, SequencesExt

VARIABLES
    coming,     \* messages under way on the link
    pending,    \* taken from it and not yet handed over
    delivered,  \* handed over to the callers of read(), in order
    closed      \* the feed was closed by stop()

feed == <<coming, pending, delivered, closed>>

Init ==
    /\ coming = <<>>
    /\ pending = <<>>
    /\ delivered = <<>>
    /\ closed = FALSE

\* The server sends, the link loses what is under way, a login reads its answer
Elsewhere == coming' # coming /\ UNCHANGED <<pending, delivered, closed>>

Take ==
    /\ \E n \in 1..Len(coming) :
          /\ pending' = pending \o SubSeq(coming, 1, n)
          /\ coming' = SubSeq(coming, n + 1, Len(coming))
    /\ UNCHANGED <<delivered, closed>>

Deliver ==
    /\ pending # <<>>
    /\ delivered' = Append(delivered, Head(pending))
    /\ pending' = Tail(pending)
    /\ UNCHANGED <<coming, closed>>

Close == closed' = TRUE /\ UNCHANGED <<coming, pending, delivered>>

GiveUp ==
    /\ closed
    /\ IsPrefix(pending', pending)
    /\ UNCHANGED <<coming, delivered, closed>>

Next == Elsewhere \/ Take \/ Deliver \/ Close \/ GiveUp

Spec == Init /\ [][Next]_feed
=============================================================================
