----------------------- MODULE RedisClientReplyProofs -----------------------
(***************************************************************************)
(* Theorems about the replies of RedisClient when one read returns the     *)
(* answers to everything a call has written (ReadsAll), and about the      *)
(* service that it then implements, for all values of the other constants. *)
(***************************************************************************)
EXTENDS RedisClientProofs

-----------------------------------------------------------------------------
(* What a read of everything returns and what becomes of it.               *)

LEMMA FrontRead ==
    ASSUME TypeOK, NEW c \in Slots, Len(stream[c]) > 0, NEW read,
           read = [buffer |-> SubSeq(stream[c], 1, Len(stream[c])),
                   rest |-> SubSeq(stream[c], Len(stream[c]) + 1, Len(stream[c]))]
    PROVE  /\ Len(stream[c]) \in Nat \ {0}
           /\ read.buffer = stream[c] /\ read.rest = <<>>
<1> DEFINE wait == stream[c]
<1>1. wait \in Seq(Fragment) /\ Len(wait) \in Nat
  BY LenProperties DEF TypeOK
<1>2. SubSeq(wait, 1, Len(wait)) = wait
  BY <1>1, SubSeqFull
<1>3. SubSeq(wait, Len(wait) + 1, Len(wait)) = <<>>
  BY <1>1, SubSeqEmpty
<1> QED  BY <1>1, <1>2, <1>3

\* A call that reads leaves nothing on its link
LEMMA FullRead ==
    ASSUME TypeOK, ReadsAll, NEW r \in Requests, pc[r] \in {"auth_read", "read"},
           Progress(r), NEW c \in Slots, c = conn[r], NEW read \in ReadsOf(c)
    PROVE  /\ inbox[c] = <<>> /\ Len(stream[c]) \in Nat \ {0}
           /\ read.buffer = stream[c] /\ read.rest = <<>>
<1> DEFINE wait == stream[c]
           Replies(k) == [buffer |-> SubSeq(wait, 1, k),
                          rest   |-> SubSeq(wait, k + 1, Len(wait))]
<1>1. /\ wait \in Seq(Fragment) /\ Len(wait) \in Nat
      /\ inbox[c] \in Seq(Command) /\ Len(inbox[c]) \in Nat
  BY LenProperties DEF TypeOK
<1>2. CASE Delivery = "batch"
  <2>1. read \in {Replies(n) : n \in {m \in {Len(wait)} : m > 0 /\ inbox[c] = <<>>}}
    BY <1>2 DEF ReadsOf
  <2>2. PICK n \in {m \in {Len(wait)} : m > 0 /\ inbox[c] = <<>>} : read = Replies(n)
    BY <2>1
  <2>3. n = Len(wait) /\ n > 0 /\ inbox[c] = <<>>
    BY <2>2
  <2> QED  BY <2>2, <2>3, FrontRead
<1>3. CASE Delivery = "reply" /\ \A s \in Requests : Size[s] = 1
  <2>1. read \in {Replies(n) : n \in 1..Len(wait)}
    BY <1>3 DEF ReadsOf
  <2>2. PICK n \in 1..Len(wait) : read = Replies(n)
    BY <2>1
  <2>3. Len(wait) = 0 \/ (Len(wait) = 1 /\ Len(inbox[c]) = 0)
    <3>1. CASE pc[r] = "auth_read"
      <4>1. LoggingIn(conn[r])
        BY <3>1 DEF Progress
      <4>2. wait = <<>> \/ (inbox[c] = <<>> /\ Len(wait) = 1)
        BY <4>1 DEF LoggingIn
      <4>3. wait = <<>> => Len(wait) = 0
        BY <1>1, EmptySeq
      <4>4. inbox[c] = <<>> => Len(inbox[c]) = 0
        BY <1>1, EmptySeq
      <4> QED  BY <4>2, <4>3, <4>4
    <3>2. CASE pc[r] = "read"
      <4>1. Len(wait) <= executed[r] /\ executed[r] + Len(inbox[c]) <= Size[r]
        BY <3>2 DEF Progress, Answering
      <4>2. executed[r] \in Nat /\ Size[r] = 1
        BY <1>3 DEF TypeOK
      <4>3. \A a, b, n1 \in Nat : a <= n1 /\ n1 + b <= 1 => a = 0 \/ (a = 1 /\ b = 0)
        OBVIOUS
      <4>4. executed[r] + Len(inbox[c]) <= 1
        BY <4>1, <4>2
      <4> HIDE DEF wait
      <4> QED  BY <1>1, <4>1, <4>2, <4>3, <4>4, Zenon
    <3> QED  BY <3>1, <3>2
  <2>4. n = Len(wait) /\ n > 0 /\ Len(inbox[c]) = 0
    <3>1. CASE Len(wait) = 0
      BY <3>1
    <3>2. CASE Len(wait) = 1 /\ Len(inbox[c]) = 0
      BY <3>2
    <3> QED  BY <2>3, <3>1, <3>2
  <2>5. inbox[c] = <<>>
    BY <1>1, <2>4, EmptySeq
  <2>6. read = Replies(Len(wait))
    BY <2>2, <2>4
  <2> QED  BY <1>1, <2>4, <2>5, <2>6, FrontRead
<1> QED  BY <1>2, <1>3 DEF ReadsAll

LEMMA WholeParsed ==
    ASSUME NEW buffer, Len(buffer) \in Nat \ {0},
           \A i \in 1..Len(buffer) : buffer[i].form = "whole",
           NEW replies \in Parsed(buffer)
    PROVE  replies = [i \in 1..Len(buffer) |-> WholeReply(buffer[i])]
<1>1. 1 \in 1..Len(buffer) /\ Len(buffer) \in 1..Len(buffer) /\ Len(buffer) # 0
  OBVIOUS
<1>2. replies \in FromStart(buffer)
  BY <1>1 DEF Parsed
<1> QED  BY <1>1, <1>2 DEF FromStart

LEMMA FailedIs ==
    ASSUME NEW r \in Requests, NEW kind
    PROVE  /\ DOMAIN Failed(r, kind) = 1..Size[r]
           /\ \A i \in DOMAIN Failed(r, kind) :
                 Failed(r, kind)[i] = [kind |-> kind, call |-> r, n |-> i]
BY RequestsAssumption DEF Failed

\* What a call returns of the replies that it parsed
Kept(r, replies) == IF r \in Pipelined THEN replies ELSE <<replies[1]>>

\* The replies a call returns of the answers on its link are its own
LEMMA AnswersOwn ==
    ASSUME NEW r \in Requests, Answering(r),
           stream[conn[r]] \in Seq(Fragment), Len(stream[conn[r]]) \in Nat \ {0},
           NEW replies \in Parsed(stream[conn[r]])
    PROVE  /\ DOMAIN Kept(r, replies) = 1..Len(Kept(r, replies))
           /\ Len(Kept(r, replies)) = IF r \in Pipelined THEN Len(stream[conn[r]]) ELSE 1
           /\ \A i \in 1..Len(Kept(r, replies)) :
                 /\ Kept(r, replies)[i].call = r /\ Kept(r, replies)[i].n = i
                 /\ Kept(r, replies)[i].kind \in {"value", "error"}
<1> DEFINE got == stream[conn[r]]
           own == Kept(r, replies)
<1>1. /\ \A i \in 1..Len(got) : /\ got[i].call = r /\ got[i].n = i
                                /\ got[i].form = "whole"
  BY DEF Answering
<1>2. replies = [i \in 1..Len(got) |-> WholeReply(got[i])]
  BY <1>1, WholeParsed
<1>3. \A i \in 1..Len(got) : /\ replies[i].call = r /\ replies[i].n = i
                             /\ replies[i].kind \in {"value", "error"}
  BY <1>1, <1>2 DEF WholeReply, ReplyTo
<1>4. DOMAIN replies = 1..Len(got)
  BY <1>2
<1>5. \A i \in 1..Len(got) : got[i] \in Fragment
  BY ElementOfSeq
<1>6. replies \in Seq(Reply) /\ Len(replies) = Len(got)
  <2>1. \A i \in 1..Len(got) : WholeReply(got[i]) \in Reply
    BY <1>5 DEF WholeReply, ReplyTo, Fragment, Reply, ReplyKind, ErrorKind
  <2>2. replies \in [1..Len(got) -> Reply]
    BY <1>2, <2>1
  <2> QED  BY <2>2, FunctionIsSeq
<1> HIDE DEF got
<1>7. CASE r \in Pipelined
  <2>1. own = replies
    BY <1>7 DEF Kept
  <2> QED  BY <1>3, <1>4, <1>6, <1>7, <2>1 DEF got
<1>8. CASE r \notin Pipelined
  <2>1. own = <<replies[1]>> /\ 1 \in 1..Len(got)
    BY <1>8 DEF got, Kept
  <2>2. Len(own) = 1 /\ DOMAIN own = 1..1 /\ own[1] = replies[1]
    BY <2>1
  <2> QED  BY <1>3, <1>8, <2>1, <2>2
<1> QED  BY <1>7, <1>8

-----------------------------------------------------------------------------
(* The link of a call that reads, through its steps.                       *)

\* send(connection, ...) puts all commands of the call on a quiet link
LEMMA WriteAnswers ==
    ASSUME TypeOK, NEW r \in Requests, conn[r] \in Slots, Write(r),
           Quiet(conn[r]), executed[r] = 0
    PROVE  Answering(r)'
<1> DEFINE c == conn[r]
           sent == CommandsOf(r)
<1>1. /\ conn'[r] = c /\ executed'[r] = 0
      /\ Send(c, sent) /\ UNCHANGED <<link, stream>>
  BY DEF Write, Goto, Send
<1>2. stream'[c] = <<>> /\ Len(stream'[c]) = 0
  BY <1>1, EmptySeq DEF Quiet
<1>3. /\ sent \in Seq(Command) /\ Len(sent) = Size[r] /\ Size[r] \in Nat
      /\ \A i \in 1..Size[r] : sent[i] = [call |-> r, n |-> i]
  <2>1. Size[r] \in Nat
    BY RequestsAssumption
  <2>2. sent \in [1..Size[r] -> Command]
    BY <2>1 DEF CommandsOf, Command, Calls
  <2>3. \A i \in 1..Size[r] : sent[i] = [call |-> r, n |-> i]
    BY DEF CommandsOf
  <2> HIDE DEF sent
  <2> QED  BY <2>1, <2>2, <2>3, FunctionIsSeq
<1> HIDE DEF sent
<1>4. CASE link[c] = "up"
  <2>1. inbox'[c] = <<>> \o sent
    BY <1>1, <1>4 DEF Send, Quiet, TypeOK
  <2>2. inbox'[c] = sent
    BY <1>3, <2>1, ConcatEmptySeq
  <2> QED  BY <1>1, <1>2, <1>3, <2>2 DEF Answering
<1>5. CASE link[c] # "up"
  <2>1. inbox'[c] = <<>> /\ Len(inbox'[c]) = 0
    BY <1>1, <1>5, EmptySeq DEF Send, Quiet
  <2>2. link'[c] # "up"
    BY <1>1, <1>5
  <2> QED  BY <1>1, <1>2, <1>3, <2>1, <2>2 DEF Answering
<1> QED  BY <1>4, <1>5

\* The server runs the next command and answers it
LEMMA ServeAnswers ==
    ASSUME TypeOK, NEW r \in Requests, NEW c \in Slots, c = conn[r],
           Answering(r), Serve(c)
    PROVE  /\ Answering(r)'
           /\ Head(inbox[c]).call = r
           /\ executed[r] < Size[r]
           /\ executed' = [executed EXCEPT ![r] = @ + 1]
           /\ faults' = faults
<1> DEFINE wait == stream[c]
           box == inbox[c]
           command == Head(box)
<1>1. /\ box \in Seq(Command) /\ box # <<>> /\ wait \in Seq(Fragment)
      /\ Len(wait) \in Nat /\ executed[r] \in Nat /\ Size[r] \in Nat
      /\ inbox'[c] = Tail(box) /\ conn'[r] = c /\ link[c] = "up" /\ link' = link
  BY LenProperties, RequestsAssumption DEF Serve, TypeOK, callVars
<1>2. /\ Len(box) \in Nat \ {0} /\ 1 \in 1..Len(box)
      /\ Tail(box) \in Seq(Command) /\ Len(Tail(box)) = Len(box) - 1
      /\ \A i \in 1..(Len(box) - 1) : Tail(box)[i] = box[i + 1]
  <2>1. Len(box) \in Nat \ {0}
    BY <1>1, EmptySeq
  <2>2. /\ Tail(box) \in Seq(Command) /\ Len(Tail(box)) = Len(box) - 1
        /\ \A i \in 1..Len(Tail(box)) : Tail(box)[i] = box[i + 1]
    BY <1>1, HeadTailProperties
  <2> QED  BY <2>1, <2>2
<1>3. command = [call |-> r, n |-> Len(wait) + 1]
  <2>1. box[1] = [call |-> r, n |-> Len(wait) + 1]
    BY <1>2 DEF Answering
  <2>2. command = box[1]
    OBVIOUS
  <2> QED  BY <2>1, <2>2
<1>4. command.call = r /\ command.n = Len(wait) + 1 /\ command.call # AuthCall
  BY <1>3, RequestsAssumption
<1>5. PICK ok \in BOOLEAN :
         stream' = [stream EXCEPT ![c] = Append(@,
            [call |-> command.call, n |-> command.n, form |-> "whole", ok |-> ok])]
  BY DEF Serve
<1>6. executed' = [executed EXCEPT ![r] = @ + 1] /\ faults' = faults
  BY <1>4 DEF Serve, NoFault
<1> DEFINE answer == [call |-> r, n |-> Len(wait) + 1, form |-> "whole", ok |-> ok]
<1>7. /\ Len(stream'[c]) = Len(wait) + 1
      /\ \A i \in 1..Len(wait) : stream'[c][i] = wait[i]
      /\ stream'[c][Len(wait) + 1] = answer
  <2>1. answer \in Fragment
    BY <1>1 DEF Fragment, Calls
  <2>2. stream'[c] = Append(wait, answer)
    BY <1>4, <1>5 DEF TypeOK
  <2> HIDE DEF answer, wait
  <2> QED  BY <1>1, <2>1, <2>2, AppendProperties
<1>8. /\ \A i \in 1..Len(wait) : /\ wait[i].call = r /\ wait[i].n = i
                                 /\ wait[i].form = "whole"
      /\ \A i \in 1..Len(box) : box[i] = [call |-> r, n |-> Len(wait) + i]
      /\ executed[r] = Len(wait) /\ executed[r] + Len(box) = Size[r]
  BY <1>1 DEF Answering
<1>9. executed'[r] = executed[r] + 1
  BY <1>6 DEF TypeOK
<1>10. answer.call = r /\ answer.n = Len(wait) + 1 /\ answer.form = "whole"
  OBVIOUS
<1> HIDE DEF wait, box, command, answer
<1>11. \A i \in 1..Len(stream'[c]) : /\ stream'[c][i].call = r /\ stream'[c][i].n = i
                                     /\ stream'[c][i].form = "whole"
  <2>1. \A i \in 1..(Len(wait) + 1) : i \in 1..Len(wait) \/ i = Len(wait) + 1
    BY <1>1
  <2> QED  BY <1>7, <1>8, <1>10, <2>1
<1>12. \A i \in 1..Len(inbox'[c]) : inbox'[c][i] = [call |-> r, n |-> Len(stream'[c]) + i]
  <2>1. Len(inbox'[c]) = Len(box) - 1
    BY <1>1, <1>2
  <2>2. \A i \in 1..(Len(box) - 1) : /\ i + 1 \in 1..Len(box)
                                     /\ Len(wait) + (i + 1) = (Len(wait) + 1) + i
    BY <1>1, <1>2
  <2> QED  BY <1>1, <1>2, <1>7, <1>8, <2>1, <2>2
<1>13. /\ Len(stream'[c]) = executed'[r]
       /\ executed'[r] + Len(inbox'[c]) = Size[r]
       /\ executed[r] < Size[r] /\ executed'[r] \in Nat
  BY <1>1, <1>2, <1>7, <1>8, <1>9
<1>14. Answering(r)'
  <2>1. /\ Len(stream'[c]) <= executed'[r]
        /\ executed'[r] + Len(inbox'[c]) <= Size[r]
    BY <1>1, <1>13
  <2> QED  BY <1>1, <1>11, <1>12, <1>13, <2>1 DEF Answering
<1> QED  BY <1>4, <1>6, <1>13, <1>14 DEF command, box

\* The server closes the link: what still arrives are its first replies
LEMMA CloseAnswers ==
    ASSUME TypeOK, NEW r \in Requests, NEW c \in Slots, c = conn[r],
           Answering(r), PeerCloses(c)
    PROVE  Answering(r)'
<1> DEFINE wait == stream[c]
<1>1. /\ wait \in Seq(Fragment) /\ Len(wait) \in Nat
      /\ inbox[c] \in Seq(Command) /\ Len(inbox[c]) \in Nat
      /\ inbox'[c] = <<>> /\ conn'[r] = c /\ link'[c] = "broken"
      /\ executed'[r] = executed[r] /\ executed[r] \in Nat /\ Size[r] \in Nat
  BY LenProperties, RequestsAssumption DEF PeerCloses, TypeOK, callVars
<1>2. PICK n \in 0..Len(wait) : stream'[c] = SubSeq(wait, 1, n)
  BY DEF PeerCloses, TypeOK
<1>3. Len(stream'[c]) = n /\ \A i \in 1..n : stream'[c][i] = wait[i]
  <2>1. n \in Nat /\ n <= Len(wait) /\ \A i \in 1..n : wait[i] \in Fragment
    BY <1>1, ElementOfSeq
  <2> QED  BY <1>1, <1>2, <2>1, SubSeqProperties
<1>4. Len(inbox'[c]) = 0
  BY <1>1, EmptySeq
<1>5. /\ \A i \in 1..Len(wait) : /\ wait[i].call = r /\ wait[i].n = i
                                 /\ wait[i].form = "whole"
      /\ Len(wait) <= executed[r] /\ executed[r] + Len(inbox[c]) <= Size[r]
  BY DEF Answering
<1> HIDE DEF wait
<1>6. \A i \in 1..n : i \in 1..Len(wait)
  BY <1>1
<1>7. \A i \in 1..n : /\ stream'[c][i].call = r /\ stream'[c][i].n = i
                      /\ stream'[c][i].form = "whole"
  BY <1>3, <1>5, <1>6
<1>8. n <= executed'[r] /\ executed'[r] + Len(inbox'[c]) <= Size[r]
  <2>1. n <= Len(wait) /\ n \in Nat /\ Len(inbox[c]) \in Nat
    BY <1>1
  <2> QED  BY <1>1, <1>4, <1>5, <2>1
<1>9. Len(inbox'[c]) = 0 => \A i \in 1..Len(inbox'[c]) : FALSE
  OBVIOUS
<1> QED  BY <1>1, <1>3, <1>4, <1>7, <1>8, <1>9 DEF Answering

-----------------------------------------------------------------------------
(* Whom a step leaves alone.                                               *)

\* A step of r touches no other call, and no link but the one r has
Alone(r) ==
    /\ \A d \in Slots \ {conn[r]} :
          /\ slot'[d] = slot[d] /\ link'[d] = link[d]
          /\ inbox'[d] = inbox[d] /\ stream'[d] = stream[d]
    /\ \A s \in Requests \ {r} :
          /\ pc'[s] = pc[s] /\ conn'[s] = conn[s]
          /\ outcome'[s] = outcome[s] /\ executed'[s] = executed[s]

LEMMA HoldingAlone ==
    ASSUME TypeOK, HeldExclusively, NEW r \in Requests, pc[r] \in Holding, Step(r)
    PROVE  Alone(r) /\ conn[r] \in Slots
<1>1. conn[r] \in Slots
  BY DEF HeldExclusively
<1>2. \/ \E where : Goto(r, where)
      \/ \E replies : Return(r, replies)
      \/ UNCHANGED <<callVars, slot>>
  <2>1. ~ \E c \in Slots : Take(r, c)
    BY DEF Take, Holding
  <2>2. CASE Connect(r) \/ AuthWrite(r) \/ AuthWriteFails(r) \/ AuthRead(r)
             \/ AuthReadFails(r) \/ Write(r)
    BY <2>2 DEF Connect, AuthWrite, AuthWriteFails, AuthRead, AuthReadFails, Write
  <2>3. CASE ConnectFails(r)
    BY <2>3 DEF ConnectFails
  <2>4. CASE NullConnection(r) \/ WriteFails(r) \/ Read(r) \/ ReadFails(r)
    BY <2>4 DEF NullConnection, WriteFails, Read, ReadFails
  <2> QED  BY <2>1, <2>2, <2>3, <2>4 DEF Step
<1>3. \A s \in Requests \ {r} : /\ pc'[s] = pc[s] /\ conn'[s] = conn[s]
                               /\ outcome'[s] = outcome[s]
  BY <1>2 DEF Goto, Return, callVars, TypeOK
<1>4. \A s \in Requests \ {r} : executed'[s] = executed[s]
  BY DEF Step, Take, Connect, ConnectFails, NullConnection, AuthWrite,
         AuthWriteFails, AuthRead, AuthReadFails, Write, WriteFails, Read,
         ReadFails, TypeOK
<1>5. \A d \in Slots \ {conn[r]} : slot'[d] = slot[d]
  BY <1>2 DEF Goto, Return
<1>6. \A d \in Slots \ {conn[r]} :
         link'[d] = link[d] /\ inbox'[d] = inbox[d] /\ stream'[d] = stream[d]
  BY DEF Step, Take, Connect, ConnectFails, NullConnection, AuthWrite,
         AuthWriteFails, AuthRead, AuthReadFails, Write, WriteFails, Read,
         ReadFails, Send, Drop, linkVars, TypeOK
<1> QED  BY <1>1, <1>3, <1>4, <1>5, <1>6 DEF Alone

\* A fault is never forgotten
LEMMA FaultsStay ==
    ASSUME TypeOK, [Next]_vars, faults' = 0
    PROVE  faults = 0
<1>1. faults' = faults \/ Fault
  BY DEF Next, Step, Call, Take, Connect, ConnectFails, NullConnection, AuthWrite,
         AuthWriteFails, AuthRead, AuthReadFails, Write, WriteFails, Read,
         ReadFails, SetConfig, Serve, PeerCloses, Returned, NoFault, vars
<1> QED  BY <1>1, EnvironmentAssumption DEF Fault, TypeOK

\* A call that a step leaves alone is as far as before
LEMMA ProgressStays ==
    ASSUME NEW s \in Requests, Progress(s), faults' = 0 => faults = 0,
           pc'[s] = pc[s], outcome'[s] = outcome[s], executed'[s] = executed[s],
           NEW d, pc[s] \in Holding => /\ conn[s] = d /\ conn'[s] = d
                                       /\ link'[d] = link[d]
                                       /\ inbox'[d] = inbox[d] /\ stream'[d] = stream[d]
    PROVE  Progress(s)'
<1>1. CASE pc[s] \in Holding
  <2>1. /\ Quiet(conn[s]) => Quiet(conn[s])'
        /\ LoggingIn(conn[s]) => LoggingIn(conn[s])'
        /\ Answering(s) => Answering(s)'
    BY <1>1 DEF Quiet, LoggingIn, Answering
  <2> QED  BY <1>1, <2>1 DEF Progress, OwnReplies
<1>2. CASE pc[s] \notin Holding
  <2>1. pc[s] \notin {"connect", "auth_write", "auth_read", "write", "read"}
    BY <1>2 DEF Holding
  <2> QED  BY <1>2, <2>1 DEF Progress, OwnReplies
<1> QED  BY <1>1, <1>2

\* What a step of one call leaves to show: how far that call is now, and what
\* it has left on its link
LEMMA CallReplies ==
    ASSUME HeldExclusively, ReplyProtocol, faults' = 0 => faults = 0,
           NEW r \in Requests, pc[r] \in Holding, Alone(r), Progress(r)',
           NEW c \in Slots, c = conn[r], Spare(c)'
    PROVE  ReplyProtocol'
<1>1. ASSUME NEW s \in Requests \ {r}
      PROVE  Progress(s)'
  <2> DEFINE d == conn[s]
  <2>1. /\ Progress(s) /\ pc'[s] = pc[s] /\ conn'[s] = d
        /\ outcome'[s] = outcome[s] /\ executed'[s] = executed[s]
    BY DEF ReplyProtocol, Alone
  <2>2. pc[s] \in Holding =>
           link'[d] = link[d] /\ inbox'[d] = inbox[d] /\ stream'[d] = stream[d]
    <3>1. pc[s] \in Holding => d \in Slots \ {conn[r]}
      BY DEF HeldExclusively
    <3> QED  BY <3>1 DEF Alone
  <2> QED  BY <2>1, <2>2, ProgressStays
<1>2. ASSUME NEW d \in Slots \ {c}
      PROVE  Spare(d)'
  BY DEF Alone, ReplyProtocol, Spare, Quiet
<1> QED  BY <1>1, <1>2 DEF ReplyProtocol

\* What a step of the server or of the network leaves to show
LEMMA LinkReplies ==
    ASSUME HeldExclusively, ReplyProtocol, faults' = 0 => faults = 0,
           NEW c \in Slots, UNCHANGED <<callVars, slot>>,
           \A d \in Slots \ {c} : /\ link'[d] = link[d]
                                  /\ inbox'[d] = inbox[d] /\ stream'[d] = stream[d],
           \A r \in Requests : pc[r] \in Holding /\ conn[r] = c => Progress(r)',
           \A r \in Requests : ~ (pc[r] \in Holding /\ conn[r] = c) =>
               executed'[r] = executed[r],
           Spare(c)'
    PROVE  ReplyProtocol'
<1>1. ASSUME NEW s \in Requests, ~ (pc[s] \in Holding /\ conn[s] = c)
      PROVE  Progress(s)'
  <2> DEFINE d == conn[s]
  <2>1. /\ Progress(s) /\ pc'[s] = pc[s] /\ conn'[s] = d
        /\ outcome'[s] = outcome[s] /\ executed'[s] = executed[s]
    BY <1>1 DEF ReplyProtocol, callVars
  <2>2. pc[s] \in Holding =>
           link'[d] = link[d] /\ inbox'[d] = inbox[d] /\ stream'[d] = stream[d]
    <3>1. pc[s] \in Holding => d \in Slots \ {c}
      BY <1>1 DEF HeldExclusively
    <3> QED  BY <3>1
  <2> QED  BY <2>1, <2>2, ProgressStays
<1>2. ASSUME NEW d \in Slots \ {c}
      PROVE  Spare(d)'
  BY DEF ReplyProtocol, Spare, Quiet
<1> QED  BY <1>1, <1>2 DEF ReplyProtocol

\* A step that touches neither calls nor links
LEMMA SameReplies ==
    ASSUME ReplyProtocol, faults' = 0 => faults = 0,
           UNCHANGED <<callVars, executed, slot, linkVars>>
    PROVE  ReplyProtocol'
<1>1. UNCHANGED <<pc, conn, outcome, executed, slot, link, inbox, stream>>
  BY DEF callVars, linkVars
<1>2. \A s \in Requests : Progress(s)'
  BY <1>1, ProgressStays DEF ReplyProtocol
<1>3. \A c \in Slots : Spare(c)'
  BY <1>1 DEF ReplyProtocol, Spare, Quiet
<1> QED  BY <1>2, <1>3 DEF ReplyProtocol

\* A call that keeps its connection and moves to the next await
LEMMA GotoReplies ==
    ASSUME TypeOK, HeldExclusively, ReplyProtocol, faults' = 0 => faults = 0,
           NEW r \in Requests, pc[r] \in Holding, Alone(r),
           NEW c \in Slots, c = conn[r],
           NEW where \in Holding, Goto(r, where), executed'[r] = executed[r],
           where # "read" => executed[r] = 0,
           where \in {"connect", "auth_write", "write"} =>
              inbox'[c] = <<>> /\ stream'[c] = <<>>,
           where = "auth_read" => LoggingIn(c)',
           where = "read" => Answering(r)',
           faults' = 0 => link'[c] = IF where = "connect" THEN "down" ELSE "up"
    PROVE  ReplyProtocol'
<1>1. /\ pc'[r] = where /\ conn'[r] = c /\ slot'[c] = "busy"
      /\ outcome'[r] = outcome[r]
  BY GotoOthers DEF Goto
<1>2. outcome[r] = <<>> /\ pc[r] # "done" /\ where # "done"
  BY DEF ReplyProtocol, Progress, Holding
<1>3. where \notin {"new", "acquire"}
  BY DEF Holding
<1>4. Progress(r)'
  BY <1>1, <1>2, <1>3 DEF Progress, Quiet
<1>5. Spare(c)'
  BY <1>1 DEF Spare
<1> QED  BY <1>4, <1>5, CallReplies

\* A call that returns its own replies and leaves nothing on its link
LEMMA ReturnReplies ==
    ASSUME TypeOK, HeldExclusively, ReplyProtocol, faults' = 0 => faults = 0,
           NEW r \in Requests, pc[r] \in Holding, Alone(r),
           NEW c \in Slots, c = conn[r],
           NEW replies, Return(r, replies),
           inbox'[c] = <<>>, stream'[c] = <<>>,
           \A i \in DOMAIN replies : replies[i].call = r /\ replies[i].n = i,
           faults' = 0 => Len(replies) = Size[r] /\ link'[c] # "broken"
    PROVE  ReplyProtocol'
<1>1. pc'[r] = "done" /\ outcome'[r] = replies
  BY ReturnOthers DEF Return, TypeOK
<1>2. Progress(r)'
  BY <1>1 DEF Progress, OwnReplies, Holding
<1>3. Spare(c)'
  BY DEF Spare, Quiet
<1> QED  BY <1>2, <1>3, CallReplies

\* The replies of a call that fails are its own
LEMMA FailReplies ==
    ASSUME TypeOK, HeldExclusively, ReplyProtocol, faults' # 0,
           NEW r \in Requests, pc[r] \in Holding, Alone(r),
           NEW kind, Return(r, Failed(r, kind)),
           inbox'[conn[r]] = <<>>, stream'[conn[r]] = <<>>
    PROVE  ReplyProtocol'
<1>1. conn[r] \in Slots
  BY DEF HeldExclusively
<1>2. \A i \in DOMAIN Failed(r, kind) :
         Failed(r, kind)[i].call = r /\ Failed(r, kind)[i].n = i
  <2> SUFFICES ASSUME NEW i \in DOMAIN Failed(r, kind)
               PROVE  Failed(r, kind)[i].call = r /\ Failed(r, kind)[i].n = i
    OBVIOUS
  <2>1. Failed(r, kind)[i] = [kind |-> kind, call |-> r, n |-> i]
    BY FailedIs
  <2> QED  BY <2>1
<1> DEFINE replies == Failed(r, kind)
<1>3. Return(r, replies) /\ \A i \in DOMAIN replies : replies[i].call = r /\ replies[i].n = i
  BY <1>2
<1> HIDE DEF replies
<1> QED  BY <1>1, <1>3, ReturnReplies

-----------------------------------------------------------------------------
(* One step.                                                               *)

\* The steps up to the write
LEMMA ConnectReplies ==
    ASSUME TypeOK, HeldExclusively, ReplyProtocol, ReadsAll, [Next]_vars,
           NEW r \in Requests,
           \/ Connect(r) \/ ConnectFails(r) \/ AuthWrite(r) \/ AuthWriteFails(r)
           \/ AuthRead(r) \/ AuthReadFails(r)
    PROVE  ReplyProtocol'
<1>1. /\ pc[r] \in {"connect", "auth_write", "auth_read"} /\ executed'[r] = executed[r]
      /\ pc[r] \in Holding /\ Step(r)
  BY DEF Connect, ConnectFails, AuthWrite, AuthWriteFails, AuthRead, AuthReadFails,
         Holding, Step
<1> PICK c \in Slots : c = conn[r]
  BY <1>1 DEF HeldExclusively
<1>2. /\ Alone(r) /\ c \in Slots /\ Progress(r) /\ Spare(c)
      /\ faults' = 0 => faults = 0
  BY <1>1, HoldingAlone, FaultsStay DEF ReplyProtocol
<1>3. executed[r] = 0
  BY <1>1, <1>2 DEF Progress, Holding
<1>4. CASE Connect(r)
  <2>1. /\ inbox'[c] = <<>> /\ stream'[c] = <<>> /\ link'[c] = "up"
    BY <1>2, <1>4 DEF Connect, Progress, Quiet, TypeOK
  <2>2. PICK where \in {"auth_write", "write"} : Goto(r, where)
    BY <1>4 DEF Connect
  <2>3. where \in Holding
    BY DEF Holding
  <2> QED  BY <1>1, <1>2, <1>3, <2>1, <2>2, <2>3, GotoReplies
<1>5. CASE ConnectFails(r)
  <2>1. faults' # 0
    BY <1>5, EnvironmentAssumption DEF ConnectFails, Fault, TypeOK
  <2>2. UNCHANGED <<callVars, executed, slot, linkVars>>
    BY <1>5 DEF ConnectFails
  <2> QED  BY <1>2, <2>2, SameReplies
<1>6. CASE AuthWrite(r)
  <2> DEFINE auth == <<[call |-> AuthCall, n |-> 1]>>
  <2>1. auth \in Seq(Command)
    BY DEF Command, Calls
  <2>2. /\ Send(conn[r], auth) /\ Goto(r, "auth_read") /\ "auth_read" \in Holding
        /\ inbox[c] = <<>> /\ stream'[c] = <<>>
    BY <1>2, <1>6 DEF AuthWrite, Send, Holding, Progress, Quiet
  <2>3. <<>> \o auth = auth
    BY <2>1, ConcatEmptySeq
  <2>4. LoggingIn(c)'
    BY <1>2, <2>1, <2>2, <2>3, SendOthers DEF LoggingIn
  <2>5. faults' = 0 => link'[c] = "up"
    BY <1>1, <1>2, <1>6 DEF AuthWrite, Send, Progress
  <2> QED  BY <1>1, <1>2, <1>3, <2>2, <2>4, <2>5, GotoReplies
<1>7. CASE Drop(conn[r]) /\ Goto(r, "connect")
  <2>1. "connect" \in Holding
    BY DEF Holding
  <2>2. inbox'[c] = <<>> /\ stream'[c] = <<>> /\ link'[c] = "down"
    BY <1>2, <1>7, DropOthers
  <2> QED  BY <1>1, <1>2, <1>3, <1>7, <2>1, <2>2, GotoReplies
<1>8. CASE /\ pc[r] = "auth_read" /\ Goto(r, "write") /\ UNCHANGED <<link, inbox>>
           /\ \E read \in ReadsOf(c) : stream' = [stream EXCEPT ![c] = read.rest]
  <2>1. inbox'[c] = <<>> /\ stream'[c] = <<>>
    BY <1>2, <1>8, FullRead DEF TypeOK
  <2>2. faults' = 0 => link'[c] = "up"
    BY <1>1, <1>2, <1>8 DEF Progress
  <2>3. "write" \in Holding
    BY DEF Holding
  <2> QED  BY <1>1, <1>2, <1>3, <1>8, <2>1, <2>2, <2>3, GotoReplies
<1>9. CASE AuthRead(r)
  BY <1>7, <1>8, <1>9 DEF AuthRead
<1> QED  BY <1>4, <1>5, <1>6, <1>7, <1>9 DEF AuthWriteFails, AuthReadFails

\* The write, the read, and what fails
LEMMA ReadReplies ==
    ASSUME TypeOK, HeldExclusively, ReplyProtocol, ReadsAll, [Next]_vars,
           NEW r \in Requests,
           Write(r) \/ WriteFails(r) \/ Read(r) \/ ReadFails(r)
    PROVE  ReplyProtocol'
<1> DEFINE c == conn[r]
<1>1. pc[r] \in {"write", "read"} /\ pc[r] \in Holding /\ Step(r)
  BY DEF Write, WriteFails, Read, ReadFails, Holding, Step
<1>2. /\ Alone(r) /\ c \in Slots /\ Progress(r) /\ Spare(c)
      /\ faults' = 0 => faults = 0
      /\ faults = 0 => link[c] = "up"
  <2>1. pc[r] \in Holding \ {"connect"}
    BY <1>1
  <2> QED  BY <1>1, <2>1, HoldingAlone, FaultsStay DEF ReplyProtocol, Progress
<1>3. CASE Write(r)
  <2>1. /\ Goto(r, "read") /\ "read" \in Holding /\ executed'[r] = executed[r]
        /\ link' = link
    BY <1>3 DEF Write, Holding, Send
  <2>2. Quiet(c) /\ executed[r] = 0
    BY <1>2, <1>3 DEF Write, Progress, Holding
  <2>3. Answering(r)'
    BY <1>2, <1>3, <2>2, WriteAnswers
  <2> QED  BY <1>1, <1>2, <2>1, <2>3, GotoReplies
<1>4. CASE WriteFails(r)
  <2>1. Drop(c) /\ Return(r, Failed(r, "write_error"))
    BY <1>4 DEF WriteFails
  <2>2. faults' # 0
    <3>1. CASE link[c] = "up"
      BY <1>4, <3>1, EnvironmentAssumption DEF WriteFails, Fault, TypeOK
    <3>2. CASE link[c] # "up"
      BY <1>2, <3>2
    <3> QED  BY <3>1, <3>2
  <2> QED  BY <1>1, <1>2, <2>1, <2>2, DropOthers, FailReplies
<1>5. CASE ReadFails(r)
  <2>1. Drop(c) /\ Return(r, Failed(r, "read_error"))
    BY <1>5 DEF ReadFails
  <2>2. faults' # 0
    BY <1>2, <1>5 DEF ReadFails, AtEnd
  <2> QED  BY <1>1, <1>2, <2>1, <2>2, DropOthers, FailReplies
<1>6. CASE Read(r)
  <2>1. PICK read \in ReadsOf(c) : \E replies \in Parsed(read.buffer) :
          /\ stream' = [stream EXCEPT ![c] = read.rest]
          /\ Return(r, Kept(r, replies))
    BY <1>6 DEF Read, Kept
  <2>2. PICK replies \in Parsed(read.buffer) :
          /\ stream' = [stream EXCEPT ![c] = read.rest]
          /\ Return(r, Kept(r, replies))
    BY <2>1
  <2>3. /\ inbox[c] = <<>> /\ Len(stream[c]) \in Nat \ {0}
        /\ read.buffer = stream[c] /\ read.rest = <<>>
    BY <1>2, <1>6, FullRead DEF Read
  <2>4. /\ inbox'[c] = <<>> /\ stream'[c] = <<>> /\ link'[c] = link[c]
    BY <1>2, <1>6, <2>2, <2>3 DEF Read, TypeOK
  <2>5. Answering(r)
    BY <1>2, <1>6 DEF Read, Progress
  <2> DEFINE own == Kept(r, replies)
  <2>6. /\ DOMAIN own = 1..Len(own)
        /\ Len(own) = IF r \in Pipelined THEN Len(stream[c]) ELSE 1
        /\ \A i \in 1..Len(own) : own[i].call = r /\ own[i].n = i
    <3>1. stream[c] \in Seq(Fragment)
      BY <1>2 DEF TypeOK
    <3>2. replies \in Parsed(stream[conn[r]])
      BY <2>3
    <3> QED  BY <2>3, <2>5, <3>1, <3>2, AnswersOwn
  <2>7. faults' = 0 => Len(own) = Size[r] /\ link'[c] # "broken"
    <3> SUFFICES ASSUME faults' = 0
                 PROVE  Len(own) = Size[r] /\ link'[c] # "broken"
      OBVIOUS
    <3>1. link[c] = "up"
      BY <1>2
    <3>2. Len(stream[c]) = executed[r] /\ executed[r] + Len(inbox[c]) = Size[r]
      BY <2>5, <3>1 DEF Answering
    <3>3. Len(inbox[c]) = 0
      BY <2>3, EmptySeq
    <3>4. Len(stream[c]) = Size[r]
      BY <2>3, <3>2, <3>3
    <3>5. r \notin Pipelined => Size[r] = 1
      BY RequestsAssumption
    <3> HIDE DEF own
    <3> QED  BY <2>4, <2>6, <3>1, <3>4, <3>5
  <2>8. Return(r, own)
    BY <2>2
  <2> HIDE DEF own
  <2> QED  BY <1>1, <1>2, <2>4, <2>6, <2>7, <2>8, ReturnReplies
<1> QED  BY <1>3, <1>4, <1>5, <1>6

\* A call without a connection: it starts, gets one, or is told there is none
LEMMA AcquireReplies ==
    ASSUME TypeOK, HeldExclusively, DownIsEmpty, ReplyProtocol, [Next]_vars,
           NEW r \in Requests,
           Call(r) \/ NullConnection(r) \/ \E c \in Slots : Take(r, c)
    PROVE  ReplyProtocol'
<1>1. faults' = 0 => faults = 0
  BY FaultsStay
<1>2. CASE NullConnection(r) /\ pc[r] \in Holding
  <2>1. pc[r] = "connect" /\ Return(r, Failed(r, "client_stopped")) /\ Step(r)
    BY <1>2 DEF NullConnection, Holding, Step
  <2>2. faults' # 0
    BY <1>2, EnvironmentAssumption DEF NullConnection, Fault, TypeOK
  <2>3. Quiet(conn[r])
    BY <2>1 DEF ReplyProtocol, Progress
  <2>4. inbox'[conn[r]] = <<>> /\ stream'[conn[r]] = <<>>
    BY <1>2, <2>3 DEF NullConnection, linkVars, Quiet
  <2> QED  BY <1>2, <2>1, <2>2, <2>4, HoldingAlone, FailReplies
\* All other calls and all links stay as they are
<1>3. ASSUME UNCHANGED <<executed, linkVars>>,
             \A s \in Requests \ {r} : /\ pc'[s] = pc[s] /\ conn'[s] = conn[s]
                                       /\ outcome'[s] = outcome[s],
             \A d \in Slots : slot'[d] = "idle" => slot[d] = "idle",
             Progress(r)'
      PROVE  ReplyProtocol'
  <2>1. ASSUME NEW s \in Requests \ {r}
        PROVE  Progress(s)'
    <3>1. /\ Progress(s) /\ pc'[s] = pc[s] /\ conn'[s] = conn[s]
          /\ outcome'[s] = outcome[s] /\ UNCHANGED <<executed, link, inbox, stream>>
      BY <1>3 DEF ReplyProtocol, linkVars
    <3> QED  BY <1>1, <3>1, ProgressStays
  <2>2. \A d \in Slots : Spare(d)'
    BY <1>1, <1>3 DEF ReplyProtocol, Spare, Quiet, linkVars
  <2> QED  BY <1>3, <2>1, <2>2 DEF ReplyProtocol
<1>4. CASE Call(r)
  <2>1. pc'[r] = "acquire" /\ pc[r] = "new" /\ outcome' = outcome /\ executed' = executed
    BY <1>4 DEF Call, Goto, TypeOK
  <2>2. outcome[r] = <<>> /\ executed[r] = 0
    BY <2>1 DEF ReplyProtocol, Progress
  <2>3. Progress(r)'
    BY <2>1, <2>2 DEF Progress, Holding
  <2> QED  BY <1>3, <1>4, <2>3 DEF Call, Goto, TypeOK
<1>5. CASE NullConnection(r) /\ pc[r] \notin Holding
  <2> DEFINE replies == Failed(r, "client_stopped")
  <2>1. pc[r] = "acquire" /\ Return(r, replies)
    BY <1>5 DEF NullConnection, Holding
  <2>2. faults' # 0
    BY <1>5, EnvironmentAssumption DEF NullConnection, Fault, TypeOK
  <2>3. \A i \in DOMAIN replies : replies[i].call = r /\ replies[i].n = i
    <3> SUFFICES ASSUME NEW i \in DOMAIN replies
                 PROVE  replies[i].call = r /\ replies[i].n = i
      OBVIOUS
    <3>1. replies[i] = [kind |-> "client_stopped", call |-> r, n |-> i]
      BY FailedIs
    <3> QED  BY <3>1
  <2> HIDE DEF replies
  <2>4. conn[r] = NoSlot /\ NoSlot \notin Slots
    BY <2>1, EnvironmentAssumption DEF HeldExclusively
  <2>5. /\ pc'[r] = "done" /\ outcome'[r] = replies /\ slot' = slot
        /\ \A s \in Requests \ {r} : /\ pc'[s] = pc[s] /\ conn'[s] = conn[s]
                                     /\ outcome'[s] = outcome[s]
    BY <2>1, <2>4 DEF Return, TypeOK
  <2>6. Progress(r)'
    BY <2>2, <2>3, <2>5 DEF Progress, OwnReplies, Holding
  <2> QED  BY <1>3, <1>5, <2>5, <2>6 DEF NullConnection
<1>6. ASSUME NEW c \in Slots, Take(r, c)
      PROVE  ReplyProtocol'
  <2>1. /\ pc'[r] = (IF link[c] = "down" THEN "connect" ELSE "write")
        /\ conn'[r] = c /\ UNCHANGED <<outcome, executed, linkVars>>
        /\ pc[r] = "acquire" /\ Available(c)
        /\ \A s \in Requests \ {r} : pc'[s] = pc[s] /\ conn'[s] = conn[s]
        /\ \A d \in Slots : slot'[d] = "idle" => slot[d] = "idle"
    BY <1>6 DEF Take, TypeOK
  <2>2. Quiet(c) /\ (faults = 0 => link[c] # "broken")
    BY <2>1 DEF Available, ReplyProtocol, Spare, DownIsEmpty, Fresh, Quiet
  <2>3. link[c] \in {"down", "up", "broken"}
    BY DEF TypeOK
  <2>4. outcome[r] = <<>> /\ executed[r] = 0
    BY <2>1 DEF ReplyProtocol, Progress
  <2>5. Progress(r)'
    BY <1>1, <2>1, <2>2, <2>3, <2>4 DEF Progress, Quiet, linkVars
  <2> QED  BY <1>3, <2>1, <2>5
<1> QED  BY <1>2, <1>4, <1>5, <1>6

\* What is under way on a link is there for the call that has it
LEMMA HolderOf ==
    ASSUME TypeOK, HeldExclusively, DownIsEmpty, ReplyProtocol,
           NEW c \in Slots, ~ Quiet(c)
    PROVE  \E r \in Requests : /\ pc[r] \in {"auth_read", "read"} /\ conn[r] = c
                               /\ \A s \in Requests \ {r} :
                                     ~ (pc[s] \in Holding /\ conn[s] = c)
<1>1. slot[c] = "busy"
  BY DEF DownIsEmpty, Fresh, Quiet, ReplyProtocol, Spare, TypeOK
<1>2. PICK r \in Requests : pc[r] \in Holding /\ conn[r] = c
  BY <1>1 DEF HeldExclusively
<1>3. pc[r] \in {"auth_read", "read"}
  BY <1>2 DEF ReplyProtocol, Progress, Holding
<1>4. \A s \in Requests \ {r} : ~ (pc[s] \in Holding /\ conn[s] = c)
  BY <1>2 DEF HeldExclusively
<1> QED  BY <1>2, <1>3, <1>4

\* Whose command the server runs
LEMMA ServedCall ==
    ASSUME TypeOK, HeldExclusively, DownIsEmpty, ReplyProtocol,
           NEW c \in Slots, Serve(c)
    PROVE  \E r \in Requests :
              /\ conn[r] = c
              /\ \A s \in Requests \ {r} : ~ (pc[s] \in Holding /\ conn[s] = c)
              /\ \/ /\ pc[r] = "read" /\ Answering(r)'
                    /\ executed[r] < Size[r]
                    /\ executed' = [executed EXCEPT ![r] = @ + 1]
                    /\ faults' = faults
                 \/ /\ pc[r] = "auth_read" /\ executed' = executed
                    /\ LoggingIn(c)'
<1>1. inbox[c] # <<>> /\ inbox[c] \in Seq(Command) /\ inbox'[c] = Tail(inbox[c])
  BY DEF Serve, TypeOK
<1>2. PICK r \in Requests : /\ pc[r] \in {"auth_read", "read"} /\ conn[r] = c
                            /\ \A s \in Requests \ {r} :
                                  ~ (pc[s] \in Holding /\ conn[s] = c)
  BY <1>1, HolderOf DEF Quiet
<1>3. CASE pc[r] = "read"
  <2>1. Answering(r)
    BY <1>3 DEF ReplyProtocol, Progress
  <2> QED  BY <1>2, <1>3, <2>1, ServeAnswers
<1>4. CASE pc[r] = "auth_read"
  <2> DEFINE auth == <<[call |-> AuthCall, n |-> 1]>>
  <2>1. inbox[c] = auth /\ stream[c] = <<>>
    BY <1>1, <1>2, <1>4 DEF ReplyProtocol, Progress, LoggingIn
  <2>2. Head(auth).call = AuthCall /\ Tail(auth) = <<>>
    OBVIOUS
  <2>3. executed' = executed /\ inbox'[c] = <<>>
    BY <1>1, <2>1, <2>2 DEF Serve
  <2>4. Len(stream'[c]) = 1
    <3>1. PICK answer : stream'[c] = Append(<<>>, answer)
      BY <2>1 DEF Serve, TypeOK
    <3>2. Len(Append(<<>>, answer)) = 1
      OBVIOUS
    <3> QED  BY <3>1, <3>2
  <2>5. LoggingIn(c)'
    BY <2>3, <2>4 DEF LoggingIn
  <2> QED  BY <1>2, <1>4, <2>3, <2>5
<1> QED  BY <1>2, <1>3, <1>4

LEMMA ServeReplies ==
    ASSUME TypeOK, HeldExclusively, DownIsEmpty, ReplyProtocol, [Next]_vars,
           NEW c \in Slots, Serve(c)
    PROVE  ReplyProtocol'
<1>1. PICK r \in Requests :
         /\ conn[r] = c
         /\ \A s \in Requests \ {r} : ~ (pc[s] \in Holding /\ conn[s] = c)
         /\ \/ /\ pc[r] = "read" /\ Answering(r)'
               /\ executed' = [executed EXCEPT ![r] = @ + 1]
            \/ /\ pc[r] = "auth_read" /\ executed' = executed
               /\ LoggingIn(c)'
  BY ServedCall
<1>2. /\ link[c] = "up" /\ UNCHANGED <<callVars, slot, link>>
      /\ \A d \in Slots \ {c} : inbox'[d] = inbox[d] /\ stream'[d] = stream[d]
      /\ faults' = 0 => faults = 0
  BY FaultsStay DEF Serve, TypeOK
<1>3. pc[r] \in Holding /\ pc'[r] = pc[r] /\ conn'[r] = c /\ outcome'[r] = outcome[r]
  BY <1>1, <1>2 DEF callVars, Holding
<1>4. outcome[r] = <<>> /\ (pc[r] = "auth_read" => executed[r] = 0)
  BY <1>1, <1>3 DEF ReplyProtocol, Progress
<1>5. Progress(r)'
  BY <1>1, <1>2, <1>3, <1>4 DEF Progress
<1>6. slot[c] = "busy"
  BY <1>1, <1>3 DEF HeldExclusively
<1>7. Spare(c)'
  BY <1>2, <1>6 DEF Spare
<1>8. \A s \in Requests : pc[s] \in Holding /\ conn[s] = c => Progress(s)'
  BY <1>1, <1>5
<1>9. \A s \in Requests : ~ (pc[s] \in Holding /\ conn[s] = c) =>
          executed'[s] = executed[s]
  BY <1>1, <1>3 DEF TypeOK
<1> QED  BY <1>2, <1>7, <1>8, <1>9, LinkReplies

LEMMA CloseReplies ==
    ASSUME TypeOK, HeldExclusively, ReplyProtocol, NEW c \in Slots, PeerCloses(c)
    PROVE  ReplyProtocol'
<1>1. /\ UNCHANGED <<callVars, slot, executed>> /\ inbox'[c] = <<>>
      /\ \A d \in Slots \ {c} : /\ link'[d] = link[d]
                                /\ inbox'[d] = inbox[d] /\ stream'[d] = stream[d]
      /\ faults' # 0
  BY EnvironmentAssumption DEF PeerCloses, Fault, TypeOK
<1>2. stream[c] = <<>> => stream'[c] = <<>>
  <2> SUFFICES ASSUME stream[c] = <<>>
               PROVE  stream'[c] = <<>>
    OBVIOUS
  <2>1. PICK n \in 0..Len(stream[c]) : stream'[c] = SubSeq(stream[c], 1, n)
    BY DEF PeerCloses, TypeOK
  <2>2. n = 0
    BY <2>1, EmptySeq
  <2> QED  BY <2>1, <2>2, SubSeqEmpty
<1>3. ASSUME NEW r \in Requests, pc[r] \in Holding, conn[r] = c
      PROVE  Progress(r)'
  <2>1. /\ Progress(r) /\ pc'[r] = pc[r] /\ conn'[r] = c
        /\ outcome'[r] = outcome[r] /\ executed'[r] = executed[r]
    BY <1>1, <1>3 DEF ReplyProtocol, callVars
  <2>2. pc[r] = "read" => Answering(r)'
    BY <1>3, <2>1, CloseAnswers DEF Progress
  <2>3. pc[r] = "auth_read" => LoggingIn(c)'
    <3> SUFFICES ASSUME pc[r] = "auth_read"
                 PROVE  LoggingIn(c)'
      OBVIOUS
    <3>1. stream[c] = <<>> \/ Len(stream[c]) = 1
      BY <1>3, <2>1 DEF Progress, LoggingIn
    <3>2. stream[c] \in Seq(Fragment)
      BY DEF TypeOK
    <3>3. CASE Len(stream[c]) = 1
      <4>1. PICK n \in 0..1 : stream'[c] = SubSeq(stream[c], 1, n)
        BY <3>3 DEF PeerCloses, TypeOK
      <4>2. stream'[c] = <<>> \/ stream'[c] = stream[c]
        BY <3>2, <3>3, <4>1, SubSeqEmpty, SubSeqFull
      <4> QED  BY <1>1, <3>3, <4>2 DEF LoggingIn
    <3> QED  BY <1>1, <1>2, <3>1, <3>3 DEF LoggingIn
  <2>4. pc[r] # "done"
    BY <1>3 DEF Holding
  <2>5. Quiet(c) => Quiet(c)'
    BY <1>1, <1>2 DEF Quiet
  <2> QED  BY <1>1, <1>3, <2>1, <2>2, <2>3, <2>4, <2>5 DEF Progress, Quiet
<1>4. Spare(c)'
  BY <1>1, <1>2 DEF ReplyProtocol, Spare, Quiet
<1> QED  BY <1>1, <1>3, <1>4, LinkReplies

\* The calls in flight are lost, the links are new
LEMMA ConfigReplies ==
    ASSUME TypeOK, ReplyProtocol, SetConfig
    PROVE  ReplyProtocol'
<1>1. ASSUME NEW r \in Requests
      PROVE  Progress(r)'
  <2>1. /\ pc'[r] = IF pc[r] \in InFlight THEN "lost" ELSE pc[r]
        /\ Progress(r) /\ UNCHANGED <<outcome, executed, faults>>
    BY DEF SetConfig, ReplyProtocol
  <2>2. pc[r] \in InFlight \cup {"new", "done", "lost"}
    BY DEF TypeOK
  <2>3. pc[r] \in InFlight => pc[r] # "done"
    BY DEF InFlight, Holding
  <2>4. pc'[r] \in {"new", "done", "lost"}
    BY <2>1, <2>2
  <2>5. CASE pc'[r] = "lost"
    <3>1. outcome'[r] = <<>>
      BY <2>1, <2>3, <2>5 DEF Progress
    <3> QED  BY <2>5, <3>1 DEF Progress, Holding
  <2>6. CASE pc'[r] \in {"new", "done"}
    <3>1. pc[r] = pc'[r]
      BY <2>1, <2>6
    <3> QED  BY <2>1, <2>6, <3>1 DEF Progress, Holding, OwnReplies
  <2> QED  BY <2>4, <2>5, <2>6
<1>2. ASSUME NEW c \in Slots
      PROVE  Spare(c)'
  BY DEF SetConfig, Spare
<1> QED  BY <1>1, <1>2 DEF ReplyProtocol

LEMMA StepReplies ==
    ASSUME TypeOK, HeldExclusively, DownIsEmpty, ReplyProtocol, ReadsAll,
           [Next]_vars
    PROVE  ReplyProtocol'
<1>1. CASE Returned \/ UNCHANGED vars
  <2>1. UNCHANGED <<callVars, executed, slot, linkVars, faults>>
    BY <1>1 DEF Returned, vars
  <2> QED  BY <2>1, SameReplies
<1>2. ASSUME NEW r \in Requests, Call(r) \/ Step(r)
      PROVE  ReplyProtocol'
  BY <1>2, AcquireReplies, ConnectReplies, ReadReplies DEF Step
<1>3. ASSUME NEW c \in Slots, Serve(c) \/ PeerCloses(c)
      PROVE  ReplyProtocol'
  BY <1>3, ServeReplies, CloseReplies
<1> QED  BY <1>1, <1>2, <1>3, ConfigReplies DEF Next

LEMMA InitReplies == Init => ReplyProtocol
BY DEF Init, ReplyProtocol, Progress, Spare, Holding

\* The inductive invariant: what is on a link is only known of a call that has
\* it alone (HeldExclusively) and of connections that are new (DownIsEmpty).
LEMMA RepliesInvariant ==
    ASSUME ReadsAll
    PROVE  Spec => [](TypeOK /\ HeldExclusively /\ DownIsEmpty /\ ReplyProtocol)
<1> DEFINE Inv == TypeOK /\ HeldExclusively /\ DownIsEmpty /\ ReplyProtocol
<1>1. Init => Inv
  BY InitType, InitHeld, InitDown, InitReplies
<1>2. Inv /\ [Next]_vars => Inv'
  BY StepType, StepHeld, StepDown, StepReplies
<1> HIDE DEF Inv
<1>3. Spec => []Inv
  BY <1>1, <1>2, PTL DEF Spec
<1> QED  BY <1>3 DEF Inv

-----------------------------------------------------------------------------
(* The theorems on replies.                                                *)

\* When one read returns the answers to everything written, a connection goes
\* back to the pool with nothing under way on it, on every path out of send()
\* and of the login (client.cpp:47-148, 206-222).
THEOREM IdleIsClean == ReadsAll => (Spec => []IdleConnectionsClean)
<1> SUFFICES ASSUME ReadsAll
             PROVE  Spec => []IdleConnectionsClean
  OBVIOUS
<1>1. ReplyProtocol => IdleConnectionsClean
  BY DEF ReplyProtocol, Spare, Quiet, IdleConnectionsClean
<1> QED  BY <1>1, RepliesInvariant, PTL

\* Then the i-th reply a call returns answers its own i-th command, however
\* many calls share the pool and whatever fails (client.hpp:78 and 87).
THEOREM RepliesBelong == ReadsAll => (Spec => []RepliesAreOwn)
<1> SUFFICES ASSUME ReadsAll
             PROVE  Spec => []RepliesAreOwn
  OBVIOUS
<1>1. TypeOK /\ ReplyProtocol => RepliesAreOwn
  <2> SUFFICES ASSUME TypeOK, ReplyProtocol, NEW r \in Requests
               PROVE  OwnReplies(r)
    BY DEF RepliesAreOwn
  <2>1. CASE pc[r] = "done"
    BY <2>1 DEF ReplyProtocol, Progress
  <2>2. CASE pc[r] # "done"
    <3>1. outcome[r] = <<>>
      BY <2>2 DEF ReplyProtocol, Progress
    <3> QED  BY <3>1 DEF OwnReplies
  <2> QED  BY <2>1, <2>2
<1> QED  BY <1>1, RepliesInvariant, PTL

\* And while nothing has failed, a call that returned has one reply for every
\* command it was given (redis_client_test.cpp:217).
THEOREM EveryCommandAnswered == ReadsAll => (Spec => []ReplyPerCommand)
<1> SUFFICES ASSUME ReadsAll
             PROVE  Spec => []ReplyPerCommand
  OBVIOUS
<1>1. ReplyProtocol => ReplyPerCommand
  BY DEF ReplyProtocol, Progress, ReplyPerCommand
<1> QED  BY <1>1, RepliesInvariant, PTL

-----------------------------------------------------------------------------
(* The client implements RequestService.                                   *)

\* What callers see of a call changes only with what it returned
LEMMA SeenOf ==
    ASSUME NEW r \in Requests
    PROVE  /\ outcome'[r] = outcome[r] => /\ AnsweredBy(r)' = AnsweredBy(r)
                                          /\ LocalFailure(r)' = LocalFailure(r)
           /\ pc'[r] = pc[r] => StatusOf(r)' = StatusOf(r)
           /\ outcome[r] = <<>> => AnsweredBy(r) = 0 /\ LocalFailure(r) = FALSE
<1>1. outcome[r] = <<>> => DOMAIN outcome[r] = {} /\ Len(outcome[r]) = 0
  BY EmptySeq
<1> QED  BY <1>1 DEF AnsweredBy, LocalFailure, OwnReplies, StatusOf

\* A step that callers see nothing of
LEMMA Unseen ==
    ASSUME UNCHANGED <<outcome, executed>>,
           \A r \in Requests : StatusOf(r)' = StatusOf(r)
    PROVE  [Service!Next]_(Service!vars)
<1>1. \A r \in Requests : /\ AnsweredBy(r)' = AnsweredBy(r)
                          /\ LocalFailure(r)' = LocalFailure(r)
  BY SeenOf
<1>2. UNCHANGED <<[r \in Requests |-> StatusOf(r)], [r \in Requests |-> AnsweredBy(r)],
                  [r \in Requests |-> LocalFailure(r)]>>
  BY <1>1
<1> QED  BY <1>2 DEF Service!vars

\* A step that callers see of one call only
LEMMA SeenOnly ==
    ASSUME NEW r \in Requests,
           \A s \in Requests \ {r} : pc'[s] = pc[s] /\ outcome'[s] = outcome[s]
    PROVE  /\ [s \in Requests |-> StatusOf(s)]' =
                 [[s \in Requests |-> StatusOf(s)] EXCEPT ![r] = StatusOf(r)']
           /\ [s \in Requests |-> AnsweredBy(s)]' =
                 [[s \in Requests |-> AnsweredBy(s)] EXCEPT ![r] = AnsweredBy(r)']
           /\ [s \in Requests |-> LocalFailure(s)]' =
                 [[s \in Requests |-> LocalFailure(s)] EXCEPT ![r] = LocalFailure(r)']
<1>1. \A s \in Requests \ {r} : /\ StatusOf(s)' = StatusOf(s)
                                /\ AnsweredBy(s)' = AnsweredBy(s)
                                /\ LocalFailure(s)' = LocalFailure(s)
  BY SeenOf
<1> QED  BY <1>1

LEMMA InitService == Init => Service!Init
<1> SUFFICES ASSUME Init  PROVE Service!Init
  OBVIOUS
<1>1. \A r \in Requests : /\ StatusOf(r) = "new" /\ AnsweredBy(r) = 0
                          /\ LocalFailure(r) = FALSE
  BY SeenOf DEF Init, StatusOf
<1>2. executed = [r \in Requests |-> 0]
  BY DEF Init
<1> QED  BY <1>1, <1>2 DEF Service!Init

\* A call that ends with a local error
LEMMA ServiceFails ==
    ASSUME TypeOK, ReplyProtocol, NEW r \in Requests, Size[r] > 0,
           pc[r] \in InFlight,
           NEW kind \in {"client_stopped", "write_error", "read_error"},
           Return(r, Failed(r, kind)),
           \E n \in executed[r]..Size[r] : executed' = [executed EXCEPT ![r] = n]
    PROVE  Service!Next
<1>1. /\ pc'[r] = "done" /\ outcome'[r] = Failed(r, kind)
      /\ \A s \in Requests \ {r} : pc'[s] = pc[s] /\ outcome'[s] = outcome[s]
  BY DEF Return, TypeOK
<1>2. StatusOf(r) = "pending" /\ StatusOf(r)' = "done"
  BY <1>1 DEF StatusOf, InFlight, Holding
<1>3. LocalFailure(r)' = TRUE
  <2>1. 1 \in DOMAIN Failed(r, kind)
    BY FailedIs, RequestsAssumption
  <2>2. Failed(r, kind)[1].kind = kind
    <3>1. Failed(r, kind)[1] = [kind |-> kind, call |-> r, n |-> 1]
      BY <2>1, FailedIs
    <3> QED  BY <3>1
  <2> QED  BY <1>1, <2>1, <2>2 DEF LocalFailure
<1>4. AnsweredBy(r)' = 0 /\ AnsweredBy(r) = 0
  <2>1. outcome[r] = <<>>
    BY DEF ReplyProtocol, Progress, InFlight, Holding
  <2> QED  BY <1>3, <2>1, SeenOf DEF AnsweredBy
<1>5. Service!Fail(r)
  <2>1. [s \in Requests |-> AnsweredBy(s)]' = [s \in Requests |-> AnsweredBy(s)]
    BY <1>1, <1>4, SeenOf
  <2>2. /\ [s \in Requests |-> StatusOf(s)]' =
              [[s \in Requests |-> StatusOf(s)] EXCEPT ![r] = "done"]
        /\ [s \in Requests |-> LocalFailure(s)]' =
              [[s \in Requests |-> LocalFailure(s)] EXCEPT ![r] = TRUE]
    BY <1>1, <1>2, <1>3, SeenOnly
  <2>3. [s \in Requests |-> StatusOf(s)][r] = "pending"
    BY <1>2
  <2> QED  BY <2>1, <2>2, <2>3 DEF Service!Fail
<1> QED  BY <1>5 DEF Service!Next

\* A call that returns the answers it read
LEMMA ServiceAnswers ==
    ASSUME TypeOK, HeldExclusively, ReplyProtocol, ReadsAll,
           NEW r \in Requests, Read(r)
    PROVE  Service!Next
<1> DEFINE c == conn[r]
<1>1. pc[r] = "read" /\ c \in Slots /\ Answering(r) /\ outcome[r] = <<>>
  BY DEF Read, HeldExclusively, Holding, ReplyProtocol, Progress
<1>2. PICK read \in ReadsOf(c) : \E replies \in Parsed(read.buffer) :
         Return(r, Kept(r, replies))
  BY DEF Read, Kept
<1>3. /\ read.buffer = stream[c] /\ Len(stream[c]) \in Nat \ {0}
      /\ stream[c] \in Seq(Fragment)
  <2>1. Progress(r)
    BY DEF ReplyProtocol
  <2> QED  BY <1>1, <1>2, <2>1, FullRead DEF TypeOK
<1>4. PICK replies \in Parsed(stream[c]) : Return(r, Kept(r, replies))
  BY <1>2, <1>3
<1> DEFINE own == Kept(r, replies)
<1>5. /\ DOMAIN own = 1..Len(own)
      /\ Len(own) = IF r \in Pipelined THEN Len(stream[c]) ELSE 1
      /\ \A i \in 1..Len(own) : /\ own[i].call = r /\ own[i].n = i
                                /\ own[i].kind \in {"value", "error"}
  BY <1>1, <1>3, AnswersOwn
<1> HIDE DEF own
<1>6. /\ pc'[r] = "done" /\ outcome'[r] = own
      /\ \A s \in Requests \ {r} : pc'[s] = pc[s] /\ outcome'[s] = outcome[s]
  BY <1>4 DEF Return, TypeOK, own
<1>7. StatusOf(r) = "pending" /\ StatusOf(r)' = "done"
  BY <1>1, <1>6 DEF StatusOf
<1>8. LocalFailure(r) = FALSE /\ LocalFailure(r)' = FALSE
  BY <1>1, <1>5, <1>6, SeenOf DEF LocalFailure
<1>9. AnsweredBy(r)' = Len(own)
  BY <1>5, <1>6, <1>8 DEF AnsweredBy, OwnReplies
<1>10. Len(own) \in 1..executed[r]
  <2>1. Len(stream[c]) <= executed[r] /\ executed[r] \in Nat
    BY <1>1 DEF Answering, TypeOK
  <2> QED  BY <1>3, <1>5, <2>1
<1>11. executed' = executed
  BY DEF Read
<1>12. [s \in Requests |-> LocalFailure(s)]' = [s \in Requests |-> LocalFailure(s)]
  BY <1>6, <1>8, SeenOf
<1>13. Service!Answer(r)
  BY <1>6, <1>7, <1>9, <1>10, <1>11, <1>12, SeenOnly DEF Service!Answer
<1> QED  BY <1>13 DEF Service!Next

LEMMA StepService ==
    ASSUME TypeOK, HeldExclusively, DownIsEmpty, ReplyProtocol, ReadsAll,
           \A r \in Requests : Size[r] > 0,
           [Next]_vars
    PROVE  [Service!Next]_(Service!vars)
<1>1. ASSUME NEW r \in Requests, Call(r)
      PROVE  Service!Next
  <2>1. /\ pc[r] = "new" /\ pc'[r] = "acquire" /\ UNCHANGED <<outcome, executed>>
        /\ \A s \in Requests \ {r} : pc'[s] = pc[s]
    BY <1>1 DEF Call, Goto, TypeOK
  <2>2. StatusOf(r) = "new" /\ StatusOf(r)' = "pending"
    BY <2>1 DEF StatusOf
  <2>3. UNCHANGED <<[s \in Requests |-> AnsweredBy(s)], [s \in Requests |-> LocalFailure(s)]>>
    BY <2>1, SeenOf
  <2>4. Service!Submit(r)
    BY <2>1, <2>2, <2>3, SeenOnly DEF Service!Submit
  <2> QED  BY <2>4 DEF Service!Next
\* A call that goes on without returning
<1>2. ASSUME NEW r \in Requests, pc[r] \in InFlight, pc'[r] \in InFlight,
             \A s \in Requests \ {r} : pc'[s] = pc[s],
             UNCHANGED <<outcome, executed>>
      PROVE  [Service!Next]_(Service!vars)
  <2>1. StatusOf(r)' = StatusOf(r)
    BY <1>2 DEF StatusOf, InFlight, Holding
  <2>2. \A s \in Requests \ {r} : StatusOf(s)' = StatusOf(s)
    BY <1>2, SeenOf
  <2>3. \A s \in Requests : StatusOf(s)' = StatusOf(s)
    BY <2>1, <2>2
  <2> QED  BY <1>2, <2>3, Unseen
<1>3. ASSUME NEW r \in Requests,
             \/ \E c \in Slots : Take(r, c)
             \/ Connect(r) \/ AuthWrite(r) \/ AuthWriteFails(r) \/ AuthRead(r)
             \/ AuthReadFails(r) \/ Write(r)
      PROVE  [Service!Next]_(Service!vars)
  <2>1. pc[r] \in InFlight /\ UNCHANGED <<outcome, executed>>
    BY <1>3 DEF Take, Connect, AuthWrite, AuthWriteFails, AuthRead, AuthReadFails,
                Write, Goto, InFlight, Holding
  <2>2. \E where \in InFlight : pc' = [pc EXCEPT ![r] = where]
    BY <1>3 DEF Take, Connect, AuthWrite, AuthWriteFails, AuthRead, AuthReadFails,
                Write, Goto, InFlight, Holding
  <2>3. pc'[r] \in InFlight /\ \A s \in Requests \ {r} : pc'[s] = pc[s]
    BY <2>2 DEF TypeOK
  <2> QED  BY <1>2, <2>1, <2>3
<1>4. ASSUME NEW r \in Requests, NullConnection(r) \/ WriteFails(r) \/ ReadFails(r)
      PROVE  Service!Next
  <2>1. Size[r] \in Nat /\ Size[r] > 0 /\ executed[r] \in Nat
    BY RequestsAssumption DEF TypeOK
  <2>2. executed[r] <= Size[r]
    <3>1. CASE pc[r] = "read"
      <4>1. executed[r] + Len(inbox[conn[r]]) <= Size[r]
        BY <3>1 DEF ReplyProtocol, Progress, Answering
      <4>2. Len(inbox[conn[r]]) \in Nat
        BY <3>1, LenProperties DEF TypeOK, HeldExclusively, Holding
      <4> QED  BY <2>1, <4>1, <4>2
    <3>2. CASE pc[r] # "read"
      <4>1. executed[r] = 0
        BY <1>4, <3>2 DEF NullConnection, WriteFails, ReadFails, ReplyProtocol, Progress,
                          Holding
      <4> QED  BY <2>1, <4>1
    <3> QED  BY <3>1, <3>2
  <2>3. \E n \in executed[r]..Size[r] : executed' = [executed EXCEPT ![r] = n]
    <3>1. CASE UNCHANGED executed
      <4>1. executed' = [executed EXCEPT ![r] = executed[r]]
        BY <3>1 DEF TypeOK
      <4>2. executed[r] \in executed[r]..Size[r]
        BY <2>1, <2>2
      <4> QED  BY <4>1, <4>2
    <3>2. CASE WriteFails(r) /\ ~ UNCHANGED executed
      <4>1. executed[r] = 0
        BY <3>2 DEF WriteFails, ReplyProtocol, Progress, Holding
      <4>2. \E k \in 0..Size[r] : executed' = [executed EXCEPT ![r] = k]
        BY <3>2 DEF WriteFails
      <4> QED  BY <4>1, <4>2
    <3> QED  BY <1>4, <3>1, <3>2 DEF NullConnection, ReadFails
  <2>4. \E kind \in {"client_stopped", "write_error", "read_error"} :
           Return(r, Failed(r, kind))
    BY <1>4 DEF NullConnection, WriteFails, ReadFails
  <2>5. pc[r] \in InFlight
    BY <1>4 DEF NullConnection, WriteFails, ReadFails, InFlight, Holding
  <2> QED  BY <2>1, <2>3, <2>4, <2>5, ServiceFails
<1>5. ASSUME NEW c \in Slots, Serve(c)
      PROVE  [Service!Next]_(Service!vars)
  <2>1. UNCHANGED <<pc, outcome>>
    BY <1>5 DEF Serve, callVars
  <2>2. UNCHANGED <<[s \in Requests |-> StatusOf(s)], [s \in Requests |-> AnsweredBy(s)],
                    [s \in Requests |-> LocalFailure(s)]>>
    BY <2>1, SeenOf
  <2>3. PICK r \in Requests :
           \/ /\ pc[r] = "read" /\ executed[r] < Size[r]
              /\ executed' = [executed EXCEPT ![r] = @ + 1]
           \/ executed' = executed
    BY <1>5, ServedCall
  <2>4. CASE executed' = executed
    BY <2>2, <2>4 DEF Service!vars
  <2>5. CASE /\ pc[r] = "read" /\ executed[r] < Size[r]
             /\ executed' = [executed EXCEPT ![r] = @ + 1]
    <3>1. StatusOf(r) = "pending"
      BY <2>5 DEF StatusOf
    <3>2. Service!Execute(r)
      BY <2>2, <2>5, <3>1 DEF Service!Execute
    <3> QED  BY <3>2 DEF Service!Next
  <2> QED  BY <2>3, <2>4, <2>5
<1>6. CASE SetConfig
  <2>1. \A r \in Requests : /\ pc'[r] = IF pc[r] \in InFlight THEN "lost" ELSE pc[r]
                            /\ pc[r] \in InFlight => pc[r] \notin {"new", "done"}
    BY <1>6 DEF SetConfig, InFlight, Holding
  <2>2. \A r \in Requests : StatusOf(r)' = StatusOf(r)
    BY <2>1 DEF StatusOf
  <2> QED  BY <1>6, <2>2, Unseen DEF SetConfig
<1>7. CASE \/ \E r \in Requests : ConnectFails(r)
           \/ \E c \in Slots : PeerCloses(c)
           \/ Returned \/ UNCHANGED vars
  <2>1. UNCHANGED <<pc, outcome, executed>>
    BY <1>7 DEF ConnectFails, PeerCloses, Returned, vars, callVars
  <2>2. \A r \in Requests : StatusOf(r)' = StatusOf(r)
    BY <2>1, SeenOf
  <2> QED  BY <2>1, <2>2, Unseen
<1>8. ASSUME NEW r \in Requests, Read(r)
      PROVE  Service!Next
  BY <1>8, ServiceAnswers
<1> QED  BY <1>1, <1>3, <1>4, <1>5, <1>6, <1>7, <1>8 DEF Next, Step

\* The client implements RequestService, when one read returns the answers to
\* everything written and no call has an empty list of commands: each call
\* returns once, with answers to its own first commands or with a local error,
\* and the server runs no command twice or after the return (client.cpp:47-148).
THEOREM ClientServes ==
    ASSUME ReadsAll, \A r \in Requests : Size[r] > 0
    PROVE  Spec => ImplementsService
<1> DEFINE Inv == TypeOK /\ HeldExclusively /\ DownIsEmpty /\ ReplyProtocol
<1>1. Spec => []Inv
  BY RepliesInvariant
<1>2. Inv /\ [Next]_vars => [Service!Next]_(Service!vars)
  BY StepService
<1> HIDE DEF Inv
<1> QED  BY <1>1, <1>2, InitService, PTL DEF Spec, ImplementsService, Service!Spec

=============================================================================
