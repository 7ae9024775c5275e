------------------------- MODULE RedisClientProofs -------------------------
(***************************************************************************)
(* Theorems about RedisClient, for every value of its constants that meets *)
(* RequestsAssumption and EnvironmentAssumption.                           *)
(***************************************************************************)
EXTENDS RedisClient, SequenceTheorems, TLAPS

-----------------------------------------------------------------------------
(* What reads return and what the parser makes of them.                    *)

\* A function on the first numbers is a sequence
LEMMA FunctionIsSeq ==
    ASSUME NEW S, NEW n \in Nat, NEW f \in [1..n -> S]
    PROVE  f \in Seq(S) /\ Len(f) = n
BY SMT

\* Keeping the first fragments of a sequence, or dropping them, keeps its type
LEMMA PiecesType ==
    ASSUME NEW S, NEW wait \in Seq(S), NEW n \in 0..Len(wait)
    PROVE  /\ SubSeq(wait, 1, n) \in Seq(S)
           /\ Len(SubSeq(wait, 1, n)) = n
           /\ SubSeq(wait, n + 1, Len(wait)) \in Seq(S)
<1>1. n \in Nat /\ Len(wait) \in Nat /\ n <= Len(wait)
  BY LenProperties
<1>2. \A i \in 1..n : wait[i] \in S
  BY <1>1, ElementOfSeq
<1>3. \A i \in (n + 1)..Len(wait) : wait[i] \in S
  BY <1>1, ElementOfSeq
<1>4. SubSeq(wait, 1, n) \in Seq(S) /\ Len(SubSeq(wait, 1, n)) = n
  BY <1>1, <1>2, SubSeqProperties
<1>5. SubSeq(wait, n + 1, Len(wait)) \in Seq(S)
  BY <1>1, <1>3, SubSeqProperties
<1> QED  BY <1>4, <1>5

\* A read returns at least one fragment, and leaves fragments
LEMMA ReadsType ==
    ASSUME TypeOK, NEW c \in Slots, NEW read \in ReadsOf(c)
    PROVE  /\ read.buffer \in Seq(Fragment)
           /\ Len(read.buffer) > 0
           /\ read.rest \in Seq(Fragment)
<1> DEFINE wait == stream[c]
           Front(n) == SubSeq(wait, 1, n)
           Rest(n) == SubSeq(wait, n + 1, Len(wait))
           Cut(n) == [buffer |-> Append(Front(n - 1), Taken(wait[n])),
                      rest |-> <<Left(wait[n])>> \o Rest(n)]
           Replies(n) == [buffer |-> Front(n), rest |-> Rest(n)]
<1>1. wait \in Seq(Fragment) /\ Len(wait) \in Nat
  BY LenProperties DEF TypeOK
<1>2. PICK n \in 1..Len(wait) : read = Replies(n) \/ read = Cut(n)
  <2>1. Len(wait) > 0 => Len(wait) \in 1..Len(wait)
    BY <1>1
  <2> QED  BY <1>1, <2>1, EnvironmentAssumption DEF ReadsOf
<1>3. n \in 0..Len(wait) /\ n - 1 \in 0..Len(wait) /\ wait[n] \in Fragment
  BY <1>1, ElementOfSeq
<1>4. /\ Front(n) \in Seq(Fragment) /\ Len(Front(n)) = n
      /\ Front(n - 1) \in Seq(Fragment) /\ Len(Front(n - 1)) = n - 1
      /\ Rest(n) \in Seq(Fragment)
  BY <1>1, <1>3, PiecesType
<1>5. Taken(wait[n]) \in Fragment /\ Left(wait[n]) \in Fragment
  BY <1>3 DEF Taken, Left, Part, Fragment
<1>6. CASE read = Replies(n)
  BY <1>4, <1>6
<1>7. CASE read = Cut(n)
  <2> HIDE DEF wait, Front, Rest
  <2>1. /\ Append(Front(n - 1), Taken(wait[n])) \in Seq(Fragment)
        /\ Len(Append(Front(n - 1), Taken(wait[n]))) = Len(Front(n - 1)) + 1
    BY <1>4, <1>5, AppendProperties
  <2>2. <<Left(wait[n])>> \o Rest(n) \in Seq(Fragment)
    BY <1>4, <1>5, ConcatProperties
  <2> QED  BY <1>3, <1>4, <1>7, <2>1, <2>2
<1> QED  BY <1>2, <1>6, <1>7

\* What a buffer that starts with a whole reply, or is empty, becomes
LEMMA FromStartType ==
    ASSUME NEW buffer \in Seq(Fragment), NEW replies \in FromStart(buffer)
    PROVE  replies \in Seq(Reply) /\ (Len(buffer) > 0 => Len(replies) > 0)
<1> DEFINE last == Len(buffer)
           whole == [i \in 1..last |-> WholeReply(buffer[i])]
           but == [i \in 1..(last - 1) |-> WholeReply(buffer[i])]
           cut == buffer[last]
           short == ReplyTo(cut, "eof")
           over == ReplyTo(cut, IF cut.ok THEN "partial" ELSE "error")
           half == ReplyTo(cut, "partial")
<1>1. last \in Nat
  BY LenProperties
<1>2. \A i \in 1..last : WholeReply(buffer[i]) \in Reply
  <2> SUFFICES ASSUME NEW i \in 1..last
               PROVE  WholeReply(buffer[i]) \in Reply
    OBVIOUS
  <2>1. buffer[i] \in Fragment
    BY ElementOfSeq
  <2> QED  BY <2>1 DEF WholeReply, ReplyTo, Fragment, Reply, ReplyKind, ErrorKind
<1>4. whole \in Seq(Reply) /\ Len(whole) = last
  <2>1. whole \in [1..last -> Reply]
    BY <1>2
  <2> HIDE DEF whole
  <2> QED  BY <1>1, <2>1, FunctionIsSeq
<1>5. CASE last = 0
  <2>1. replies = whole
    BY <1>5 DEF FromStart
  <2> QED  BY <1>4, <1>5, <2>1
<1>6. CASE last # 0
  <2>1. last - 1 \in Nat /\ last \in 1..last
    BY <1>1, <1>6
  <2>2. cut \in Fragment
    BY <2>1, ElementOfSeq
  <2>3. Nil \in Reply /\ short \in Reply /\ over \in Reply /\ half \in Reply
    BY <2>2 DEF Nil, ReplyTo, Fragment, Reply, ReplyKind, ErrorKind
  <2>4. but \in Seq(Reply)
    <3>1. but \in [1..(last - 1) -> Reply]
      BY <1>1, <1>2
    <3> HIDE DEF but
    <3> QED  BY <2>1, <3>1, FunctionIsSeq
  <2>5. \/ replies = whole
        \/ replies = but \o <<short>>
        \/ replies = but \o <<over, Nil>>
        \/ replies = but \o <<half>>
    BY <1>6 DEF FromStart
  <2> HIDE DEF short, over, half, but, whole
  <2>6. /\ <<short>> \in Seq(Reply) /\ Len(<<short>>) = 1
        /\ <<half>> \in Seq(Reply) /\ Len(<<half>>) = 1
        /\ <<over, Nil>> \in Seq(Reply) /\ Len(<<over, Nil>>) = 2
    BY <2>3
  <2>7. /\ but \o <<short>> \in Seq(Reply)
        /\ Len(but \o <<short>>) = Len(but) + 1
        /\ but \o <<half>> \in Seq(Reply)
        /\ Len(but \o <<half>>) = Len(but) + 1
        /\ but \o <<over, Nil>> \in Seq(Reply)
        /\ Len(but \o <<over, Nil>>) = Len(but) + 2
    BY <2>4, <2>6, ConcatProperties
  <2>8. Len(but) \in Nat
    BY <2>4, LenProperties
  <2>9. CASE replies = whole
    BY <1>1, <1>4, <1>6, <2>9
  <2>10. CASE replies = but \o <<short>>
    BY <2>7, <2>8, <2>10
  <2>11. CASE replies = but \o <<half>>
    BY <2>7, <2>8, <2>11
  <2>12. CASE replies = but \o <<over, Nil>>
    BY <2>7, <2>8, <2>12
  <2> QED  BY <2>5, <2>9, <2>10, <2>11, <2>12
<1> QED  BY <1>5, <1>6

LEMMA StraysType ==
    ASSUME NEW k \in Nat
    PROVE  Strays(k) \in Seq(Reply) /\ Len(Strays(k)) = k
<1>1. Stray \in Reply
  BY DEF Stray, Reply, ReplyKind
<1>2. Strays(k) \in [1..k -> Reply]
  BY <1>1 DEF Strays
<1> QED  BY <1>2, FunctionIsSeq

\* The parser makes at least one reply of a buffer
LEMMA ParsedType ==
    ASSUME NEW buffer \in Seq(Fragment), Len(buffer) > 0,
           NEW replies \in Parsed(buffer)
    PROVE  replies \in Seq(Reply) /\ Len(replies) > 0
<1>1. CASE buffer[1].form # "tail"
  <2>1. replies \in FromStart(buffer)
    BY <1>1 DEF Parsed
  <2> QED  BY <2>1, FromStartType
<1>2. CASE buffer[1].form = "tail"
  <2>1. Tail(buffer) \in Seq(Fragment)
    <3>1. buffer # <<>>
      OBVIOUS
    <3> QED  BY <3>1, HeadTailProperties
  <2>2. \/ \E k \in 0..MaxStrays : replies = Strays(k) \o <<Nil>>
        \/ \E p \in (1..MaxStrays) \X FromStart(Tail(buffer)) :
              replies = Strays(p[1]) \o p[2]
    BY <1>2 DEF Parsed
  <2>3. ASSUME NEW k \in 0..MaxStrays, replies = Strays(k) \o <<Nil>>
        PROVE  replies \in Seq(Reply) /\ Len(replies) > 0
    <3>1. <<Nil>> \in Seq(Reply) /\ Len(<<Nil>>) = 1
      BY DEF Nil, Reply, ReplyKind
    <3>2. k \in Nat
      BY StraysAssumption
    <3>3. Strays(k) \in Seq(Reply) /\ Len(Strays(k)) = k
      BY <3>2, StraysType
    <3> QED  BY <2>3, <3>1, <3>2, <3>3, ConcatProperties
  <2>4. ASSUME NEW p \in (1..MaxStrays) \X FromStart(Tail(buffer)),
               replies = Strays(p[1]) \o p[2]
        PROVE  replies \in Seq(Reply) /\ Len(replies) > 0
    <3>1. p[1] \in Nat /\ p[1] > 0 /\ p[2] \in FromStart(Tail(buffer))
      BY StraysAssumption
    <3>2. Strays(p[1]) \in Seq(Reply) /\ Len(Strays(p[1])) = p[1]
      BY <3>1, StraysType
    <3>3. p[2] \in Seq(Reply) /\ Len(p[2]) \in Nat
      BY <2>1, <3>1, FromStartType, LenProperties
    <3> QED  BY <2>4, <3>1, <3>2, <3>3, ConcatProperties
  <2> QED  BY <2>2, <2>3, <2>4
<1> QED  BY <1>1, <1>2

-----------------------------------------------------------------------------
(* What the operators shared by the actions do to the types.               *)

LEMMA CommandsType ==
    ASSUME NEW r \in Requests
    PROVE  CommandsOf(r) \in Seq(Command)
<1>1. Size[r] \in Nat
  BY RequestsAssumption
<1>2. CommandsOf(r) \in [1..Size[r] -> Command]
  BY <1>1 DEF CommandsOf, Command, Calls
<1> QED  BY <1>1, <1>2, FunctionIsSeq

LEMMA FailedType ==
    ASSUME NEW r \in Requests, NEW kind \in ErrorKind
    PROVE  Failed(r, kind) \in Seq(Reply)
<1> DEFINE count == IF r \in Pipelined THEN Size[r] ELSE 1
<1>1. count \in Nat
  BY RequestsAssumption
<1>2. Failed(r, kind) \in [1..count -> Reply]
  BY <1>1 DEF Failed, Reply, ReplyKind, Calls
<1> HIDE DEF count
<1> QED  BY <1>1, <1>2, FunctionIsSeq

LEMMA GotoType ==
    ASSUME TypeOK, NEW r \in Requests, NEW where \in InFlight, Goto(r, where)
    PROVE  /\ pc' \in [Requests -> InFlight \cup {"new", "done", "lost"}]
           /\ conn' \in [Requests -> Slots \cup {NoSlot}]
           /\ outcome' \in [Requests -> Seq(Reply)]
           /\ slot' \in [Slots -> {"absent", "idle", "busy"}]
BY DEF TypeOK, Goto

LEMMA ReturnType ==
    ASSUME TypeOK, NEW r \in Requests, NEW replies \in Seq(Reply),
           Return(r, replies)
    PROVE  /\ pc' \in [Requests -> InFlight \cup {"new", "done", "lost"}]
           /\ conn' \in [Requests -> Slots \cup {NoSlot}]
           /\ outcome' \in [Requests -> Seq(Reply)]
           /\ slot' \in [Slots -> {"absent", "idle", "busy"}]
BY DEF TypeOK, Return

LEMMA SendType ==
    ASSUME TypeOK, NEW c, NEW commands \in Seq(Command),
           Send(c, commands)
    PROVE  /\ link' \in [Slots -> {"down", "up", "broken"}]
           /\ trusted' \in [Slots -> BOOLEAN]
           /\ inbox' \in [Slots -> Seq(Command)]
           /\ stream' \in [Slots -> Seq(Fragment)]
<1>1. c \in Slots => inbox[c] \o commands \in Seq(Command)
  BY ConcatProperties DEF TypeOK
<1> QED  BY <1>1 DEF TypeOK, Send

LEMMA DropType ==
    ASSUME TypeOK, NEW c, Drop(c)
    PROVE  /\ link' \in [Slots -> {"down", "up", "broken"}]
           /\ trusted' \in [Slots -> BOOLEAN]
           /\ inbox' \in [Slots -> Seq(Command)]
           /\ stream' \in [Slots -> Seq(Fragment)]
<1>1. <<>> \in Seq(Command) /\ <<>> \in Seq(Fragment)
  BY EmptySeq
<1> QED  BY <1>1 DEF TypeOK, Drop

LEMMA FaultType ==
    ASSUME TypeOK, Fault
    PROVE  faults' \in 0..MaxFaults
BY EnvironmentAssumption DEF TypeOK, Fault

-----------------------------------------------------------------------------
(* Type correctness.                                                       *)

LEMMA InitType == Init => TypeOK
BY EnvironmentAssumption DEF Init, TypeOK

LEMMA StepType ==
    ASSUME TypeOK, HeldExclusively, [Next]_vars
    PROVE  TypeOK'
<1> USE DEF Holding, InFlight
<1>1. ASSUME NEW r \in Requests, Call(r)
      PROVE  TypeOK'
  BY <1>1, GotoType DEF TypeOK, Call, linkVars
<1>2. ASSUME NEW r \in Requests, NEW c \in Slots, Take(r, c)
      PROVE  TypeOK'
  BY <1>2 DEF TypeOK, Take, linkVars
<1>3. ASSUME NEW r \in Requests, Connect(r)
      PROVE  TypeOK'
  BY <1>3, GotoType DEF TypeOK, Connect
<1>4. ASSUME NEW r \in Requests, ConnectFails(r)
      PROVE  TypeOK'
  BY <1>4, FaultType DEF TypeOK, ConnectFails, callVars, linkVars
<1>5. ASSUME NEW r \in Requests, NullConnection(r)
      PROVE  TypeOK'
  <2>1. Failed(r, "client_stopped") \in Seq(Reply)
    BY FailedType DEF ErrorKind
  <2> QED  BY <1>5, <2>1, FaultType, ReturnType
           DEF TypeOK, NullConnection, linkVars
<1>6. ASSUME NEW r \in Requests, AuthWrite(r)
      PROVE  TypeOK'
  <2>1. <<[call |-> AuthCall, n |-> 1]>> \in Seq(Command)
    BY DEF Command, Calls
  <2> QED  BY <1>6, <2>1, SendType, GotoType DEF TypeOK, AuthWrite
<1>7. ASSUME NEW r \in Requests, AuthWriteFails(r)
      PROVE  TypeOK'
  <2>1. faults' \in 0..MaxFaults
    BY <1>7, FaultType DEF TypeOK, AuthWriteFails, NoFault
  <2> QED  BY <1>7, <2>1, DropType, GotoType DEF TypeOK, AuthWriteFails
<1>8. ASSUME NEW r \in Requests, AuthRead(r)
      PROVE  TypeOK'
  <2>1. PICK read \in ReadsOf(conn[r]) : \E replies \in Parsed(read.buffer) :
            IF Refused(replies)
            THEN Drop(conn[r]) /\ Goto(r, "connect")
            ELSE /\ stream' = [stream EXCEPT ![conn[r]] = read.rest]
                 /\ UNCHANGED <<link, trusted, inbox>>
                 /\ Goto(r, "write")
    BY <1>8 DEF AuthRead
  <2>2. CASE Drop(conn[r]) /\ Goto(r, "connect")
    BY <1>8, <2>2, DropType, GotoType DEF TypeOK, AuthRead
  <2>3. CASE /\ stream' = [stream EXCEPT ![conn[r]] = read.rest]
             /\ UNCHANGED <<link, trusted, inbox>>
             /\ Goto(r, "write")
    <3>1. conn[r] \in Slots => read.rest \in Seq(Fragment)
      BY ReadsType
    <3>2. stream' \in [Slots -> Seq(Fragment)]
      BY <2>3, <3>1 DEF TypeOK
    <3> QED  BY <1>8, <2>3, <3>2, GotoType DEF TypeOK, AuthRead
  <2> QED  BY <2>1, <2>2, <2>3
<1>9. ASSUME NEW r \in Requests, AuthReadFails(r)
      PROVE  TypeOK'
  BY <1>9, DropType, GotoType DEF TypeOK, AuthReadFails
<1>10. ASSUME NEW r \in Requests, Write(r)
       PROVE  TypeOK'
  BY <1>10, CommandsType, SendType, GotoType DEF TypeOK, Write
<1>11. ASSUME NEW r \in Requests, WriteFails(r)
       PROVE  TypeOK'
  <2>1. Failed(r, "write_error") \in Seq(Reply)
    BY FailedType DEF ErrorKind
  <2>2. executed' \in [Requests -> Nat] /\ faults' \in 0..MaxFaults
    BY <1>11, FaultType, RequestsAssumption DEF TypeOK, WriteFails, NoFault
  <2> QED  BY <1>11, <2>1, <2>2, DropType, ReturnType DEF TypeOK, WriteFails
<1>12. ASSUME NEW r \in Requests, Read(r)
       PROVE  TypeOK'
  <2> conn[r] \in Slots
    BY <1>12 DEF Read, HeldExclusively
  <2>1. PICK read \in ReadsOf(conn[r]) : \E replies \in Parsed(read.buffer) :
            /\ stream' = [stream EXCEPT ![conn[r]] = read.rest]
            /\ Return(r, IF r \in Pipelined THEN replies ELSE <<replies[1]>>)
    BY <1>12 DEF Read
  <2>2. PICK replies \in Parsed(read.buffer) :
            /\ stream' = [stream EXCEPT ![conn[r]] = read.rest]
            /\ Return(r, IF r \in Pipelined THEN replies ELSE <<replies[1]>>)
    BY <2>1
  <2>3. /\ read.rest \in Seq(Fragment)
        /\ replies \in Seq(Reply) /\ Len(replies) > 0
    BY <1>12, ReadsType, ParsedType
  <2>4. replies[1] \in Reply
    BY <2>3, LenProperties, ElementOfSeq
  <2>5. (IF r \in Pipelined THEN replies ELSE <<replies[1]>>) \in Seq(Reply)
    BY <2>3, <2>4
  <2>6. stream' \in [Slots -> Seq(Fragment)]
    BY <2>2, <2>3 DEF TypeOK
  <2> QED  BY <1>12, <2>2, <2>5, <2>6, ReturnType DEF TypeOK, Read
<1>13. ASSUME NEW r \in Requests, ReadFails(r)
       PROVE  TypeOK'
  <2>1. Failed(r, "read_error") \in Seq(Reply)
    BY FailedType DEF ErrorKind
  <2> QED  BY <1>13, <2>1, DropType, ReturnType DEF TypeOK, ReadFails
<1>14. CASE SetConfig
  BY <1>14, EnvironmentAssumption, EmptySeq DEF TypeOK, SetConfig
<1>15. ASSUME NEW c \in Slots, Serve(c)
       PROVE  TypeOK'
  <2> DEFINE command == Head(inbox[c])
  <2>1. /\ command \in Command
        /\ Tail(inbox[c]) \in Seq(Command)
    BY <1>15, HeadTailProperties DEF Serve, TypeOK
  <2>2. PICK ok \in BOOLEAN :
          /\ stream' = [stream EXCEPT ![c] = Append(@,
                [call |-> command.call, n |-> command.n,
                 form |-> "whole", ok |-> ok])]
          /\ IF command.call = AuthCall
             THEN /\ trusted' = [trusted EXCEPT ![c] = ok]
                  /\ IF ok THEN NoFault ELSE Fault
                  /\ UNCHANGED executed
             ELSE /\ executed' = [executed EXCEPT ![command.call] = @ + 1]
                  /\ NoFault
                  /\ UNCHANGED trusted
    BY <1>15 DEF Serve
  <2>3. [call |-> command.call, n |-> command.n, form |-> "whole", ok |-> ok]
            \in Fragment
    BY <2>1 DEF Command, Fragment
  <2>4. stream' \in [Slots -> Seq(Fragment)]
    BY <2>2, <2>3, AppendProperties DEF TypeOK
  <2>5. /\ trusted' \in [Slots -> BOOLEAN]
        /\ executed' \in [Requests -> Nat]
        /\ faults' \in 0..MaxFaults
    <3>1. CASE command.call = AuthCall
      BY <2>2, <3>1, FaultType DEF TypeOK, NoFault
    <3>2. CASE command.call # AuthCall
      <4>1. command.call \in Requests
        BY <2>1, <3>2 DEF Command, Calls
      <4> QED  BY <2>2, <3>2, <4>1 DEF TypeOK, NoFault
    <3> QED  BY <3>1, <3>2
  <2>6. inbox' \in [Slots -> Seq(Command)]
    BY <1>15, <2>1 DEF TypeOK, Serve
  <2> QED  BY <1>15, <2>4, <2>5, <2>6 DEF TypeOK, Serve, callVars
<1>16. ASSUME NEW c \in Slots, PeerCloses(c)
       PROVE  TypeOK'
  <2>1. \A n \in 0..Len(stream[c]) : SubSeq(stream[c], 1, n) \in Seq(Fragment)
    BY PiecesType DEF TypeOK
  <2>2. stream' \in [Slots -> Seq(Fragment)]
    BY <1>16, <2>1 DEF PeerCloses, TypeOK
  <2> QED  BY <1>16, <2>2, FaultType, EmptySeq DEF TypeOK, PeerCloses, callVars
<1>17. CASE Returned \/ UNCHANGED vars
  BY <1>17 DEF TypeOK, Returned, vars, callVars, linkVars
<1> QED
  BY <1>1, <1>2, <1>3, <1>4, <1>5, <1>6, <1>7, <1>8, <1>9, <1>10, <1>11,
     <1>12, <1>13, <1>14, <1>15, <1>16, <1>17 DEF Next, Step

-----------------------------------------------------------------------------
(* Who holds which connection.                                             *)

LEMMA InitHeld == Init => HeldExclusively
BY DEF Init, HeldExclusively, Holding

\* A call that keeps its connection and only moves between awaits
LEMMA GotoHeld ==
    ASSUME TypeOK, HeldExclusively,
           NEW r \in Requests, NEW where, Goto(r, where),
           pc[r] \in Holding <=> where \in Holding,
           where \in {"new", "acquire"} => conn[r] = NoSlot
    PROVE  HeldExclusively'
BY DEF TypeOK, HeldExclusively, Goto

\* A call that returns, with a connection or without
LEMMA ReturnHeld ==
    ASSUME TypeOK, HeldExclusively,
           NEW r \in Requests, NEW replies, Return(r, replies),
           conn[r] = NoSlot \/ pc[r] \in Holding
    PROVE  HeldExclusively'
<1>1. NoSlot \notin Slots
  BY EnvironmentAssumption
<1>2. \A s \in Requests : pc'[s] \in Holding =>
         s # r /\ pc[s] \in Holding /\ conn'[s] = conn[s]
  BY DEF TypeOK, Return, Holding
<1>3. \A s \in Requests : pc'[s] \in Holding => conn[s] # conn[r]
  BY <1>1, <1>2 DEF HeldExclusively
<1>4. \A s \in Requests : pc'[s] \in Holding =>
         conn'[s] \in Slots /\ slot'[conn'[s]] = "busy"
  BY <1>2, <1>3 DEF HeldExclusively, Return
<1>5. \A c \in Slots : slot'[c] = "busy" =>
         \E s \in Requests : pc'[s] \in Holding /\ conn'[s] = c
  <2> SUFFICES ASSUME NEW c \in Slots, slot'[c] = "busy"
               PROVE  \E s \in Requests : pc'[s] \in Holding /\ conn'[s] = c
    OBVIOUS
  <2>1. c # conn[r] /\ slot[c] = "busy"
    BY DEF Return
  <2>2. PICK s \in Requests : pc[s] \in Holding /\ conn[s] = c
    BY <2>1 DEF HeldExclusively
  <2> QED  BY <2>1, <2>2 DEF TypeOK, Return
<1>6. \A s \in Requests : pc'[s] \in {"new", "acquire"} => conn'[s] = NoSlot
  BY DEF TypeOK, Return, HeldExclusively
<1> QED  BY <1>2, <1>4, <1>5, <1>6 DEF HeldExclusively

\* A call that gets a connection nobody holds
LEMMA TakeHeld ==
    ASSUME TypeOK, HeldExclusively,
           NEW r \in Requests, NEW c \in Slots, Take(r, c)
    PROVE  HeldExclusively'
<1>1. slot[c] # "busy" /\ pc[r] \notin Holding
  BY DEF Take, Available, Holding
<1>2. \A s \in Requests : s # r =>
         pc'[s] = pc[s] /\ conn'[s] = conn[s] /\ (pc[s] \in Holding => conn[s] # c)
  BY <1>1 DEF TypeOK, Take, HeldExclusively
<1>3. pc'[r] \in Holding /\ conn'[r] = c /\ slot'[c] = "busy"
  BY DEF TypeOK, Take, Holding
<1>4. \A d \in Slots : d # c => slot'[d] = slot[d]
  BY DEF TypeOK, Take
<1>5. \A s \in Requests : pc'[s] \in Holding =>
         conn'[s] \in Slots /\ slot'[conn'[s]] = "busy"
  BY <1>2, <1>3, <1>4 DEF HeldExclusively
<1>6. \A d \in Slots : slot'[d] = "busy" =>
         \E s \in Requests : pc'[s] \in Holding /\ conn'[s] = d
  BY <1>1, <1>2, <1>3, <1>4 DEF HeldExclusively
<1>7. \A s, t \in Requests :
         pc'[s] \in Holding /\ pc'[t] \in Holding /\ conn'[s] = conn'[t] => s = t
  BY <1>2, <1>3 DEF HeldExclusively
<1>8. \A s \in Requests : pc'[s] \in {"new", "acquire"} => conn'[s] = NoSlot
  BY <1>2, <1>3 DEF HeldExclusively, Holding
<1> QED  BY <1>5, <1>6, <1>7, <1>8 DEF HeldExclusively

LEMMA StepHeld ==
    ASSUME TypeOK, HeldExclusively, [Next]_vars
    PROVE  HeldExclusively'
<1>1. ASSUME NEW r \in Requests, Call(r)
      PROVE  HeldExclusively'
  BY <1>1, GotoHeld DEF Call, HeldExclusively, Holding
<1>2. ASSUME NEW r \in Requests, NEW c \in Slots, Take(r, c)
      PROVE  HeldExclusively'
  BY <1>2, TakeHeld
<1>3. ASSUME NEW r \in Requests, Connect(r)
      PROVE  HeldExclusively'
  BY <1>3, GotoHeld DEF Connect, Holding
<1>4. ASSUME NEW r \in Requests, ConnectFails(r)
      PROVE  HeldExclusively'
  BY <1>4 DEF ConnectFails, callVars, HeldExclusively
<1>5. ASSUME NEW r \in Requests, NullConnection(r)
      PROVE  HeldExclusively'
  BY <1>5, ReturnHeld DEF NullConnection, HeldExclusively, Holding
<1>6. ASSUME NEW r \in Requests, AuthWrite(r)
      PROVE  HeldExclusively'
  BY <1>6, GotoHeld DEF AuthWrite, Holding
<1>7. ASSUME NEW r \in Requests, AuthWriteFails(r)
      PROVE  HeldExclusively'
  BY <1>7, GotoHeld DEF AuthWriteFails, Holding
<1>8. ASSUME NEW r \in Requests, AuthRead(r)
      PROVE  HeldExclusively'
  <2>1. Goto(r, "connect") \/ Goto(r, "write")
    BY <1>8 DEF AuthRead
  <2> QED  BY <1>8, <2>1, GotoHeld DEF AuthRead, Holding
<1>9. ASSUME NEW r \in Requests, AuthReadFails(r)
      PROVE  HeldExclusively'
  BY <1>9, GotoHeld DEF AuthReadFails, Holding
<1>10. ASSUME NEW r \in Requests, Write(r)
       PROVE  HeldExclusively'
  BY <1>10, GotoHeld DEF Write, Holding
<1>11. ASSUME NEW r \in Requests, WriteFails(r)
       PROVE  HeldExclusively'
  BY <1>11, ReturnHeld DEF WriteFails, Holding
<1>12. ASSUME NEW r \in Requests, Read(r)
       PROVE  HeldExclusively'
  <2>1. \E replies : Return(r, replies)
    BY <1>12 DEF Read
  <2> QED  BY <1>12, <2>1, ReturnHeld DEF Read, Holding
<1>13. ASSUME NEW r \in Requests, ReadFails(r)
       PROVE  HeldExclusively'
  BY <1>13, ReturnHeld DEF ReadFails, Holding
<1>14. CASE SetConfig
  BY <1>14 DEF SetConfig, TypeOK, HeldExclusively, InFlight, Holding
<1>15. ASSUME NEW c \in Slots, Serve(c)
       PROVE  HeldExclusively'
  BY <1>15 DEF Serve, callVars, HeldExclusively
<1>16. ASSUME NEW c \in Slots, PeerCloses(c)
       PROVE  HeldExclusively'
  BY <1>16 DEF PeerCloses, callVars, HeldExclusively
<1>17. CASE Returned \/ UNCHANGED vars
  BY <1>17 DEF HeldExclusively, Returned, vars, callVars
<1> QED
  BY <1>1, <1>2, <1>3, <1>4, <1>5, <1>6, <1>7, <1>8, <1>9, <1>10, <1>11,
     <1>12, <1>13, <1>14, <1>15, <1>16, <1>17 DEF Next, Step

-----------------------------------------------------------------------------
(* The theorems on types and on the pool.                                  *)

\* The inductive invariant of the first two theorems: neither conjunct is
\* inductive alone, since what a read may leave is only known of a connection
\* that exists.
LEMMA HeldInvariant == Spec => [](TypeOK /\ HeldExclusively)
<1>1. Init => TypeOK /\ HeldExclusively
  BY InitType, InitHeld
<1>2. TypeOK /\ HeldExclusively /\ [Next]_vars => TypeOK' /\ HeldExclusively'
  BY StepType, StepHeld
<1> QED  BY <1>1, <1>2, PTL DEF Spec

\* Type correctness of the client (client.cpp:47-148), whatever the network
\* delivers and however often the client is reconfigured.
THEOREM TypeCorrect == Spec => []TypeOK
BY HeldInvariant, PTL

\* A call only leaves the pool with its connection given back
LEMMA InitGivenBack == Init => \A r \in Requests : conn[r] # NoSlot => pc[r] \in Holding
BY DEF Init

LEMMA StepGivenBack ==
    ASSUME ~BusyReconfigure, TypeOK,
           \A r \in Requests : conn[r] # NoSlot => pc[r] \in Holding,
           [Next]_vars
    PROVE  \A r \in Requests : conn'[r] # NoSlot => pc'[r] \in Holding
<1> DEFINE GivenBack == \A r \in Requests : conn[r] # NoSlot => pc[r] \in Holding
<1>1. ASSUME NEW r \in Requests, NEW where, Goto(r, where),
             pc[r] \in Holding => where \in Holding
      PROVE  GivenBack'
  BY <1>1 DEF TypeOK, Goto
<1>2. ASSUME NEW r \in Requests, NEW replies, Return(r, replies)
      PROVE  GivenBack'
  BY <1>2 DEF TypeOK, Return
<1>3. ASSUME NEW r \in Requests, NEW c \in Slots, Take(r, c)
      PROVE  GivenBack'
  BY <1>3 DEF TypeOK, Take, Holding
<1>4. ASSUME NEW r \in Requests,
             Call(r) \/ Connect(r) \/ AuthWrite(r) \/ AuthWriteFails(r)
             \/ AuthRead(r) \/ AuthReadFails(r) \/ Write(r)
      PROVE  GivenBack'
  <2>1. \E where \in InFlight : Goto(r, where) /\ (pc[r] \in Holding => where \in Holding)
    BY <1>4 DEF Call, Connect, AuthWrite, AuthWriteFails, AuthRead,
                AuthReadFails, Write, InFlight, Holding
  <2> QED  BY <1>1, <2>1
<1>5. ASSUME NEW r \in Requests,
             NullConnection(r) \/ WriteFails(r) \/ Read(r) \/ ReadFails(r)
      PROVE  GivenBack'
  <2>1. \E replies : Return(r, replies)
    BY <1>5 DEF NullConnection, WriteFails, Read, ReadFails
  <2> QED  BY <1>2, <2>1
<1>6. CASE SetConfig
  BY <1>6 DEF SetConfig, TypeOK, InFlight, Holding
<1>7. CASE UNCHANGED callVars
  BY <1>7 DEF callVars
<1> QED
  BY <1>3, <1>4, <1>5, <1>6, <1>7
  DEF Next, Step, ConnectFails, Serve, PeerCloses, Returned, vars

\* The pool and the calls agree on who uses which connection, and no path out
\* of send() keeps one (client.cpp:51-64), as long as set_config is only called
\* while no call is in flight.
THEOREM PoolConsistent == ~BusyReconfigure => (Spec => []ConnectionExclusive)
<1> SUFFICES ASSUME ~BusyReconfigure
             PROVE  Spec => []ConnectionExclusive
  OBVIOUS
<1> DEFINE GivenBack == \A r \in Requests : conn[r] # NoSlot => pc[r] \in Holding
<1>1. Init => GivenBack
  BY InitGivenBack
<1>2. TypeOK /\ GivenBack /\ [Next]_vars => GivenBack'
  BY StepGivenBack
<1>3. Spec => []GivenBack
  <2> HIDE DEF GivenBack
  <2> QED  BY <1>1, <1>2, TypeCorrect, PTL DEF Spec
<1>4. TypeOK /\ HeldExclusively /\ GivenBack => ConnectionExclusive
  <2> SUFFICES ASSUME TypeOK, HeldExclusively, GivenBack
               PROVE  ConnectionExclusive
    OBVIOUS
  <2>1. \A r \in Requests : conn[r] # NoSlot <=> pc[r] \in Holding
    BY EnvironmentAssumption DEF HeldExclusively
  <2>2. \A c \in Slots : slot[c] = "busy" <=> \E r \in Requests : conn[r] = c
    BY <2>1, EnvironmentAssumption DEF HeldExclusively
  <2>3. \A r, s \in Requests : conn[r] = conn[s] /\ conn[r] # NoSlot => r = s
    BY <2>1 DEF HeldExclusively
  <2> QED  BY <2>1, <2>2, <2>3 DEF ConnectionExclusive
<1> QED  BY <1>3, <1>4, HeldInvariant, PTL

-----------------------------------------------------------------------------
(* Authentication comes first.                                             *)

LEMMA ReadNeedsStream ==
    ASSUME TypeOK, NEW c \in Slots, NEW read \in ReadsOf(c)
    PROVE  stream[c] # <<>>
<1>1. stream[c] \in Seq(Fragment) /\ Len(stream[c]) \in Nat
  BY LenProperties DEF TypeOK
<1>2. \E n \in 1..Len(stream[c]) : TRUE
  <2>1. Len(stream[c]) > 0 => Len(stream[c]) \in 1..Len(stream[c])
    BY <1>1
  <2> QED  BY <1>1, <2>1, EnvironmentAssumption DEF ReadsOf
<1>3. Len(stream[c]) # 0
  BY <1>1, <1>2
<1> QED  BY <1>3, EmptySeq

LEMMA InitDown == Init => DownIsEmpty
BY DEF Init, DownIsEmpty, Fresh

\* The steps of a call that change its link
LEMMA CallDown ==
    ASSUME TypeOK, HeldExclusively, DownIsEmpty,
           NEW r \in Requests, pc[r] \in Holding,
           \A d \in Slots \ {conn[r]} :
              /\ slot'[d] = slot[d] /\ link'[d] = link[d]
              /\ inbox'[d] = inbox[d] /\ stream'[d] = stream[d],
           slot'[conn[r]] # "absent",
           link'[conn[r]] = "down" =>
              inbox'[conn[r]] = <<>> /\ stream'[conn[r]] = <<>>
    PROVE  DownIsEmpty'
BY DEF DownIsEmpty, Fresh, HeldExclusively

LEMMA GotoOthers ==
    ASSUME TypeOK, HeldExclusively, NEW r \in Requests, pc[r] \in Holding,
           NEW where \in Holding, Goto(r, where)
    PROVE  /\ \A d \in Slots : slot'[d] = slot[d]
           /\ slot'[conn[r]] = "busy"
           /\ pc'[r] = where /\ conn' = conn
           /\ \A s \in Requests \ {r} : pc'[s] = pc[s] /\ conn'[s] = conn[s]
BY DEF TypeOK, HeldExclusively, Goto

LEMMA ReturnOthers ==
    ASSUME TypeOK, HeldExclusively, NEW r \in Requests, pc[r] \in Holding,
           NEW replies, Return(r, replies)
    PROVE  /\ \A d \in Slots \ {conn[r]} : slot'[d] = slot[d]
           /\ slot'[conn[r]] = "idle"
           /\ pc'[r] = "done"
           /\ \A s \in Requests \ {r} : pc'[s] = pc[s] /\ conn'[s] = conn[s]
BY DEF TypeOK, HeldExclusively, Return

LEMMA DropOthers ==
    ASSUME TypeOK, NEW c \in Slots, Drop(c)
    PROVE  /\ \A d \in Slots \ {c} :
                 /\ link'[d] = link[d] /\ trusted'[d] = trusted[d]
                 /\ inbox'[d] = inbox[d] /\ stream'[d] = stream[d]
           /\ link'[c] = "down" /\ inbox'[c] = <<>> /\ stream'[c] = <<>>
BY DEF TypeOK, Drop

LEMMA SendOthers ==
    ASSUME TypeOK, NEW c \in Slots, NEW commands \in Seq(Command),
           Send(c, commands)
    PROVE  /\ \A d \in Slots \ {c} :
                 /\ link'[d] = link[d] /\ trusted'[d] = trusted[d]
                 /\ inbox'[d] = inbox[d] /\ stream'[d] = stream[d]
           /\ link[c] # "down" /\ link'[c] = link[c]
           /\ trusted'[c] = trusted[c] /\ stream'[c] = stream[c]
           /\ inbox'[c] = inbox[c] \/ inbox'[c] = inbox[c] \o commands
BY DEF TypeOK, Send

LEMMA StepDown ==
    ASSUME TypeOK, HeldExclusively, DownIsEmpty, [Next]_vars
    PROVE  DownIsEmpty'
<1>1. ASSUME NEW r \in Requests, Call(r)
      PROVE  DownIsEmpty'
  BY <1>1 DEF Call, Goto, linkVars, DownIsEmpty, Fresh
<1>2. ASSUME NEW r \in Requests, NEW c \in Slots, Take(r, c)
      PROVE  DownIsEmpty'
  BY <1>2 DEF Take, linkVars, DownIsEmpty, Fresh, TypeOK
<1>3. ASSUME NEW r \in Requests, Connect(r)
      PROVE  DownIsEmpty'
  <2>1. pc[r] \in Holding /\ conn[r] \in Slots
    BY <1>3 DEF Connect, Holding, HeldExclusively
  <2>2. \E where \in Holding : Goto(r, where)
    BY <1>3 DEF Connect, Holding
  <2> QED  BY <1>3, <2>1, <2>2, GotoOthers, CallDown DEF Connect, TypeOK
<1>4. ASSUME NEW r \in Requests, ConnectFails(r)
      PROVE  DownIsEmpty'
  BY <1>4 DEF ConnectFails, linkVars, DownIsEmpty, Fresh
<1>5. ASSUME NEW r \in Requests, NullConnection(r)
      PROVE  DownIsEmpty'
  BY <1>5 DEF NullConnection, Return, linkVars, DownIsEmpty, Fresh, TypeOK
<1>6. ASSUME NEW r \in Requests, AuthWrite(r) \/ Write(r)
      PROVE  DownIsEmpty'
  <2>1. pc[r] \in Holding /\ conn[r] \in Slots
    BY <1>6 DEF AuthWrite, Write, Holding, HeldExclusively
  <2>2. \E where \in Holding : Goto(r, where)
    BY <1>6 DEF AuthWrite, Write, Holding
  <2>3. <<[call |-> AuthCall, n |-> 1]>> \in Seq(Command)
    BY DEF Command, Calls
  <2>4. PICK commands \in Seq(Command) : Send(conn[r], commands)
    BY <1>6, <2>3, CommandsType DEF AuthWrite, Write
  <2> QED  BY <2>1, <2>2, <2>4, GotoOthers, SendOthers, CallDown
<1>7. ASSUME NEW r \in Requests, AuthWriteFails(r) \/ AuthReadFails(r)
      PROVE  DownIsEmpty'
  <2>1. pc[r] \in Holding /\ conn[r] \in Slots
    BY <1>7 DEF AuthWriteFails, AuthReadFails, Holding, HeldExclusively
  <2>2. Goto(r, "connect") /\ "connect" \in Holding /\ Drop(conn[r])
    BY <1>7 DEF AuthWriteFails, AuthReadFails, Holding
  <2> QED  BY <2>1, <2>2, GotoOthers, DropOthers, CallDown
<1>8. ASSUME NEW r \in Requests, AuthRead(r)
      PROVE  DownIsEmpty'
  <2>1. pc[r] \in Holding /\ conn[r] \in Slots
    BY <1>8 DEF AuthRead, Holding, HeldExclusively
  <2>2. CASE Drop(conn[r]) /\ Goto(r, "connect")
    <3>1. "connect" \in Holding
      BY DEF Holding
    <3> QED  BY <2>1, <2>2, <3>1, GotoOthers, DropOthers, CallDown
  <2>3. CASE \E read \in ReadsOf(conn[r]) :
                /\ stream' = [stream EXCEPT ![conn[r]] = read.rest]
                /\ UNCHANGED <<link, trusted, inbox>>
                /\ Goto(r, "write")
    <3>1. "write" \in Holding
      BY DEF Holding
    <3>2. link[conn[r]] # "down"
      BY <2>1, <2>3, ReadNeedsStream DEF DownIsEmpty, Fresh
    <3> QED  BY <2>1, <2>3, <3>1, <3>2, GotoOthers, CallDown DEF TypeOK
  <2> QED  BY <1>8, <2>2, <2>3 DEF AuthRead
<1>9. ASSUME NEW r \in Requests, WriteFails(r) \/ ReadFails(r)
      PROVE  DownIsEmpty'
  <2>1. pc[r] \in Holding /\ conn[r] \in Slots
    BY <1>9 DEF WriteFails, ReadFails, Holding, HeldExclusively
  <2>2. Drop(conn[r]) /\ \E replies : Return(r, replies)
    BY <1>9 DEF WriteFails, ReadFails
  <2> QED  BY <2>1, <2>2, ReturnOthers, DropOthers, CallDown
<1>10. ASSUME NEW r \in Requests, Read(r)
       PROVE  DownIsEmpty'
  <2>1. pc[r] \in Holding /\ conn[r] \in Slots
    BY <1>10 DEF Read, Holding, HeldExclusively
  <2>2. PICK read \in ReadsOf(conn[r]) :
            /\ stream' = [stream EXCEPT ![conn[r]] = read.rest]
            /\ \E replies : Return(r, replies)
    BY <1>10 DEF Read
  <2>3. link[conn[r]] # "down"
    BY <2>1, <2>2, ReadNeedsStream DEF DownIsEmpty, Fresh
  <2>4. UNCHANGED <<link, inbox>>
    BY <1>10 DEF Read
  <2>5. /\ \A d \in Slots \ {conn[r]} : slot'[d] = slot[d]
        /\ slot'[conn[r]] # "absent"
    BY <2>1, <2>2, ReturnOthers
  <2>6. \A d \in Slots \ {conn[r]} : stream'[d] = stream[d]
    BY <2>2 DEF TypeOK
  <2> QED  BY <2>1, <2>3, <2>4, <2>5, <2>6, CallDown
<1>11. CASE SetConfig
  BY <1>11 DEF SetConfig, DownIsEmpty, Fresh
<1>12. ASSUME NEW c \in Slots, Serve(c)
       PROVE  DownIsEmpty'
  <2>1. link[c] = "up" /\ link' = link /\ slot' = slot
    BY <1>12 DEF Serve
  <2>2. \A d \in Slots \ {c} : inbox'[d] = inbox[d] /\ stream'[d] = stream[d]
    BY <1>12 DEF Serve, TypeOK
  <2> QED  BY <2>1, <2>2 DEF DownIsEmpty, Fresh
<1>13. ASSUME NEW c \in Slots, PeerCloses(c)
       PROVE  DownIsEmpty'
  <2>1. link[c] = "up" /\ link'[c] = "broken" /\ slot' = slot
    BY <1>13 DEF PeerCloses, TypeOK
  <2>2. \A d \in Slots \ {c} :
           /\ link'[d] = link[d]
           /\ inbox'[d] = inbox[d] /\ stream'[d] = stream[d]
    BY <1>13 DEF PeerCloses, TypeOK
  <2> QED  BY <2>1, <2>2 DEF DownIsEmpty, Fresh
<1>14. CASE Returned \/ UNCHANGED vars
  BY <1>14 DEF Returned, vars, linkVars, DownIsEmpty, Fresh
<1> QED
  BY <1>1, <1>2, <1>3, <1>4, <1>5, <1>6, <1>7, <1>8, <1>9, <1>10, <1>11,
     <1>12, <1>13, <1>14 DEF Next, Step

\* What the answer to AUTH becomes: a refusal is never taken for an acceptance,
\* also when the read gets only a part of it
LEMMA RefusalIsRefused ==
    ASSUME NEW buffer \in Seq(Fragment), Len(buffer) = 1,
           buffer[1].form # "tail", ~ buffer[1].ok,
           NEW replies \in Parsed(buffer)
    PROVE  Refused(replies)
<1> DEFINE whole == [i \in 1..1 |-> WholeReply(buffer[i])]
           but == [i \in 1..(1 - 1) |-> WholeReply(buffer[i])]
           short == ReplyTo(buffer[1], "eof")
           over == ReplyTo(buffer[1], "error")
<1>1. \/ replies = whole
      \/ replies = but \o <<short>>
      \/ replies = but \o <<over, Nil>>
  BY DEF Parsed, FromStart
<1>2. but \in Seq(Reply) /\ Len(but) = 0
  <2>1. but \in [1..0 -> Reply]
    OBVIOUS
  <2> HIDE DEF but
  <2> QED  BY <2>1, FunctionIsSeq
<1>3. /\ <<short>> \in Seq({short, over, Nil}) /\ Len(<<short>>) = 1
      /\ <<short>>[1] = short
      /\ <<over, Nil>> \in Seq({short, over, Nil}) /\ Len(<<over, Nil>>) = 2
      /\ <<over, Nil>>[1] = over
  <2> HIDE DEF short, over
  <2> QED  OBVIOUS
<1>4. but = <<>>
  BY <1>2, EmptySeq
<1>5. but \o <<short>> = <<short>> /\ but \o <<over, Nil>> = <<over, Nil>>
  <2> HIDE DEF short, over, but
  <2> QED  BY <1>3, <1>4, ConcatEmptySeq
<1>6. replies[1] \in {WholeReply(buffer[1]), short, over}
  <2>1. whole[1] = WholeReply(buffer[1])
    OBVIOUS
  <2> HIDE DEF short, over, but, whole
  <2>2. CASE replies = whole
    BY <2>1, <2>2
  <2>3. CASE replies = but \o <<short>>
    BY <1>3, <1>5, <2>3
  <2>4. CASE replies = but \o <<over, Nil>>
    BY <1>3, <1>5, <2>4
  <2> QED  BY <1>1, <2>2, <2>3, <2>4
<1>7. short.kind = "eof" /\ over.kind = "error"
  BY DEF ReplyTo
<1>8. WholeReply(buffer[1]).kind = "error"
  BY DEF WholeReply, ReplyTo
<1> QED  BY <1>6, <1>7, <1>8 DEF Refused, ErrorKind

LEMMA AnswerIsRead ==
    ASSUME TypeOK, NEW c \in Slots, Len(stream[c]) = 1,
           stream[c][1].form = "whole", NEW read \in ReadsOf(c)
    PROVE  /\ Len(read.buffer) = 1
           /\ read.buffer[1].form # "tail"
           /\ read.buffer[1].ok = stream[c][1].ok
<1> DEFINE wait == stream[c]
           Front(n) == SubSeq(wait, 1, n)
           Rest(n) == SubSeq(wait, n + 1, Len(wait))
           Cut(n) == [buffer |-> Append(Front(n - 1), Taken(wait[n])),
                      rest |-> <<Left(wait[n])>> \o Rest(n)]
           Replies(n) == [buffer |-> Front(n), rest |-> Rest(n)]
<1>1. wait \in Seq(Fragment) /\ wait[1] \in Fragment
  <2>1. wait \in Seq(Fragment) /\ 1 \in 1..Len(wait)
    BY DEF TypeOK
  <2> QED  BY <2>1, ElementOfSeq
<1>2. \E n \in 1..Len(wait) : read = Replies(n) \/ read = Cut(n)
  <2>1. Len(wait) > 0 => Len(wait) \in 1..Len(wait)
    OBVIOUS
  <2> QED  BY <2>1, EnvironmentAssumption DEF ReadsOf
<1>3. read = Replies(1) \/ read = Cut(1)
  BY <1>2
<1>4. Front(1) \in Seq(Fragment) /\ Len(Front(1)) = 1
  <2>1. 1 \in 0..Len(wait)
    OBVIOUS
  <2> QED  BY <1>1, <2>1, PiecesType
<1>5. Front(1)[1] = wait[1]
  BY <1>1, SubSeqProperties
<1>6. Front(0) \in Seq(Fragment) /\ Len(Front(0)) = 0
  <2>1. 0 \in 0..Len(wait)
    OBVIOUS
  <2> QED  BY <1>1, <2>1, PiecesType
<1>7. Taken(wait[1]) \in Fragment /\ Taken(wait[1]).form = "head"
      /\ Taken(wait[1]).ok = wait[1].ok
  BY <1>1 DEF Taken, Part, Fragment
<1>8. CASE read = Replies(1)
  BY <1>4, <1>5, <1>8
<1>9. CASE read = Cut(1)
  <2> DEFINE taken == Taken(wait[1])
  <2>1. read.buffer = Append(Front(0), taken)
    BY <1>9
  <2> HIDE DEF Front, taken
  <2>2. Len(read.buffer) = 1 /\ read.buffer[1] = taken
    BY <1>6, <1>7, <2>1, AppendProperties DEF taken
  <2> QED  BY <1>7, <2>2 DEF taken
<1> QED  BY <1>3, <1>8, <1>9

LEMMA InitAuth == Init => AuthProtocol
BY DEF Init, AuthProtocol, Holding

\* A step of one call, on the connection it has: what is left to show is that
\* the link is as the new await, or the pool, wants it
LEMMA CallAuth ==
    ASSUME TypeOK, HeldExclusively, AuthProtocol, config' = config,
           NEW r \in Requests, pc[r] \in Holding,
           \A d \in Slots \ {conn[r]} :
              /\ slot'[d] = slot[d] /\ link'[d] = link[d]
              /\ trusted'[d] = trusted[d]
              /\ inbox'[d] = inbox[d] /\ stream'[d] = stream[d],
           \A s \in Requests \ {r} : pc'[s] = pc[s] /\ conn'[s] = conn[s],
           config.password /\ pc'[r] \in Holding => Stage(r)',
           config.password
              /\ slot'[conn[r]] = "idle" /\ link'[conn[r]] # "down" =>
                 trusted'[conn[r]] /\ \A i \in DOMAIN inbox'[conn[r]] :
                                         inbox'[conn[r]][i].call # AuthCall
    PROVE  AuthProtocol'
<1> SUFFICES ASSUME config.password
             PROVE  AuthProtocol'
  BY DEF AuthProtocol
<1>1. \A s \in Requests \ {r} : pc'[s] \in Holding =>
         /\ Stage(s) /\ conn[s] \in Slots \ {conn[r]}
         /\ pc'[s] = pc[s] /\ conn'[s] = conn[s]
  BY DEF AuthProtocol, HeldExclusively
<1>2. ASSUME NEW s \in Requests \ {r}, pc'[s] \in Holding
      PROVE  Stage(s)'
  <2> DEFINE d == conn[s]
  <2>1. Stage(s) /\ d \in Slots \ {conn[r]} /\ conn'[s] = d /\ pc'[s] = pc[s]
    BY <1>1, <1>2
  <2>2. /\ link'[d] = link[d] /\ trusted'[d] = trusted[d]
        /\ inbox'[d] = inbox[d] /\ stream'[d] = stream[d]
    BY <2>1
  <2> QED  BY <2>1, <2>2 DEF Stage, Fresh, Authenticating, Authenticated
<1>3. \A s \in Requests : pc'[s] \in Holding => Stage(s)'
  BY <1>2
<1>4. \A c \in Slots : slot'[c] = "idle" /\ link'[c] # "down" => Authenticated(c)'
  BY DEF AuthProtocol, Authenticated
<1> QED  BY <1>3, <1>4 DEF AuthProtocol

\* The commands of a call are not AUTH
LEMMA SendsNoAuth ==
    ASSUME NEW r \in Requests, NEW box \in Seq(Command),
           \A i \in DOMAIN box : box[i].call # AuthCall
    PROVE  \A i \in DOMAIN (box \o CommandsOf(r)) :
              (box \o CommandsOf(r))[i].call # AuthCall
<1> DEFINE sent == CommandsOf(r)
           both == box \o sent
<1>1. sent \in Seq(Command) /\ Len(sent) \in Nat /\ Len(box) \in Nat
  BY CommandsType, LenProperties
<1>2. \A i \in 1..Len(sent) : sent[i].call # AuthCall
  <2>1. DOMAIN sent = 1..Len(sent)
    BY <1>1, LenProperties
  <2>2. \A i \in DOMAIN sent : sent[i].call = r
    BY DEF CommandsOf
  <2> QED  BY <2>1, <2>2, RequestsAssumption
<1>3. DOMAIN box = 1..Len(box)
  BY LenProperties
<1> HIDE DEF sent
<1>4. /\ both \in Seq(Command)
      /\ Len(both) = Len(box) + Len(sent)
      /\ \A i \in 1..(Len(box) + Len(sent)) :
            both[i] = IF i <= Len(box) THEN box[i] ELSE sent[i - Len(box)]
  BY <1>1, ConcatProperties
<1>5. DOMAIN both = 1..(Len(box) + Len(sent))
  BY <1>4, LenProperties
<1>6. \A i \in 1..(Len(box) + Len(sent)) :
         \/ i <= Len(box) /\ i \in 1..Len(box)
         \/ i - Len(box) \in 1..Len(sent)
  BY <1>1
<1> QED  BY <1>2, <1>3, <1>4, <1>5, <1>6 DEF sent

LEMMA StepAuth ==
    ASSUME TypeOK, HeldExclusively, DownIsEmpty, AuthProtocol, [Next]_vars
    PROVE  AuthProtocol'
<1>1. ASSUME NEW r \in Requests, Call(r)
      PROVE  AuthProtocol'
  <2>1. \A s \in Requests : pc'[s] \in Holding => pc'[s] = pc[s]
    BY <1>1 DEF Call, Goto, TypeOK, Holding
  <2>2. UNCHANGED <<conn, slot, linkVars, config>>
    BY <1>1 DEF Call, Goto
  <2> QED  BY <2>1, <2>2 DEF linkVars, AuthProtocol, Stage, Fresh,
                             Authenticating, Authenticated
<1>2. ASSUME NEW r \in Requests, NEW c \in Slots, Take(r, c)
      PROVE  AuthProtocol'
  <2> SUFFICES ASSUME config.password
               PROVE  AuthProtocol'
    BY <1>2 DEF Take, AuthProtocol
  <2>1. UNCHANGED <<link, trusted, inbox, stream, config>>
    BY <1>2 DEF Take, linkVars
  <2>2. \A d \in Slots : slot'[d] = "idle" => slot[d] = "idle"
    BY <1>2 DEF Take, TypeOK
  <2>3. \A s \in Requests \ {r} : pc'[s] = pc[s] /\ conn'[s] = conn[s]
    BY <1>2 DEF Take, TypeOK
  <2>4. /\ conn'[r] = c
        /\ pc'[r] = IF link[c] = "down" THEN "connect" ELSE "write"
    BY <1>2 DEF Take, TypeOK
  <2>5. IF link[c] = "down" THEN Fresh(c) ELSE Authenticated(c)
    BY <1>2 DEF Take, Available, DownIsEmpty, Fresh, AuthProtocol
  <2>6. Stage(r)'
    BY <2>1, <2>4, <2>5 DEF Stage, Fresh, Authenticated
  <2>7. \A s \in Requests \ {r} : pc'[s] \in Holding => Stage(s)'
    BY <2>1, <2>3 DEF AuthProtocol, Stage, Fresh, Authenticating, Authenticated
  <2>8. \A d \in Slots :
           slot'[d] = "idle" /\ link'[d] # "down" => Authenticated(d)'
    BY <2>1, <2>2 DEF AuthProtocol, Authenticated
  <2> QED  BY <2>6, <2>7, <2>8 DEF AuthProtocol
<1>3. ASSUME NEW r \in Requests, Connect(r)
      PROVE  AuthProtocol'
  <2>1. pc[r] \in Holding /\ conn[r] \in Slots
    BY <1>3 DEF Connect, Holding, HeldExclusively
  <2>2. config' = config
    BY <1>3 DEF Connect
  <2>3. CASE config.password
    <3>1. Goto(r, "auth_write") /\ "auth_write" \in Holding
      BY <1>3, <2>3 DEF Connect, Holding
    <3>2. \A d \in Slots \ {conn[r]} :
             /\ link'[d] = link[d] /\ trusted'[d] = trusted[d]
             /\ inbox'[d] = inbox[d] /\ stream'[d] = stream[d]
      BY <1>3 DEF Connect, TypeOK
    <3>3. Stage(r)'
      <4>1. inbox[conn[r]] = <<>> /\ stream[conn[r]] = <<>>
        BY <1>3, <2>1, <2>3 DEF Connect, AuthProtocol, Stage, Fresh
      <4>2. pc'[r] = "auth_write" /\ conn' = conn
        BY <2>1, <3>1, GotoOthers
      <4> QED  BY <1>3, <4>1, <4>2 DEF Connect, Stage
    <3> QED  BY <2>1, <2>2, <3>1, <3>2, <3>3, GotoOthers, CallAuth
  <2> QED  BY <2>2, <2>3 DEF AuthProtocol
<1>4. ASSUME NEW r \in Requests, ConnectFails(r)
      PROVE  AuthProtocol'
  BY <1>4 DEF ConnectFails, callVars, linkVars, AuthProtocol, Stage, Fresh,
              Authenticating, Authenticated
<1>5. ASSUME NEW r \in Requests, NullConnection(r)
      PROVE  AuthProtocol'
  <2>1. UNCHANGED <<link, trusted, inbox, stream, config>>
    BY <1>5 DEF NullConnection, linkVars
  <2>2. PICK replies : Return(r, replies)
    BY <1>5 DEF NullConnection
  <2>3. CASE pc[r] = "connect"
    <3>1. pc[r] \in Holding
      BY <2>3 DEF Holding
    <3>2. pc'[r] \notin Holding
      BY <2>2, <3>1, ReturnOthers DEF Holding
    <3>3. config.password => link[conn[r]] = "down"
      BY <2>3, <3>1 DEF AuthProtocol, Stage, Fresh
    <3> QED  BY <2>1, <2>2, <3>1, <3>2, <3>3, ReturnOthers, CallAuth
  <2>4. CASE pc[r] = "acquire"
    <3>1. conn[r] \notin Slots
      BY <2>4, EnvironmentAssumption DEF HeldExclusively
    <3>2. slot' = slot
      BY <2>2, <3>1 DEF Return, TypeOK
    <3>3. \A s \in Requests : pc'[s] \in Holding =>
             pc'[s] = pc[s] /\ conn'[s] = conn[s]
      BY <2>2 DEF Return, TypeOK, Holding
    <3> QED  BY <2>1, <3>2, <3>3 DEF AuthProtocol, Stage, Fresh,
                                     Authenticating, Authenticated
  <2> QED  BY <1>5, <2>3, <2>4 DEF NullConnection
<1>6. ASSUME NEW r \in Requests, AuthWrite(r)
      PROVE  AuthProtocol'
  <2> DEFINE auth == [call |-> AuthCall, n |-> 1]
  <2>1. pc[r] \in Holding /\ conn[r] \in Slots
    BY <1>6 DEF AuthWrite, Holding, HeldExclusively
  <2>2. Goto(r, "auth_read") /\ "auth_read" \in Holding /\ config' = config
    BY <1>6 DEF AuthWrite, Holding
  <2>3. <<auth>> \in Seq(Command) /\ Send(conn[r], <<auth>>)
    BY <1>6 DEF Command, Calls, AuthWrite
  <2>4. config.password => Stage(r)'
    <3>1. config.password => inbox[conn[r]] = <<>> /\ stream[conn[r]] = <<>>
      BY <1>6, <2>1 DEF AuthWrite, AuthProtocol, Stage
    <3>2. <<>> \o <<auth>> = <<auth>>
      BY <2>3, ConcatEmptySeq
    <3>3. pc'[r] = "auth_read" /\ conn' = conn
      BY <2>1, <2>2, GotoOthers
    <3> HIDE DEF auth
    <3>4. config.password =>
             /\ stream'[conn[r]] = <<>>
             /\ inbox'[conn[r]] = <<>> \/ inbox'[conn[r]] = <<auth>>
      BY <2>1, <2>3, <3>1, <3>2, SendOthers
    <3> QED  BY <3>3, <3>4 DEF Stage, Authenticating, auth
  <2>5. \A d \in Slots \ {conn[r]} :
           /\ link'[d] = link[d] /\ trusted'[d] = trusted[d]
           /\ inbox'[d] = inbox[d] /\ stream'[d] = stream[d]
    BY <2>1, <2>3, SendOthers
  <2> HIDE DEF auth
  <2> QED  BY <2>1, <2>2, <2>4, <2>5, GotoOthers, CallAuth
<1>7. ASSUME NEW r \in Requests, NEW c, c = conn[r],
             pc[r] \in Holding, Drop(c), Goto(r, "connect"), config' = config
      PROVE  AuthProtocol'
  <2>1. c \in Slots /\ "connect" \in Holding
    BY <1>7 DEF HeldExclusively, Holding
  <2>2. pc'[r] = "connect" /\ conn'[r] = c
    BY <1>7, <2>1, GotoOthers
  <2>3. Fresh(c)'
    BY <1>7, <2>1, DropOthers DEF Fresh
  <2>4. Stage(r)'
    BY <2>2, <2>3 DEF Stage, Fresh
  <2> QED  BY <1>7, <2>1, <2>3, <2>4, GotoOthers, DropOthers, CallAuth
<1>8. ASSUME NEW r \in Requests, AuthWriteFails(r) \/ AuthReadFails(r)
      PROVE  AuthProtocol'
  BY <1>7, <1>8 DEF AuthWriteFails, AuthReadFails, Holding
<1>9. ASSUME NEW r \in Requests, AuthRead(r)
      PROVE  AuthProtocol'
  <2> DEFINE c == conn[r]
  <2>1. pc[r] \in Holding /\ c \in Slots /\ config' = config
    BY <1>9 DEF AuthRead, Holding, HeldExclusively
  <2> DEFINE Outcome(read, replies) ==
                IF Refused(replies)
                THEN Drop(c) /\ Goto(r, "connect")
                ELSE /\ stream' = [stream EXCEPT ![c] = read.rest]
                     /\ UNCHANGED <<link, trusted, inbox>>
                     /\ Goto(r, "write")
  <2>10. PICK read \in ReadsOf(c) :
            \E replies \in Parsed(read.buffer) : Outcome(read, replies)
    BY <1>9 DEF AuthRead
  <2>2. PICK replies \in Parsed(read.buffer) : Outcome(read, replies)
    BY <2>10
  <2>3. CASE Refused(replies)
    BY <1>7, <2>1, <2>2, <2>3
  <2>4. CASE ~ Refused(replies)
    <3>1. Goto(r, "write") /\ "write" \in Holding
      BY <2>2, <2>4 DEF Holding
    <3>2. /\ stream' = [stream EXCEPT ![c] = read.rest]
          /\ UNCHANGED <<link, trusted, inbox>>
      BY <2>2, <2>4
    <3>3. config.password => Authenticated(c)
      <4> SUFFICES ASSUME config.password
                   PROVE  Authenticated(c)
        OBVIOUS
      <4>1. Authenticating(c)
        BY <1>9, <2>1 DEF AuthRead, AuthProtocol, Stage
      <4>2. /\ inbox[c] = <<>> /\ Len(stream[c]) = 1
            /\ stream[c][1].form = "whole" /\ (stream[c][1].ok => trusted[c])
        BY <2>1, <4>1, ReadNeedsStream DEF Authenticating
      <4>3. /\ read.buffer \in Seq(Fragment) /\ Len(read.buffer) = 1
            /\ read.buffer[1].form # "tail"
            /\ read.buffer[1].ok = stream[c][1].ok
        BY <2>1, <4>2, ReadsType, AnswerIsRead
      <4>4. read.buffer[1].ok
        BY <2>4, <4>3, RefusalIsRefused
      <4> QED  BY <4>2, <4>3, <4>4 DEF Authenticated
    <3>4. pc'[r] = "write" /\ conn'[r] = c
      BY <2>1, <3>1, GotoOthers
    <3>5. config.password => Stage(r)'
      BY <3>2, <3>3, <3>4 DEF Stage, Authenticated
    <3>6. \A d \in Slots \ {c} : stream'[d] = stream[d]
      BY <3>2 DEF TypeOK
    <3> QED  BY <2>1, <3>1, <3>2, <3>5, <3>6, GotoOthers, CallAuth
  <2> QED  BY <2>3, <2>4
<1>10. ASSUME NEW r \in Requests, Write(r)
       PROVE  AuthProtocol'
  <2> DEFINE c == conn[r]
  <2>1. pc[r] \in Holding /\ c \in Slots /\ config' = config
    BY <1>10 DEF Write, Holding, HeldExclusively
  <2>2. Goto(r, "read") /\ "read" \in Holding
    BY <1>10 DEF Write, Holding
  <2>3. CommandsOf(r) \in Seq(Command) /\ Send(c, CommandsOf(r))
    BY <1>10, CommandsType DEF Write
  <2>4. config.password =>
           trusted'[c] /\ \A i \in DOMAIN inbox'[c] : inbox'[c][i].call # AuthCall
    <3>1. config.password => Authenticated(c)
      BY <1>10, <2>1 DEF Write, AuthProtocol, Stage
    <3>2. inbox[c] \in Seq(Command)
      BY <2>1 DEF TypeOK
    <3>3. config.password =>
             \A i \in DOMAIN (inbox[c] \o CommandsOf(r)) :
                (inbox[c] \o CommandsOf(r))[i].call # AuthCall
      BY <3>1, <3>2, SendsNoAuth DEF Authenticated
    <3>4. /\ trusted'[c] = trusted[c]
          /\ inbox'[c] = inbox[c] \/ inbox'[c] = inbox[c] \o CommandsOf(r)
      BY <2>1, <2>3, SendOthers
    <3> QED  BY <3>1, <3>3, <3>4 DEF Authenticated
  <2>5. config.password => Stage(r)'
    <3>1. pc'[r] = "read" /\ conn'[r] = c
      BY <2>1, <2>2, GotoOthers
    <3> QED  BY <2>4, <3>1 DEF Stage, Authenticated
  <2> QED  BY <2>1, <2>2, <2>3, <2>5, GotoOthers, SendOthers, CallAuth
<1>11. ASSUME NEW r \in Requests, WriteFails(r) \/ ReadFails(r)
       PROVE  AuthProtocol'
  <2>1. pc[r] \in Holding /\ conn[r] \in Slots /\ config' = config
    BY <1>11 DEF WriteFails, ReadFails, Holding, HeldExclusively
  <2>2. PICK replies : Drop(conn[r]) /\ Return(r, replies)
    BY <1>11 DEF WriteFails, ReadFails
  <2>3. pc'[r] \notin Holding
    BY <2>1, <2>2, ReturnOthers DEF Holding
  <2> QED  BY <2>1, <2>2, <2>3, ReturnOthers, DropOthers, CallAuth
<1>12. ASSUME NEW r \in Requests, Read(r)
       PROVE  AuthProtocol'
  <2> DEFINE c == conn[r]
  <2>1. pc[r] \in Holding /\ c \in Slots /\ config' = config
    BY <1>12 DEF Read, Holding, HeldExclusively
  <2>2. PICK replies : Return(r, replies)
    BY <1>12 DEF Read
  <2>3. UNCHANGED <<link, trusted, inbox>>
    BY <1>12 DEF Read
  <2>4. \A d \in Slots \ {c} : stream'[d] = stream[d]
    BY <1>12 DEF Read, TypeOK
  <2>5. pc'[r] \notin Holding
    BY <2>1, <2>2, ReturnOthers DEF Holding
  <2>6. config.password => Authenticated(c)
    BY <1>12, <2>1 DEF Read, AuthProtocol, Stage
  <2> QED  BY <2>1, <2>2, <2>3, <2>4, <2>5, <2>6, ReturnOthers, CallAuth
           DEF Authenticated
<1>13. CASE SetConfig
  BY <1>13 DEF SetConfig, TypeOK, AuthProtocol, InFlight, Holding
<1>14. ASSUME NEW c \in Slots,
              link[c] = "up", UNCHANGED <<callVars, slot, config>>,
              \A d \in Slots \ {c} :
                 /\ link'[d] = link[d] /\ trusted'[d] = trusted[d]
                 /\ inbox'[d] = inbox[d] /\ stream'[d] = stream[d],
              config.password /\ Authenticated(c) => Authenticated(c)',
              config.password /\ Authenticating(c) => Authenticating(c)',
              inbox[c] = <<>> /\ stream[c] = <<>> =>
                 inbox'[c] = <<>> /\ stream'[c] = <<>>
       PROVE  AuthProtocol'
  <2> SUFFICES ASSUME config.password
               PROVE  AuthProtocol'
    BY <1>14 DEF AuthProtocol
  <2>1. \A d \in Slots : slot'[d] = "idle" /\ link'[d] # "down" =>
           Authenticated(d)'
    BY <1>14 DEF AuthProtocol, Authenticated
  <2>2. ASSUME NEW s \in Requests, pc'[s] \in Holding
        PROVE  Stage(s)'
    <3>1. /\ pc'[s] = pc[s] /\ conn'[s] = conn[s]
          /\ Stage(s) /\ conn[s] \in Slots
      BY <1>14, <2>2 DEF callVars, AuthProtocol, HeldExclusively
    <3>2. CASE conn[s] = c
      BY <1>14, <3>1, <3>2 DEF Stage, Fresh, Authenticating, Authenticated
    <3>3. CASE conn[s] # c
      <4> DEFINE d == conn[s]
      <4>1. /\ link'[d] = link[d] /\ trusted'[d] = trusted[d]
            /\ inbox'[d] = inbox[d] /\ stream'[d] = stream[d]
        BY <1>14, <3>1, <3>3
      <4> QED  BY <3>1, <4>1 DEF Stage, Fresh, Authenticating, Authenticated
    <3> QED  BY <3>2, <3>3
  <2> QED  BY <2>1, <2>2 DEF AuthProtocol
<1>15. ASSUME NEW c \in Slots, Serve(c)
       PROVE  AuthProtocol'
  <2> DEFINE command == Head(inbox[c])
  <2>1. /\ inbox[c] \in Seq(Command) /\ inbox[c] # <<>>
        /\ inbox'[c] = Tail(inbox[c]) /\ link[c] = "up"
        /\ UNCHANGED <<callVars, slot, link, config>>
    BY <1>15 DEF Serve, TypeOK
  <2>2. \A d \in Slots \ {c} :
           /\ trusted'[d] = trusted[d]
           /\ inbox'[d] = inbox[d] /\ stream'[d] = stream[d]
    BY <1>15 DEF Serve, TypeOK
  <2>3. command.call # AuthCall => trusted'[c] = trusted[c]
    BY <1>15 DEF Serve
  <2>4. Authenticated(c) => Authenticated(c)'
    <3> SUFFICES ASSUME Authenticated(c)
                 PROVE  Authenticated(c)'
      OBVIOUS
    <3>1. /\ Len(inbox[c]) \in Nat /\ DOMAIN inbox[c] = 1..Len(inbox[c])
          /\ Len(inbox[c]) # 0
      BY <2>1, LenProperties, EmptySeq
    <3>2. command.call # AuthCall
      BY <2>1, <3>1 DEF Authenticated
    <3>3. \A i \in DOMAIN Tail(inbox[c]) : Tail(inbox[c])[i].call # AuthCall
      <4>1. /\ Tail(inbox[c]) \in Seq(Command)
            /\ Len(Tail(inbox[c])) = Len(inbox[c]) - 1
            /\ \A i \in 1..Len(Tail(inbox[c])) : Tail(inbox[c])[i] = inbox[c][i + 1]
        BY <2>1, HeadTailProperties
      <4>2. DOMAIN Tail(inbox[c]) = 1..(Len(inbox[c]) - 1)
        BY <4>1, LenProperties
      <4> QED  BY <3>1, <4>1, <4>2 DEF Authenticated
    <3> QED  BY <2>1, <2>3, <3>2, <3>3 DEF Authenticated
  <2>5. Authenticating(c) => Authenticating(c)'
    <3> SUFFICES ASSUME Authenticating(c)
                 PROVE  Authenticating(c)'
      OBVIOUS
    <3> DEFINE auth == [call |-> AuthCall, n |-> 1]
    <3>1. inbox[c] = <<auth>> /\ stream[c] = <<>>
      BY <2>1 DEF Authenticating
    <3>2. command = auth /\ inbox'[c] = <<>>
      BY <2>1, <3>1
    <3>3. PICK ok \in BOOLEAN :
             /\ stream' = [stream EXCEPT ![c] = Append(@,
                   [call |-> command.call, n |-> command.n,
                    form |-> "whole", ok |-> ok])]
             /\ command.call = AuthCall =>
                   trusted' = [trusted EXCEPT ![c] = ok]
      BY <1>15 DEF Serve
    <3> DEFINE answer == [call |-> command.call, n |-> command.n,
                          form |-> "whole", ok |-> ok]
    <3>4. stream'[c] = Append(<<>>, answer)
      BY <3>1, <3>3 DEF TypeOK
    <3>5. stream'[c] = <<answer>>
      <4> HIDE DEF answer
      <4> QED  BY <3>4
    <3>6. Len(stream'[c]) = 1 /\ stream'[c][1] = answer
      <4> HIDE DEF answer
      <4> QED  BY <3>5
    <3>7. trusted'[c] = ok
      BY <3>2, <3>3 DEF TypeOK
    <3> QED  BY <3>2, <3>6, <3>7 DEF Authenticating
  <2> QED  BY <1>14, <2>1, <2>2, <2>4, <2>5
<1>16. ASSUME NEW c \in Slots, PeerCloses(c)
       PROVE  AuthProtocol'
  <2>1. /\ link[c] = "up" /\ inbox'[c] = <<>> /\ trusted' = trusted
        /\ UNCHANGED <<callVars, slot, config>>
    BY <1>16 DEF PeerCloses, TypeOK
  <2>2. \A d \in Slots \ {c} :
           /\ link'[d] = link[d]
           /\ inbox'[d] = inbox[d] /\ stream'[d] = stream[d]
    BY <1>16 DEF PeerCloses, TypeOK
  <2>3. PICK n \in 0..Len(stream[c]) : stream'[c] = SubSeq(stream[c], 1, n)
    BY <1>16 DEF PeerCloses, TypeOK
  <2>4. stream[c] \in Seq(Fragment) /\ Len(stream[c]) \in Nat
    BY LenProperties DEF TypeOK
  <2>5. n = 0 => stream'[c] = <<>>
    BY <2>3, SubSeqEmpty
  <2>6. stream[c] = <<>> => stream'[c] = <<>>
    BY <2>3, <2>4, <2>5, EmptySeq
  <2>7. Len(stream[c]) = 1 /\ n # 0 => stream'[c] = stream[c]
    BY <2>3, <2>4, SubSeqFull
  <2>8. Authenticated(c) => Authenticated(c)'
    <3>1. DOMAIN inbox'[c] = {}
      BY <2>1
    <3> QED  BY <2>1, <3>1 DEF Authenticated
  <2>9. Authenticating(c) => Authenticating(c)'
    BY <2>1, <2>5, <2>6, <2>7 DEF Authenticating
  <2> QED  BY <1>14, <2>1, <2>2, <2>6, <2>8, <2>9
<1>17. CASE Returned \/ UNCHANGED vars
  BY <1>17 DEF Returned, vars, callVars, linkVars, AuthProtocol, Stage, Fresh,
               Authenticating, Authenticated
<1> QED
  BY <1>1, <1>2, <1>3, <1>4, <1>5, <1>6, <1>8, <1>9, <1>10, <1>11,
     <1>12, <1>13, <1>15, <1>16, <1>17 DEF Next, Step

\* Authentication first (client.cpp:150-166 and 206-222): with a password, no
\* command of a caller is on a link before the server accepted AUTH there,
\* whatever part of the answer the reads return, however often connections
\* fail, and whatever set_config does to the calls in flight.
THEOREM AuthenticationFirst == Spec => []AuthBeforeCommand
<1> DEFINE Inv == TypeOK /\ HeldExclusively /\ DownIsEmpty /\ AuthProtocol
<1>1. Init => Inv
  BY InitType, InitHeld, InitDown, InitAuth
<1>2. Inv /\ [Next]_vars => Inv'
  BY StepType, StepHeld, StepDown, StepAuth
<1>3. Inv => AuthBeforeCommand
  <2> SUFFICES ASSUME Inv, config.password,
                      NEW c \in Slots, NEW i \in DOMAIN inbox[c],
                      inbox[c][i].call # AuthCall
               PROVE  trusted[c]
    BY DEF AuthBeforeCommand
  <2>1. inbox[c] # <<>>
    BY EmptySeq, LenProperties
  <2>2. link[c] # "down" /\ slot[c] # "absent"
    BY <2>1 DEF DownIsEmpty, Fresh
  <2>3. CASE slot[c] = "idle"
    BY <2>2, <2>3 DEF AuthProtocol, Authenticated
  <2>4. CASE slot[c] = "busy"
    <3>1. PICK r \in Requests : pc[r] \in Holding /\ conn[r] = c
      BY <2>4 DEF HeldExclusively
    <3>2. Stage(r)
      BY <3>1 DEF AuthProtocol
    <3>3. ~ Authenticating(c)
      <4>1. inbox[c] # <<[call |-> AuthCall, n |-> 1]>>
        <5> SUFFICES ASSUME inbox[c] = <<[call |-> AuthCall, n |-> 1]>>
                     PROVE  FALSE
          OBVIOUS
        <5>1. i \in DOMAIN <<[call |-> AuthCall, n |-> 1]>>
          OBVIOUS
        <5>2. i = 1
          BY <5>1
        <5> QED  BY <5>2
      <4> QED  BY <2>1, <4>1 DEF Authenticating
    <3>4. Authenticated(c)
      BY <2>1, <2>2, <3>1, <3>2, <3>3 DEF Stage, Fresh, Holding
    <3> QED  BY <3>4 DEF Authenticated
  <2> QED  BY <2>2, <2>3, <2>4 DEF TypeOK
<1> QED
  <2> HIDE DEF Inv
  <2> QED  BY <1>1, <1>2, <1>3, PTL DEF Spec
=============================================================================
