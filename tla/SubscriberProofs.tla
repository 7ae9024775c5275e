-------------------------- MODULE SubscriberProofs --------------------------
(***************************************************************************)
(* Theorems about Subscriber, for every value of its constants that meets  *)
(* SubscriberAssumption.                                                   *)
(***************************************************************************)
EXTENDS Subscriber, SequenceTheorems, TLAPS

-----------------------------------------------------------------------------
(* Sequences.                                                              *)

\* A read takes the first messages of the link and leaves the others
LEMMA PiecesOfSeq ==
    ASSUME NEW S, NEW s \in Seq(S), NEW n \in 0..Len(s)
    PROVE  /\ SubSeq(s, 1, n) \in Seq(S)
           /\ n > 0 => SubSeq(s, 1, n) # <<>>
           /\ SubSeq(s, n + 1, Len(s)) \in Seq(S)
<1>1. n \in Nat /\ Len(s) \in Nat /\ n <= Len(s)
  BY LenProperties
<1>2. /\ \A i \in 1..n : s[i] \in S
      /\ \A i \in (n + 1)..Len(s) : s[i] \in S
  BY <1>1, ElementOfSeq
<1>3. SubSeq(s, 1, n) \in Seq(S) /\ Len(SubSeq(s, 1, n)) = n
  BY <1>1, <1>2, SubSeqProperties
<1>4. SubSeq(s, n + 1, Len(s)) \in Seq(S)
  BY <1>1, <1>2, SubSeqProperties
<1>5. n > 0 => SubSeq(s, 1, n) # <<>>
  BY <1>1, <1>3, EmptySeq
<1> QED  BY <1>3, <1>4, <1>5

\* A sequence of more than one element has a second one
LEMMA TailOfSeq ==
    ASSUME NEW S, NEW s \in Seq(S), s # <<>>
    PROVE  /\ Head(s) \in S
           /\ Tail(s) \in Seq(S)
           /\ Len(Tail(s)) = Len(s) - 1
           /\ Len(s) # 1 => Tail(s) # <<>>
           /\ Len(s) \in Nat \ {0}
<1>1. Head(s) \in S /\ Tail(s) \in Seq(S) /\ Len(Tail(s)) = Len(s) - 1
  BY HeadTailProperties
<1>2. Len(s) \in Nat \ {0}
  BY EmptySeq
<1>3. Len(<<>>) = 0
  BY EmptySeq
<1>4. Len(s) # 1 => Tail(s) # <<>>
  <2> SUFFICES ASSUME Tail(s) = <<>>  PROVE Len(s) = 1
    OBVIOUS
  <2> QED  BY <1>1, <1>2, <1>3
<1> QED  BY <1>1, <1>2, <1>4

LEMMA ShortSeqs ==
    ASSUME NEW S
    PROVE  /\ <<>> \in Seq(S)
           /\ \A x \in S : <<x>> \in Seq(S)
OBVIOUS

-----------------------------------------------------------------------------
(* Where a step leaves a coroutine, and who it is that moves.              *)

Phases == Active \cup {"new", "write", "finished"}

LEMMA MoveTyped ==
    ASSUME TypeOK, NEW p \in Coroutines, NEW where \in Phases,
           pc' = [pc EXCEPT ![p] = where]
    PROVE  /\ pc' \in [Coroutines -> Phases]
           /\ pc'[p] = where
           /\ \A q \in Coroutines \ {p} : pc'[q] = pc[q]
BY DEF TypeOK, Phases

\* What get() leads to
LEMMA GetMoves ==
    ASSUME TypeOK, NEW p \in Coroutines, GetConnection(p)
    PROVE  /\ pc' \in [Coroutines -> Phases]
           /\ \/ pc'[p] = UseOf(p) /\ connecting' = connecting
              \/ pc'[p] = "wait" /\ connecting /\ connecting'
              \/ pc'[p] = "connect" /\ ~ connecting /\ connecting'
           /\ \A q \in Coroutines \ {p} : pc'[q] = pc[q]
           /\ connecting' \in BOOLEAN
<1>1. UseOf(p) \in Phases /\ "wait" \in Phases /\ "connect" \in Phases
  BY DEF UseOf, Phases, Active, Connecting
<1>2. PICK where \in Phases : pc' = [pc EXCEPT ![p] = where]
  BY <1>1 DEF GetConnection
<1>3. pc' \in [Coroutines -> Phases] /\ \A q \in Coroutines \ {p} : pc'[q] = pc[q]
  BY <1>2, MoveTyped
<1>4. pc'[p] = IF Connected' THEN UseOf(p) ELSE IF connecting THEN "wait" ELSE "connect"
  BY DEF GetConnection, TypeOK
<1>5. connecting' = (connecting \/ ~ Connected') /\ connecting \in BOOLEAN
  BY DEF GetConnection, TypeOK
<1> HIDE DEF Connected
<1> QED  BY <1>3, <1>4, <1>5

LEMMA LeaveMoves ==
    ASSUME TypeOK, NEW p \in Coroutines, LeaveConnect(p)
    PROVE  /\ pc' \in [Coroutines -> Phases]
           /\ pc'[p] = UseOf(p) /\ connecting' = FALSE
           /\ \A q \in Coroutines \ {p} : pc'[q] = pc[q]
<1>1. UseOf(p) \in Phases
  BY DEF UseOf, Phases, Active
<1> QED  BY <1>1, MoveTyped DEF LeaveConnect

LEMMA FinishMoves ==
    ASSUME TypeOK, NEW p \in Coroutines, Finish(p)
    PROVE  /\ pc' \in [Coroutines -> Phases]
           /\ pc'[p] = "finished" /\ connecting' = connecting /\ latch' = 0
           /\ \A q \in Coroutines \ {p} : pc'[q] = pc[q]
BY MoveTyped DEF Finish, Phases

\* The reader goes on, or ends because stop() was called
LEMMA ContinueMoves ==
    ASSUME TypeOK, NEW r \in Readers, Continue(r)
    PROVE  /\ pc' \in [Coroutines -> Phases]
           /\ connecting' \in BOOLEAN
           /\ latch' \in {0, 1}
           /\ pc'[r] \in {"read", "wait", "connect", "finished"}
           /\ \A q \in Coroutines \ {r} : pc'[q] = pc[q]
<1>1. r \in Coroutines
  BY DEF Coroutines
<1>2. CASE read_messages
  BY <1>1, <1>2, GetMoves DEF Continue, UseOf, TypeOK
<1>3. CASE ~ read_messages
  BY <1>1, <1>3, FinishMoves DEF Continue, TypeOK
<1> QED  BY <1>2, <1>3

-----------------------------------------------------------------------------
(* Type correctness.                                                       *)

LEMMA InitTyped == Init => TypeOK /\ HasUnsent
<1> SUFFICES ASSUME Init
             PROVE  TypeOK /\ HasUnsent
  OBVIOUS
<1>1. pc \in [Coroutines -> Active \cup {"new", "write", "finished"}]
  BY DEF Init
<1>2. /\ batch \in [Readers -> Seq(Message)]
      /\ taken \in [Consumers -> {"new", "waiting", "message", "error"}]
  BY ShortSeqs DEF Init
<1>3. /\ inbox \in Seq(Senders \cup {Nobody}) /\ stream \in Seq(Message)
      /\ queue \in Seq(Message) /\ delivered \in Seq(Message)
  BY ShortSeqs DEF Init
<1>4. Len(queue) <= Capacity
  BY SubscriberAssumption DEF Init
<1>5. stops \in 0..MaxStops /\ pushes \in 0..MaxPushes /\ faults \in 0..MaxFaults
  BY SubscriberAssumption DEF Init
<1>6. HasUnsent
  BY DEF Init, HasUnsent, Sending, Coroutines
<1>7. stopped \in 0..stops
  BY DEF Init
<1> QED  BY <1>1, <1>2, <1>3, <1>4, <1>5, <1>6, <1>7 DEF Init, TypeOK

\* The link after it was dropped
LEMMA DropTyped ==
    ASSUME TypeOK, Drop
    PROVE  /\ link' \in {"down", "up", "broken"} /\ trusted' \in BOOLEAN
           /\ inbox' \in Seq(Senders \cup {Nobody}) /\ stream' \in Seq(Message)
           /\ subscribed' \subseteq Subscription
BY ShortSeqs DEF Drop

LEMMA FaultTyped ==
    ASSUME TypeOK, Fault
    PROVE  faults' \in 0..MaxFaults
BY SubscriberAssumption DEF TypeOK, Fault

\* The steps of async_connect
LEMMA ConnectTyped ==
    ASSUME TypeOK, HasUnsent, NEW p \in Coroutines, Step(p)
    PROVE  TypeOK' /\ HasUnsent'
<1> USE DEF linkVars, channelVars, counterVars, stopVars
<1>0. "backoff" \in Phases /\ "reconnect" \in Phases
  BY DEF Phases, Active, Connecting
<1>a. ASSUME \A q \in Coroutines : pc'[q] \in {"publish", "blocked"} => pc'[q] = pc[q],
             UNCHANGED batch
      PROVE  HasUnsent'
  BY <1>a DEF HasUnsent, Sending, Coroutines
<1>b. ASSUME (pc' = [pc EXCEPT ![p] = "backoff"] /\ UNCHANGED connecting) \/ LeaveConnect(p),
             UNCHANGED batch
      PROVE  /\ pc' \in [Coroutines -> Phases]
             /\ connecting' \in BOOLEAN
             /\ HasUnsent'
  <2>1. /\ pc' \in [Coroutines -> Phases]
        /\ pc'[p] \in {"backoff", "read", "write"}
        /\ \A q \in Coroutines \ {p} : pc'[q] = pc[q]
    BY <1>0, <1>b, MoveTyped, LeaveMoves DEF UseOf
  <2>2. connecting' \in BOOLEAN
    BY <1>b, LeaveMoves DEF TypeOK
  <2> QED  BY <1>a, <1>b, <2>1, <2>2
<1>1. CASE Connect(p)
  <2>1. inbox' \in Seq(Senders \cup {Nobody})
    BY <1>1, ShortSeqs DEF Connect
  <2>2. pc' \in [Coroutines -> Phases]
    BY <1>1 DEF Connect, UseOf, Phases, Active, Connecting, Authenticating, TypeOK
  <2>3. \A q \in Coroutines : pc'[q] \in {"publish", "blocked"} => pc'[q] = pc[q]
    BY <1>1 DEF Connect, UseOf
  <2>4. connecting' \in BOOLEAN /\ cancelled' \subseteq Coroutines /\ link' = "up"
    BY <1>1, SubscriberAssumption DEF Connect, TypeOK
  <2> QED  BY <1>1, <1>a, <2>1, <2>2, <2>3, <2>4 DEF Connect, Phases, TypeOK
<1>2. CASE ConnectFails(p)
  <2>1. pc' \in [Coroutines -> Phases] /\ connecting' \in BOOLEAN /\ HasUnsent'
    BY <1>2, <1>b DEF ConnectFails
  <2>2. faults' \in 0..MaxFaults
    BY <1>2, FaultTyped DEF ConnectFails
  <2> QED  BY <1>2, <2>1, <2>2 DEF ConnectFails, Phases, TypeOK
<1>3. CASE ConnectAborted(p)
  <2>1. pc' \in [Coroutines -> Phases] /\ connecting' \in BOOLEAN /\ HasUnsent'
    BY <1>3, <1>b DEF ConnectAborted
  <2> QED  BY <1>3, <2>1 DEF ConnectAborted, Phases, TypeOK
<1>4. CASE BackOff(p)
  <2>1. /\ pc' \in [Coroutines -> Phases] /\ pc'[p] = "reconnect"
        /\ \A q \in Coroutines \ {p} : pc'[q] = pc[q]
    BY <1>0, <1>4, MoveTyped DEF BackOff
  <2>2. HasUnsent'
    BY <1>4, <1>a, <2>1 DEF BackOff
  <2> QED  BY <1>4, <2>1, <2>2 DEF BackOff, Phases, TypeOK
<1>5. CASE Auth(p)
  <2>1. PICK n \in 1..Len(stream) :
          /\ swallowed' = swallowed \cup
                {stream[i].of : i \in {j \in 1..n : stream[j].of \in Senders}}
          /\ \/ Drop /\ pc' = [pc EXCEPT ![p] = "backoff"] /\ UNCHANGED connecting
             \/ /\ stream' = SubSeq(stream, n + 1, Len(stream))
                /\ LeaveConnect(p)
                /\ UNCHANGED <<link, trusted, inbox, subscribed>>
    BY <1>5 DEF Auth
  <2>2. swallowed' \subseteq Senders
    BY <2>1 DEF TypeOK
  <2>3. SubSeq(stream, n + 1, Len(stream)) \in Seq(Message)
    <3>1. n \in 0..Len(stream) /\ stream \in Seq(Message)
      BY LenProperties DEF TypeOK
    <3> QED  BY <3>1, PiecesOfSeq
  <2>4. pc' \in [Coroutines -> Phases] /\ connecting' \in BOOLEAN /\ HasUnsent'
    BY <1>5, <1>b, <2>1 DEF Auth
  <2>5. /\ link' \in {"down", "up", "broken"} /\ trusted' \in BOOLEAN
        /\ inbox' \in Seq(Senders \cup {Nobody}) /\ stream' \in Seq(Message)
        /\ subscribed' \subseteq Subscription
    BY <2>1, <2>3, DropTyped DEF TypeOK
  <2> QED  BY <1>5, <2>2, <2>4, <2>5 DEF Auth, Phases, TypeOK
<1>6. CASE AuthFails(p)
  <2>1. pc' \in [Coroutines -> Phases] /\ connecting' \in BOOLEAN /\ HasUnsent'
    BY <1>6, <1>b DEF AuthFails
  <2>2. Drop
    BY <1>6 DEF AuthFails
  <2> QED  BY <1>6, <2>1, <2>2, DropTyped DEF AuthFails, Phases, TypeOK
<1> QED  BY <1>1, <1>2, <1>3, <1>4, <1>5, <1>6 DEF Step

\* The commands of the callers
LEMMA SenderTyped ==
    ASSUME TypeOK, HasUnsent, NEW s \in Senders, Send(s) \/ Write(s)
    PROVE  TypeOK' /\ HasUnsent'
<1> USE DEF linkVars, channelVars, counterVars, stopVars
<1>0. s \in Coroutines /\ s \notin Readers /\ "finished" \in Phases
  BY SubscriberAssumption DEF Coroutines, Phases
<1>1. CASE Send(s)
  <2>1. GetConnection(s) \/ (pc' = [pc EXCEPT ![s] = "finished"] /\ UNCHANGED connecting)
    BY <1>1 DEF Send
  <2>2. /\ pc' \in [Coroutines -> Phases]
        /\ \A q \in Coroutines \ {s} : pc'[q] = pc[q]
        /\ connecting' \in BOOLEAN
    BY <1>0, <2>1, GetMoves, MoveTyped DEF TypeOK
  <2>3. HasUnsent'
    BY <1>0, <1>1, <2>2 DEF Send, HasUnsent, Sending, Coroutines
  <2> QED  BY <1>1, <2>2, <2>3 DEF Send, Phases, TypeOK
<1>2. CASE Write(s)
  <2>1. /\ pc' \in [Coroutines -> Phases]
        /\ \A q \in Coroutines \ {s} : pc'[q] = pc[q]
    BY <1>0, <1>2, MoveTyped DEF Write
  <2>2. Append(inbox, s) \in Seq(Senders \cup {Nobody})
    BY AppendProperties DEF TypeOK
  <2>3. /\ link' \in {"down", "up", "broken"} /\ trusted' \in BOOLEAN
        /\ inbox' \in Seq(Senders \cup {Nobody}) /\ stream' \in Seq(Message)
        /\ subscribed' \subseteq Subscription
    <3>1. CASE link = "up" /\ inbox' = Append(inbox, s)
               /\ UNCHANGED <<link, trusted, stream, subscribed>>
      BY <2>2, <3>1 DEF TypeOK
    <3>2. CASE UNCHANGED linkVars
      BY <3>2 DEF TypeOK
    <3>3. CASE Drop
      BY <3>3, DropTyped
    <3> QED  BY <1>2, <3>1, <3>2, <3>3 DEF Write
  <2>4. HasUnsent'
    BY <1>0, <1>2, <2>1 DEF Write, HasUnsent, Sending, Coroutines
  <2> QED  BY <1>2, <2>1, <2>3, <2>4 DEF Write, Phases, TypeOK
<1> QED  BY <1>1, <1>2

\* The reader, up to what it sends to the channel
LEMMA ReaderTyped ==
    ASSUME TypeOK, HasUnsent, NEW r \in Readers,
           Start(r) \/ Loop(r) \/ Read(r) \/ ReadAborted(r) \/ ReadFails(r)
    PROVE  TypeOK' /\ HasUnsent'
<1> USE DEF linkVars, channelVars, counterVars, stopVars
<1>0. r \in Coroutines /\ "loop" \in Phases /\ "publish" \in Phases
  BY DEF Coroutines, Phases, Active
<1>a. ASSUME \A q \in Coroutines \ {r} : pc'[q] = pc[q],
             pc'[r] \in {"read", "wait", "connect", "finished", "loop"},
             UNCHANGED batch
      PROVE  HasUnsent'
  BY <1>a DEF HasUnsent, Sending, Coroutines
<1>1. CASE Start(r)
  <2>1. /\ pc' \in [Coroutines -> Phases] /\ pc'[r] = "loop"
        /\ \A q \in Coroutines \ {r} : pc'[q] = pc[q]
    BY <1>0, <1>1, MoveTyped DEF Start
  <2>2. HasUnsent'
    BY <1>1, <1>a, <2>1 DEF Start
  <2>3. revived' \subseteq Readers
    BY <1>1 DEF Start, ActiveReaders, TypeOK
  <2> QED  BY <1>1, <2>1, <2>2, <2>3 DEF Start, Phases, TypeOK
<1>2. CASE Loop(r)
  <2>1. /\ pc' \in [Coroutines -> Phases] /\ HasUnsent'
        /\ connecting' \in BOOLEAN /\ latch' \in {0, 1}
    BY <1>2, <1>a, ContinueMoves DEF Loop
  <2> QED  BY <1>2, <2>1 DEF Loop, Phases, TypeOK
<1>3. CASE Read(r)
  <2>1. PICK n \in 1..Len(stream) :
          /\ batch' = [batch EXCEPT ![r] = SubSeq(stream, 1, n)]
          /\ stream' = SubSeq(stream, n + 1, Len(stream))
    BY <1>3 DEF Read
  <2>2. /\ SubSeq(stream, 1, n) \in Seq(Message) /\ SubSeq(stream, 1, n) # <<>>
        /\ stream' \in Seq(Message)
    <3>1. n \in 0..Len(stream) /\ n > 0 /\ stream \in Seq(Message)
      BY LenProperties DEF TypeOK
    <3> QED  BY <2>1, <3>1, PiecesOfSeq
  <2>3. /\ pc' \in [Coroutines -> Phases] /\ pc'[r] = "publish"
        /\ \A q \in Coroutines \ {r} : pc'[q] = pc[q]
    BY <1>0, <1>3, MoveTyped DEF Read
  <2>4. /\ batch' \in [Readers -> Seq(Message)] /\ batch'[r] # <<>>
        /\ \A q \in Readers \ {r} : batch'[q] = batch[q]
    BY <2>1, <2>2 DEF TypeOK
  <2>5. HasUnsent'
    BY <2>3, <2>4 DEF HasUnsent, Sending, Coroutines
  <2> QED  BY <1>3, <2>2, <2>3, <2>4, <2>5 DEF Read, Phases, TypeOK
<1>4. CASE ReadAborted(r)
  <2>1. /\ pc' \in [Coroutines -> Phases] /\ HasUnsent'
        /\ connecting' \in BOOLEAN /\ latch' \in {0, 1}
    BY <1>0, <1>4, <1>a, FinishMoves DEF ReadAborted, TypeOK
  <2> QED  BY <1>4, <2>1 DEF ReadAborted, Phases, TypeOK
<1>5. CASE ReadFails(r)
  <2>1. /\ pc' \in [Coroutines -> Phases] /\ HasUnsent'
        /\ connecting' \in BOOLEAN /\ latch' \in {0, 1}
    BY <1>5, <1>a, ContinueMoves DEF ReadFails
  <2>2. Drop
    BY <1>5 DEF ReadFails
  <2> QED  BY <1>5, <2>1, <2>2, DropTyped DEF ReadFails, Phases, TypeOK
<1> QED  BY <1>1, <1>2, <1>3, <1>4, <1>5

\* A message goes from the reader into the channel
LEMMA PublishTyped ==
    ASSUME TypeOK, HasUnsent, NEW r \in Readers, Publish(r)
    PROVE  TypeOK' /\ HasUnsent'
<1> USE DEF linkVars, channelVars, counterVars, stopVars
<1>0. r \in Coroutines /\ "blocked" \in Phases
  BY DEF Coroutines, Phases, Active
<1>1. batch[r] \in Seq(Message) /\ batch[r] # <<>>
  BY DEF Publish, TypeOK, HasUnsent, Sending
<1>2. CASE closed /\ Finish(r) /\ UNCHANGED <<batch, queue>>
  <2>1. /\ pc' \in [Coroutines -> Phases] /\ pc'[r] = "finished"
        /\ \A q \in Coroutines \ {r} : pc'[q] = pc[q]
        /\ connecting' \in BOOLEAN /\ latch' \in {0, 1}
    BY <1>0, <1>2, FinishMoves DEF TypeOK
  <2>2. HasUnsent'
    BY <1>2, <2>1 DEF HasUnsent, Sending, Coroutines
  <2> QED  BY <1>2, <2>1, <2>2 DEF Publish, Phases, TypeOK
<1>3. CASE /\ Len(queue) < Capacity
           /\ queue' = Append(queue, Head(batch[r]))
           /\ batch' = [batch EXCEPT ![r] = Tail(@)]
           /\ IF Len(batch[r]) = 1 THEN Continue(r)
              ELSE UNCHANGED <<pc, connecting, latch>>
  <2>1. queue' \in Seq(Message) /\ Len(queue') <= Capacity
    <3>1. Head(batch[r]) \in Message /\ queue \in Seq(Message)
      BY <1>1, TailOfSeq DEF TypeOK
    <3>2. Append(queue, Head(batch[r])) \in Seq(Message)
          /\ Len(Append(queue, Head(batch[r]))) = Len(queue) + 1
          /\ Len(queue) \in Nat
      BY <3>1, AppendProperties, LenProperties
    <3> QED  BY <1>3, <3>2, SubscriberAssumption
  <2>2. /\ batch' \in [Readers -> Seq(Message)]
        /\ Len(batch[r]) # 1 => batch'[r] # <<>>
        /\ \A q \in Readers \ {r} : batch'[q] = batch[q]
    BY <1>1, <1>3, TailOfSeq DEF TypeOK
  <2>3. CASE Len(batch[r]) = 1 /\ Continue(r)
    <3>1. /\ pc' \in [Coroutines -> Phases]
          /\ pc'[r] \in {"read", "wait", "connect", "finished"}
          /\ \A q \in Coroutines \ {r} : pc'[q] = pc[q]
          /\ connecting' \in BOOLEAN /\ latch' \in {0, 1}
      BY <2>3, ContinueMoves
    <3>2. HasUnsent'
      BY <2>2, <3>1 DEF HasUnsent, Sending, Coroutines
    <3> QED  BY <2>1, <2>2, <3>1, <3>2 DEF Publish, Phases, TypeOK
  <2>4. CASE Len(batch[r]) # 1 /\ UNCHANGED <<pc, connecting, latch>>
    <3>1. HasUnsent'
      BY <2>2, <2>4 DEF HasUnsent, Sending
    <3> QED  BY <2>1, <2>2, <2>4, <3>1 DEF Publish, TypeOK
  <2> QED  BY <1>3, <2>3, <2>4
<1>4. CASE /\ pc' = [pc EXCEPT ![r] = "blocked"]
           /\ UNCHANGED <<batch, queue, connecting, latch>>
  <2>1. /\ pc' \in [Coroutines -> Phases]
        /\ \A q \in Coroutines \ {r} : pc'[q] = pc[q]
    BY <1>0, <1>4, MoveTyped
  <2>2. HasUnsent'
    BY <1>1, <1>4, <2>1 DEF HasUnsent, Sending, Coroutines
  <2> QED  BY <1>4, <2>1, <2>2 DEF Publish, Phases, TypeOK
<1> QED  BY <1>2, <1>3, <1>4 DEF Publish

\* read(): a message leaves the channel, and a suspended send takes its place
LEMMA ConsumerTyped ==
    ASSUME TypeOK, HasUnsent, NEW k \in Consumers,
           Receive(k) \/ Received(k) \/ ReceiveFails(k)
    PROVE  TypeOK' /\ HasUnsent'
<1> USE DEF linkVars, channelVars, counterVars, stopVars
<1>1. CASE Receive(k) \/ ReceiveFails(k)
  <2>1. taken' \in [Consumers -> {"new", "waiting", "message", "error"}]
    BY <1>1 DEF Receive, ReceiveFails, TypeOK
  <2>2. HasUnsent'
    BY <1>1 DEF Receive, ReceiveFails, HasUnsent, Sending
  <2> QED  BY <1>1, <2>1, <2>2 DEF Receive, ReceiveFails, TypeOK
<1>2. CASE Received(k)
  <2>1. /\ Head(queue) \in Message /\ Tail(queue) \in Seq(Message)
        /\ Len(Tail(queue)) = Len(queue) - 1 /\ Len(queue) \in Nat
        /\ Len(queue) <= Capacity
    BY <1>2, TailOfSeq DEF Received, TypeOK
  <2>2. delivered' \in Seq(Message)
    BY <1>2, <2>1, AppendProperties DEF Received, TypeOK
  <2>3. taken' \in [Consumers -> {"new", "waiting", "message", "error"}]
    BY <1>2 DEF Received, TypeOK
  <2>4. CASE queue' = Tail(queue) /\ UNCHANGED <<batch, pc>>
    <3>1. queue' \in Seq(Message) /\ Len(queue') <= Capacity
      BY <2>1, <2>4, SubscriberAssumption
    <3>2. HasUnsent'
      BY <2>4 DEF HasUnsent, Sending
    <3> QED  BY <1>2, <2>2, <2>3, <2>4, <3>1, <3>2 DEF Received, TypeOK
  <2>5. ASSUME NEW r \in Readers, pc[r] = "blocked",
               queue' = Append(Tail(queue), Head(batch[r])),
               batch' = [batch EXCEPT ![r] = Tail(@)],
               pc' = [pc EXCEPT ![r] = IF Len(batch[r]) = 1 THEN "loop" ELSE "publish"]
        PROVE  TypeOK' /\ HasUnsent'
    <3>1. batch[r] \in Seq(Message) /\ batch[r] # <<>>
      BY <2>5 DEF TypeOK, HasUnsent, Sending
    <3>2. /\ Head(batch[r]) \in Message /\ Tail(batch[r]) \in Seq(Message)
          /\ Len(batch[r]) # 1 => Tail(batch[r]) # <<>>
      BY <3>1, TailOfSeq
    <3>3. queue' \in Seq(Message) /\ Len(queue') <= Capacity
      <4>1. /\ Append(Tail(queue), Head(batch[r])) \in Seq(Message)
            /\ Len(Append(Tail(queue), Head(batch[r]))) = Len(Tail(queue)) + 1
        BY <2>1, <3>2, AppendProperties
      <4> QED  BY <2>1, <2>5, <4>1, SubscriberAssumption
    <3>4. /\ batch' \in [Readers -> Seq(Message)]
          /\ Len(batch[r]) # 1 => batch'[r] # <<>>
          /\ \A q \in Readers \ {r} : batch'[q] = batch[q]
      BY <2>5, <3>2 DEF TypeOK
    <3>5. r \in Coroutines /\ "loop" \in Phases /\ "publish" \in Phases
      BY DEF Coroutines, Phases, Active
    <3>6. /\ pc' \in [Coroutines -> Phases]
          /\ pc'[r] = IF Len(batch[r]) = 1 THEN "loop" ELSE "publish"
          /\ \A q \in Coroutines \ {r} : pc'[q] = pc[q]
      BY <2>5, <3>5, MoveTyped
    <3>7. HasUnsent'
      BY <3>4, <3>6 DEF HasUnsent, Sending, Coroutines
    <3> QED  BY <1>2, <2>2, <2>3, <3>3, <3>4, <3>6, <3>7 DEF Received, Phases, TypeOK
  <2> QED  BY <1>2, <2>4, <2>5 DEF Received
<1> QED  BY <1>1, <1>2

\* stop(), and the links
LEMMA CancelTyped ==
    ASSUME TypeOK, Cancel
    PROVE  cancelled' \subseteq Coroutines
BY DEF Cancel, TypeOK

LEMMA StopTyped ==
    ASSUME TypeOK, HasUnsent, Stop \/ Stopped
    PROVE  TypeOK' /\ HasUnsent'
<1> USE DEF linkVars, channelVars, counterVars, stopVars
<1>1. HasUnsent'
  BY DEF Stop, Stopped, HasUnsent, Sending
<1>2. CASE Stop
  <2>1. stops' \in 0..MaxStops
    BY <1>2, SubscriberAssumption DEF Stop, MayStop, TypeOK
  <2>2. cancelled' \subseteq Coroutines
    BY <1>2, CancelTyped DEF Stop
  <2>3. stopped' \in 0..stops'
    BY <1>2, SubscriberAssumption DEF Stop, TypeOK
  <2> QED  BY <1>1, <1>2, <2>1, <2>2, <2>3 DEF Stop, TypeOK
<1>3. CASE Stopped
  <2>1. Drop
    BY <1>3 DEF Stopped
  <2>2. cancelled' \subseteq Coroutines
    BY <1>3, CancelTyped DEF Stopped
  <2>3. stopped' \in 0..stops'
    BY <1>3, SubscriberAssumption DEF Stopped, Stopping, TypeOK
  <2> QED  BY <1>1, <1>3, <2>1, <2>2, <2>3, DropTyped DEF Stopped, TypeOK
<1> QED  BY <1>2, <1>3

LEMMA ServeTyped ==
    ASSUME TypeOK, HasUnsent, Serve
    PROVE  TypeOK' /\ HasUnsent'
<1> DEFINE s == Head(inbox)
           Answer(kind) == [kind |-> kind, of |-> s]
<1> USE DEF linkVars, channelVars, counterVars, stopVars
<1>1. s \in Senders \cup {Nobody} /\ inbox' \in Seq(Senders \cup {Nobody})
  BY TailOfSeq DEF Serve, TypeOK
<1>2. ASSUME NEW kind \in {"auth", "denied", "reply"}
      PROVE  Append(stream, Answer(kind)) \in Seq(Message)
  <2>1. Answer(kind) \in Message
    BY <1>1 DEF Message
  <2> HIDE DEF Answer
  <2> QED  BY <2>1, AppendProperties DEF TypeOK
<1>3. \E kind \in {"auth", "denied", "reply"} : stream' = Append(stream, Answer(kind))
  BY DEF Serve
<1>4. stream' \in Seq(Message)
  BY <1>2, <1>3
<1>5. faults' \in 0..MaxFaults
  <2>1. Fault \/ UNCHANGED faults
    BY DEF Serve
  <2> QED  BY <2>1, FaultTyped DEF TypeOK
<1>6. trusted' \in BOOLEAN
  BY DEF Serve, TypeOK
<1>7. subscribed' \subseteq Subscription
  <2>1. subscribed' = subscribed \/ (s \in Senders /\ subscribed' = Subscribed(Command[s]))
    BY <1>1 DEF Serve
  <2>2. ASSUME s \in Senders
        PROVE  Subscribed(Command[s]) \subseteq Subscription
    <3> DEFINE call == Command[s]
    <3>1. call \in [verb : Verbs, topic : Topics]
      BY <2>2, SubscriberAssumption
    <3>2. call.verb \in Verbs /\ call.topic \in Topics
      BY <3>1
    <3> HIDE DEF call
    <3> QED  BY <3>2 DEF Subscribed, Verbs, Subscription, TypeOK, call
  <2> QED  BY <2>1, <2>2 DEF TypeOK
<1>8. HasUnsent'
  BY DEF Serve, HasUnsent, Sending
<1> HIDE DEF s
<1> QED  BY <1>1, <1>4, <1>5, <1>6, <1>7, <1>8 DEF Serve, TypeOK

LEMMA NetworkTyped ==
    ASSUME TypeOK, HasUnsent, Push \/ PeerCloses
    PROVE  TypeOK' /\ HasUnsent'
<1> USE DEF linkVars, channelVars, counterVars, stopVars
<1>1. HasUnsent'
  BY DEF Push, PeerCloses, HasUnsent, Sending
<1>2. CASE Push
  <2>1. PICK s \in subscribed : stream' = Append(stream, [kind |-> "push", of |-> s])
    BY <1>2 DEF Push
  <2>2. [kind |-> "push", of |-> s] \in Message
    BY DEF Message, TypeOK
  <2>3. stream' \in Seq(Message)
    <3> DEFINE message == [kind |-> "push", of |-> s]
    <3> HIDE DEF message
    <3>1. message \in Message /\ stream' = Append(stream, message)
      BY <2>1, <2>2 DEF message
    <3> QED  BY <3>1, AppendProperties DEF TypeOK
  <2>4. pushes' \in 0..MaxPushes
    BY <1>2, SubscriberAssumption DEF Push, TypeOK
  <2> QED  BY <1>1, <1>2, <2>3, <2>4 DEF Push, TypeOK
<1>3. CASE PeerCloses
  <2>1. stream' \in Seq(Message)
    BY <1>3, PiecesOfSeq DEF PeerCloses, TypeOK
  <2>2. faults' \in 0..MaxFaults
    BY <1>3, FaultTyped DEF PeerCloses
  <2>3. inbox' \in Seq(Senders \cup {Nobody}) /\ subscribed' \subseteq Subscription
        /\ link' \in {"down", "up", "broken"}
    BY <1>3, ShortSeqs DEF PeerCloses
  <2> QED  BY <1>1, <1>3, <2>1, <2>2, <2>3 DEF PeerCloses, TypeOK
<1> QED  BY <1>2, <1>3

LEMMA StepTyped ==
    ASSUME TypeOK, HasUnsent, [Next]_vars
    PROVE  TypeOK' /\ HasUnsent'
<1>1. CASE UNCHANGED vars
  <2> USE <1>1 DEF vars, stopVars, linkVars, channelVars, counterVars
  <2>1. HasUnsent'
    BY DEF HasUnsent, Sending
  <2> QED  BY <2>1 DEF TypeOK
<1>2. CASE Next
  BY <1>2, ConnectTyped, SenderTyped, ReaderTyped, PublishTyped, ConsumerTyped,
     StopTyped, ServeTyped, NetworkTyped
  DEF Next, ReaderStep, SenderStep, Coroutines
<1> QED  BY <1>1, <1>2

LEMMA TypedInvariant == Spec => [](TypeOK /\ HasUnsent)
<1>1. TypeOK /\ HasUnsent /\ [Next]_vars => TypeOK' /\ HasUnsent'
  BY StepTyped
<1> QED  BY <1>1, InitTyped, PTL DEF Spec

\* Type correctness of the subscriber (subscriber.cpp, subscriber_connection.cpp),
\* the bound of the channel included, in any order of its coroutines' steps.
THEOREM SubscriberTypeCorrect == Spec => []TypeOK
BY TypedInvariant, PTL

-----------------------------------------------------------------------------
(* One coroutine connects.                                                 *)

LEMMA InitConnects == Init => OneConnects
BY DEF Init, OneConnects, Connecting, Authenticating

\* A step of the coroutine that connects: it goes on connecting, or is done
LEMMA ConnectingStays ==
    ASSUME TypeOK, OneConnects, NEW p \in Coroutines, pc[p] \in Connecting,
           \A q \in Coroutines \ {p} : pc'[q] = pc[q] \/ pc'[q] \notin Connecting,
           connecting' <=> pc'[p] \in Connecting
    PROVE  OneConnects'
BY DEF OneConnects

\* A step of a coroutine that does not connect: it connects now only if nobody
\* else does
LEMMA OthersConnect ==
    ASSUME TypeOK, OneConnects, NEW p \in Coroutines, pc[p] \notin Connecting,
           \A q \in Coroutines \ {p} : pc'[q] = pc[q],
           \/ pc'[p] \notin Connecting /\ connecting' = connecting
           \/ pc'[p] \in Connecting /\ ~ connecting /\ connecting'
    PROVE  OneConnects'
BY DEF OneConnects

LEMMA GetConnects ==
    ASSUME TypeOK, OneConnects, NEW p \in Coroutines, pc[p] \notin Connecting,
           GetConnection(p)
    PROVE  OneConnects'
<1>1. UseOf(p) \notin Connecting /\ "wait" \notin Connecting /\ "connect" \in Connecting
  BY DEF UseOf, Connecting, Authenticating
<1>2. \/ pc'[p] \notin Connecting /\ connecting' = connecting
      \/ pc'[p] \in Connecting /\ ~ connecting /\ connecting'
  BY <1>1, GetMoves DEF TypeOK
<1>3. \A q \in Coroutines \ {p} : pc'[q] = pc[q]
  BY GetMoves
<1> QED  BY <1>2, <1>3, OthersConnect

LEMMA FinishConnects ==
    ASSUME TypeOK, OneConnects, NEW p \in Coroutines, pc[p] \notin Connecting,
           Finish(p)
    PROVE  OneConnects'
<1>1. pc'[p] \notin Connecting /\ connecting' = connecting
      /\ \A q \in Coroutines \ {p} : pc'[q] = pc[q]
  BY FinishMoves DEF Connecting, Authenticating
<1> QED  BY <1>1, OthersConnect

LEMMA StepConnects ==
    ASSUME TypeOK, OneConnects, [Next]_vars
    PROVE  OneConnects'
<1> USE DEF linkVars, channelVars, counterVars, stopVars
<1>0. /\ {"connect", "reconnect", "backoff", "auth", "reauth"} = Connecting
      /\ \A p : UseOf(p) \notin Connecting
  BY DEF Connecting, Authenticating, UseOf
<1>a. ASSUME UNCHANGED <<pc, connecting>>
      PROVE  OneConnects'
  BY <1>a DEF OneConnects
\* an action that takes p from one await to another, none of async_connect
<1>b. ASSUME NEW p \in Coroutines, NEW where \in Phases, pc[p] \notin Connecting,
             where \notin Connecting, pc' = [pc EXCEPT ![p] = where], UNCHANGED connecting
      PROVE  OneConnects'
  BY <1>b, MoveTyped, OthersConnect
\* one that stays in async_connect, or leaves it
<1>c. ASSUME NEW p \in Coroutines, pc[p] \in Connecting,
             \/ pc' = [pc EXCEPT ![p] = "backoff"] /\ UNCHANGED connecting
             \/ pc' = [pc EXCEPT ![p] = "reconnect"] /\ UNCHANGED connecting
             \/ LeaveConnect(p)
      PROVE  OneConnects'
  <2>1. "backoff" \in Phases /\ "reconnect" \in Phases /\ connecting
    BY <1>c DEF Phases, Active, Connecting, OneConnects
  <2>2. \A q \in Coroutines \ {p} : pc'[q] = pc[q]
    BY <1>c, <2>1, MoveTyped, LeaveMoves
  <2>3. connecting' <=> pc'[p] \in Connecting
    BY <1>0, <1>c, <2>1, MoveTyped, LeaveMoves DEF TypeOK
  <2> QED  BY <1>c, <2>2, <2>3, ConnectingStays
<1>1. ASSUME NEW p \in Coroutines, Connect(p)
      PROVE  OneConnects'
  <2>1. pc[p] \in Connecting
    BY <1>0, <1>1 DEF Connect
  <2>2. \A q \in Coroutines \ {p} : pc'[q] = pc[q] \/ pc'[q] \notin Connecting
    BY <1>0, <1>1 DEF Connect
  <2>3. pc'[p] \in Connecting <=> Password
    BY <1>0, <1>1 DEF Connect
  <2>4. connecting' <=> pc'[p] \in Connecting
    BY <1>1, <2>3 DEF Connect
  <2> QED  BY <2>1, <2>2, <2>4, ConnectingStays
<1>2. ASSUME NEW p \in Coroutines,
             ConnectFails(p) \/ ConnectAborted(p) \/ BackOff(p) \/ Auth(p) \/ AuthFails(p)
      PROVE  OneConnects'
  <2>1. pc[p] \in Connecting
    BY <1>2 DEF ConnectFails, ConnectAborted, BackOff, Auth, AuthFails,
                Connecting, Authenticating
  <2>2. \/ pc' = [pc EXCEPT ![p] = "backoff"] /\ UNCHANGED connecting
        \/ pc' = [pc EXCEPT ![p] = "reconnect"] /\ UNCHANGED connecting
        \/ LeaveConnect(p)
    BY <1>2 DEF ConnectFails, ConnectAborted, BackOff, Auth, AuthFails
  <2> QED  BY <1>c, <2>1, <2>2
<1>3. ASSUME NEW s \in Senders, Send(s) \/ Write(s)
      PROVE  OneConnects'
  <2>1. s \in Coroutines /\ pc[s] \notin Connecting
        /\ "finished" \in Phases /\ "finished" \notin Connecting
    BY <1>0, <1>3 DEF Send, Write, Coroutines, Phases
  <2>2. GetConnection(s) \/ (pc' = [pc EXCEPT ![s] = "finished"] /\ UNCHANGED connecting)
    BY <1>3 DEF Send, Write
  <2> QED  BY <1>b, <2>1, <2>2, GetConnects
<1>4. ASSUME NEW r \in Readers,
             Start(r) \/ Loop(r) \/ Read(r) \/ ReadAborted(r) \/ ReadFails(r) \/ Publish(r)
      PROVE  OneConnects'
  <2>1. r \in Coroutines /\ pc[r] \notin Connecting
    BY <1>0, <1>4 DEF Start, Loop, Read, ReadAborted, ReadFails, Publish, Coroutines
  <2>2. \/ GetConnection(r)
        \/ Finish(r)
        \/ UNCHANGED <<pc, connecting>>
        \/ \E where \in {"loop", "publish", "blocked"} :
              pc' = [pc EXCEPT ![r] = where] /\ UNCHANGED connecting
    BY <1>4 DEF Start, Loop, Read, ReadAborted, ReadFails, Publish, Continue
  <2>3. {"loop", "publish", "blocked"} \subseteq Phases
        /\ \A where \in {"loop", "publish", "blocked"} : where \notin Connecting
    BY <1>0 DEF Phases, Active
  <2> QED  BY <1>a, <1>b, <2>1, <2>2, <2>3, GetConnects, FinishConnects
<1>5. ASSUME NEW k \in Consumers, Receive(k) \/ Received(k) \/ ReceiveFails(k)
      PROVE  OneConnects'
  <2>1. \/ UNCHANGED <<pc, connecting>>
        \/ \E r \in Readers : \E where \in {"loop", "publish"} :
              pc[r] = "blocked" /\ pc' = [pc EXCEPT ![r] = where] /\ UNCHANGED connecting
    BY <1>5 DEF Receive, Received, ReceiveFails
  <2>2. \A r \in Readers : r \in Coroutines
    BY DEF Coroutines
  <2>3. {"loop", "publish"} \subseteq Phases /\ "blocked" \notin Connecting
        /\ \A where \in {"loop", "publish"} : where \notin Connecting
    BY <1>0 DEF Phases, Active
  <2> QED  BY <1>a, <1>b, <2>1, <2>2, <2>3
<1>6. CASE Stop \/ Stopped \/ Serve \/ Push \/ PeerCloses \/ UNCHANGED vars
  BY <1>6, <1>a DEF Stop, Stopped, Serve, Push, PeerCloses, vars
<1> QED
  BY <1>1, <1>2, <1>3, <1>4, <1>5, <1>6
  DEF Next, ReaderStep, SenderStep, Step, Coroutines

\* One coroutine connects at a time and connecting_ says so, over every exit of
\* async_connect (subscriber_connection.cpp:53-102): a get() that comes later
\* never waits for a connection that nobody makes.
THEOREM ConnectingIsExclusive == Spec => []OneConnects
<1>1. TypeOK /\ OneConnects /\ [Next]_vars => OneConnects'
  BY StepConnects
<1> QED  BY <1>1, InitConnects, SubscriberTypeCorrect, PTL DEF Spec

-----------------------------------------------------------------------------
(* Without a password nobody logs in.                                      *)

NoLogin ==
    /\ swallowed = {}
    /\ \A p \in Coroutines : pc[p] \notin Authenticating

LEMMA StepNoLogin ==
    ASSUME TypeOK, NoLogin, ~ Password, [Next]_vars
    PROVE  NoLogin'
<1> USE DEF linkVars, channelVars, counterVars, stopVars
<1>0. /\ Authenticating = {"auth", "reauth"}
      /\ \A p : UseOf(p) \notin Authenticating
  BY DEF Authenticating, UseOf
<1>a. ASSUME UNCHANGED <<pc, swallowed>>
      PROVE  NoLogin'
  BY <1>a DEF NoLogin
\* p goes to an await outside the login
<1>b. ASSUME NEW p \in Coroutines, UNCHANGED swallowed,
             \/ \E where \in Phases \ Authenticating : pc' = [pc EXCEPT ![p] = where]
             \/ GetConnection(p) \/ LeaveConnect(p) \/ Finish(p)
      PROVE  NoLogin'
  <2>1. pc'[p] \notin Authenticating /\ \A q \in Coroutines \ {p} : pc'[q] = pc[q]
    <3>1. CASE \E where \in Phases \ Authenticating : pc' = [pc EXCEPT ![p] = where]
      BY <3>1, MoveTyped
    <3>2. CASE GetConnection(p) \/ LeaveConnect(p) \/ Finish(p)
      BY <1>0, <3>2, GetMoves, LeaveMoves, FinishMoves
    <3> QED  BY <1>b, <3>1, <3>2
  <2> QED  BY <1>b, <2>1 DEF NoLogin
<1>c. {"backoff", "reconnect", "loop", "publish", "blocked", "finished"}
         \subseteq Phases \ Authenticating
  BY <1>0 DEF Phases, Active, Connecting
<1>1. ASSUME NEW p \in Coroutines, Connect(p)
      PROVE  NoLogin'
  <2>1. /\ UNCHANGED swallowed
        /\ \A q \in Coroutines : pc'[q] = UseOf(q) \/ pc'[q] = pc[q]
    BY <1>1 DEF Connect
  <2> QED  BY <1>0, <2>1 DEF NoLogin
<1>2. ASSUME NEW p \in Coroutines, ConnectFails(p) \/ ConnectAborted(p) \/ BackOff(p)
      PROVE  NoLogin'
  <2>1. /\ UNCHANGED swallowed
        /\ \/ LeaveConnect(p)
           \/ \E where \in {"backoff", "reconnect"} : pc' = [pc EXCEPT ![p] = where]
    BY <1>2 DEF ConnectFails, ConnectAborted, BackOff
  <2> QED  BY <1>b, <1>c, <2>1
<1>3. ASSUME NEW p \in Coroutines, Auth(p) \/ AuthFails(p)
      PROVE  FALSE
  BY <1>3 DEF Auth, AuthFails, NoLogin
<1>4. ASSUME NEW s \in Senders, Send(s) \/ Write(s)
      PROVE  NoLogin'
  <2>1. s \in Coroutines
    BY DEF Coroutines
  <2>2. /\ UNCHANGED swallowed
        /\ GetConnection(s) \/ pc' = [pc EXCEPT ![s] = "finished"]
    BY <1>4 DEF Send, Write
  <2> QED  BY <1>b, <1>c, <2>1, <2>2
<1>5. ASSUME NEW r \in Readers,
             Start(r) \/ Loop(r) \/ Read(r) \/ ReadAborted(r) \/ ReadFails(r) \/ Publish(r)
      PROVE  NoLogin'
  <2>1. r \in Coroutines
    BY DEF Coroutines
  <2>2. /\ UNCHANGED swallowed
        /\ \/ GetConnection(r) \/ Finish(r) \/ UNCHANGED pc
           \/ \E where \in {"loop", "publish", "blocked"} : pc' = [pc EXCEPT ![r] = where]
    BY <1>5 DEF Start, Loop, Read, ReadAborted, ReadFails, Publish, Continue
  <2> QED  BY <1>a, <1>b, <1>c, <2>1, <2>2
<1>6. ASSUME NEW k \in Consumers, Receive(k) \/ Received(k) \/ ReceiveFails(k)
      PROVE  NoLogin'
  <2>1. /\ UNCHANGED swallowed
        /\ \/ UNCHANGED pc
           \/ \E r \in Readers : \E where \in {"loop", "publish"} :
                 pc' = [pc EXCEPT ![r] = where]
    BY <1>6 DEF Receive, Received, ReceiveFails
  <2>2. \A r \in Readers : r \in Coroutines
    BY DEF Coroutines
  <2> QED  BY <1>a, <1>b, <1>c, <2>1, <2>2
<1>7. CASE Stop \/ Stopped \/ Serve \/ Push \/ PeerCloses \/ UNCHANGED vars
  BY <1>7, <1>a DEF Stop, Stopped, Serve, Push, PeerCloses, vars
<1> QED
  BY <1>1, <1>2, <1>3, <1>4, <1>5, <1>6, <1>7
  DEF Next, ReaderStep, SenderStep, Step, Coroutines

\* The replies that callers wait for get lost in the login and nowhere else: on
\* a connection without a password all of them are left to the reader
\* (subscriber.cpp:240-283, redis_sub_test.cpp:79-82).
THEOREM OnlyLoginsSwallow == ~ Password => (Spec => []RepliesReachReader)
<1> SUFFICES ASSUME ~ Password
             PROVE  Spec => []RepliesReachReader
  OBVIOUS
<1>1. Init => NoLogin
  BY DEF Init, NoLogin, Authenticating
<1>2. TypeOK /\ NoLogin /\ [Next]_vars => NoLogin'
  BY StepNoLogin
<1>3. NoLogin => RepliesReachReader
  BY DEF NoLogin, RepliesReachReader
<1> QED  BY <1>1, <1>2, <1>3, SubscriberTypeCorrect, PTL DEF Spec

-----------------------------------------------------------------------------
(* What a step does to the readers: start() makes one active, one ends, or *)
(* stop() is called or returns; all others leave the readers active or not *)
(* as they are, and the latch alone.                                       *)

Ends(r) ==
    /\ pc[r] \in Active /\ pc'[r] = "finished" /\ latch' = 0
    /\ \A q \in Readers \ {r} : pc'[q] = pc[q]
    /\ ~ read_messages \/ r \in cancelled \/ closed
    /\ cancelled' \subseteq cancelled
    /\ UNCHANGED <<read_messages, stopped, revived, stops, closed>>

Quiet ==
    /\ ActiveReaders' = ActiveReaders
    /\ \A r \in Readers : pc[r] = "finished" => pc'[r] = "finished"
    /\ cancelled' \subseteq cancelled
    /\ UNCHANGED <<read_messages, latch, stopped, revived, stops, closed>>

\* A coroutine moves; if it is a reader it is active before and after
LEMMA QuietMove ==
    ASSUME NEW p \in Coroutines, \A q \in Coroutines \ {p} : pc'[q] = pc[q],
           p \in Readers => pc[p] \in Active /\ pc'[p] \in Active,
           cancelled' \subseteq cancelled,
           UNCHANGED <<read_messages, latch, stopped, revived, stops, closed>>
    PROVE  Quiet
<1>1. "finished" \notin Active
  BY DEF Active, Connecting, Authenticating
<1>2. \A r \in Readers : r \in Coroutines
  BY DEF Coroutines
<1> QED  BY <1>1, <1>2 DEF Quiet, ActiveReaders

\* A reader goes on, or it ends
LEMMA ContinueEnds ==
    ASSUME TypeOK, NEW r \in Readers, pc[r] \in Active, Continue(r),
           cancelled' \subseteq cancelled,
           UNCHANGED <<read_messages, stopped, revived, stops, closed>>
    PROVE  Ends(r) \/ Quiet
<1>1. r \in Coroutines /\ \A q \in Readers : q \in Coroutines
  BY DEF Coroutines
<1>2. CASE read_messages
  <2>1. GetConnection(r) /\ latch' = latch
    BY <1>2 DEF Continue
  <2>2. pc'[r] \in Active
    BY <1>1, <2>1, GetMoves DEF UseOf, Active, Connecting
  <2>3. \A q \in Coroutines \ {r} : pc'[q] = pc[q]
    BY <1>1, <2>1, GetMoves
  <2> QED  BY <1>1, <2>1, <2>2, <2>3, QuietMove
<1>3. CASE ~ read_messages
  BY <1>1, <1>3, FinishMoves DEF Continue, Ends
<1> QED  BY <1>2, <1>3

LEMMA StepOfReaders ==
    ASSUME TypeOK, [Next]_vars
    PROVE  \/ \E r \in Readers : Start(r) \/ Ends(r)
           \/ Stop
           \/ Stopped
           \/ Quiet
<1> USE DEF linkVars, channelVars, counterVars, stopVars
<1>0. /\ {"connect", "reconnect", "backoff", "auth", "reauth", "loop", "wait",
            "read", "publish", "blocked"} = Active
      /\ Connecting \subseteq Active
      /\ \A r \in Readers : UseOf(r) = "read" /\ r \in Coroutines
      /\ \A s \in Senders : s \in Coroutines /\ s \notin Readers
  BY SubscriberAssumption DEF Active, Connecting, Authenticating, UseOf, Coroutines
<1>1. ASSUME NEW p \in Coroutines, Connect(p)
      PROVE  Quiet
  <2>1. \A r \in Readers : pc'[r] \in Active <=> pc[r] \in Active
    BY <1>0, <1>1 DEF Connect
  <2>2. \A r \in Readers : pc[r] = "finished" => pc'[r] = "finished"
    BY <1>0, <1>1 DEF Connect
  <2>3. ActiveReaders' = ActiveReaders
    BY <2>1 DEF ActiveReaders
  <2> QED  BY <1>1, <2>2, <2>3 DEF Connect, Quiet
<1>2. ASSUME NEW p \in Coroutines,
             ConnectFails(p) \/ ConnectAborted(p) \/ BackOff(p) \/ Auth(p) \/ AuthFails(p)
      PROVE  Quiet
  <2>1. pc[p] \in Active
    BY <1>0, <1>2 DEF ConnectFails, ConnectAborted, BackOff, Auth, AuthFails, Authenticating
  <2>2. \/ \E where \in {"backoff", "reconnect"} : pc' = [pc EXCEPT ![p] = where]
        \/ LeaveConnect(p)
    BY <1>2 DEF ConnectFails, ConnectAborted, BackOff, Auth, AuthFails
  <2>3. /\ \A q \in Coroutines \ {p} : pc'[q] = pc[q]
        /\ p \in Readers => pc'[p] \in Active
    BY <1>0, <2>2, MoveTyped, LeaveMoves DEF Phases
  <2>4. cancelled' \subseteq cancelled
        /\ UNCHANGED <<read_messages, latch, stopped, revived, stops, closed>>
    BY <1>2 DEF ConnectFails, ConnectAborted, BackOff, Auth, AuthFails
  <2> QED  BY <2>1, <2>3, <2>4, QuietMove
<1>3. ASSUME NEW s \in Senders, Send(s) \/ Write(s)
      PROVE  Quiet
  <2>1. GetConnection(s) \/ pc' = [pc EXCEPT ![s] = "finished"]
    BY <1>3 DEF Send, Write
  <2>2. \A q \in Coroutines \ {s} : pc'[q] = pc[q]
    BY <1>0, <2>1, GetMoves, MoveTyped DEF Phases
  <2>3. UNCHANGED <<cancelled, read_messages, latch, stopped, revived, stops, closed>>
    BY <1>3 DEF Send, Write
  <2> QED  BY <1>0, <2>2, <2>3, QuietMove
<1>4. ASSUME NEW r \in Readers, Loop(r) \/ ReadFails(r)
      PROVE  Ends(r) \/ Quiet
  <2>1. pc[r] \in Active /\ Continue(r) /\ cancelled' \subseteq cancelled
        /\ UNCHANGED <<read_messages, stopped, revived, stops, closed>>
    BY <1>0, <1>4 DEF Loop, ReadFails
  <2> QED  BY <2>1, ContinueEnds
<1>5. ASSUME NEW r \in Readers, Read(r)
      PROVE  Quiet
  <2>1. pc[r] \in Active /\ pc'[r] = "publish" /\ \A q \in Coroutines \ {r} : pc'[q] = pc[q]
    BY <1>0, <1>5, MoveTyped DEF Read, Phases
  <2>2. cancelled' \subseteq cancelled
        /\ UNCHANGED <<read_messages, latch, stopped, revived, stops, closed>>
    BY <1>5 DEF Read
  <2> QED  BY <1>0, <2>1, <2>2, QuietMove
<1>6. ASSUME NEW r \in Readers, ReadAborted(r)
      PROVE  Ends(r)
  BY <1>0, <1>6, FinishMoves DEF ReadAborted, Ends
<1>7. ASSUME NEW r \in Readers, Publish(r)
      PROVE  Ends(r) \/ Quiet
  <2>1. pc[r] \in Active /\ UNCHANGED <<cancelled, read_messages, stopped, revived, stops, closed>>
    BY <1>0, <1>7 DEF Publish
  <2>2. CASE closed /\ Finish(r)
    BY <1>0, <2>1, <2>2, FinishMoves DEF Ends
  <2>3. CASE Continue(r)
    BY <2>1, <2>3, ContinueEnds
  <2>4. CASE UNCHANGED <<pc, latch>>
    BY <2>1, <2>4 DEF Quiet, ActiveReaders
  <2>5. CASE pc' = [pc EXCEPT ![r] = "blocked"] /\ UNCHANGED latch
    <3>1. pc'[r] \in Active /\ \A q \in Coroutines \ {r} : pc'[q] = pc[q]
      BY <1>0, <2>5, MoveTyped DEF Phases
    <3> QED  BY <1>0, <2>1, <2>5, <3>1, QuietMove
  <2> QED  BY <1>7, <2>2, <2>3, <2>4, <2>5 DEF Publish
<1>8. ASSUME NEW k \in Consumers, Receive(k) \/ Received(k) \/ ReceiveFails(k)
      PROVE  Quiet
  <2>1. UNCHANGED <<cancelled, read_messages, latch, stopped, revived, stops, closed>>
    BY <1>8 DEF Receive, Received, ReceiveFails
  <2>2. CASE UNCHANGED pc
    BY <2>1, <2>2 DEF Quiet, ActiveReaders
  <2>3. ASSUME NEW r \in Readers, NEW where \in {"loop", "publish"},
               pc[r] = "blocked", pc' = [pc EXCEPT ![r] = where]
        PROVE  Quiet
    <3>1. pc'[r] \in Active /\ \A q \in Coroutines \ {r} : pc'[q] = pc[q]
      BY <1>0, <2>3, MoveTyped DEF Phases
    <3> QED  BY <1>0, <2>1, <2>3, <3>1, QuietMove
  <2> QED  BY <1>8, <2>2, <2>3 DEF Receive, Received, ReceiveFails
<1>9. CASE Serve \/ Push \/ PeerCloses \/ UNCHANGED vars
  BY <1>9 DEF Serve, Push, PeerCloses, vars, Quiet, ActiveReaders
<1> QED
  BY <1>1, <1>2, <1>3, <1>4, <1>5, <1>6, <1>7, <1>8, <1>9
  DEF Next, ReaderStep, SenderStep, Step, Coroutines

-----------------------------------------------------------------------------
(* start(), stop() and the latch.                                          *)

LifeCycle == LatchGuards /\ FirstRun /\ FirstStop

LEMMA InitLifeCycle == Init => LifeCycle
<1> SUFFICES ASSUME Init
             PROVE  LifeCycle
  OBVIOUS
<1>1. ActiveReaders = {}
  BY DEF Init, ActiveReaders, Active, Connecting, Authenticating, Coroutines
<1> QED
  BY <1>1 DEF Init, LifeCycle, LatchGuards, FirstRun, FirstStop, Alone, ActiveReaders

LEMMA StepLifeCycle ==
    ASSUME TypeOK, LifeCycle, [Next]_vars
    PROVE  LifeCycle'
<1> USE DEF LifeCycle
<1>1. ASSUME NEW r \in Readers, Start(r)
      PROVE  LifeCycle'
  <2>1. /\ r \in Coroutines /\ "loop" \in Phases /\ "loop" \in Active /\ "new" \notin Active
        /\ \A q \in Readers : q \in Coroutines
    BY DEF Coroutines, Phases, Active, Connecting, Authenticating
  <2>2. /\ pc[r] = "new" /\ ~ Running /\ read_messages' = TRUE
        /\ revived' = IF Stopping THEN revived \cup ActiveReaders ELSE revived
        /\ UNCHANGED <<latch, cancelled, closed, stops, stopped>>
    BY <1>1 DEF Start, channelVars, counterVars
  <2>3. pc'[r] = "loop" /\ \A q \in Readers \ {r} : pc'[q] = pc[q]
    BY <1>1, <2>1, MoveTyped DEF Start
  <2>4. ActiveReaders' = ActiveReaders \cup {r}
    BY <2>1, <2>3 DEF ActiveReaders
  <2>5. latch = 1 /\ revived' = {} => ActiveReaders = {}
    BY <2>2 DEF LatchGuards, Running
  <2>6. latch = 1 /\ revived' = {} => Alone'
    BY <2>4, <2>5 DEF Alone
  <2>7. latch = 0 => \E q \in Readers : pc'[q] = "finished"
    BY <2>2, <2>3 DEF LatchGuards
  <2>8. LatchGuards'
    BY <2>2, <2>6, <2>7 DEF LatchGuards
  <2>9. FirstRun'
    <3>1. stops = 0 => stopped = 0
      BY DEF FirstRun, LatchGuards
    <3> QED  BY <2>2, <2>4, <3>1 DEF FirstRun, Stopping
  <2>10. FirstStop'
    BY <2>2 DEF FirstStop
  <2> QED  BY <2>8, <2>9, <2>10
<1>2. ASSUME NEW r \in Readers, Ends(r)
      PROVE  LifeCycle'
  <2>1. "finished" \notin Active
    BY DEF Active, Connecting, Authenticating
  <2>2. ActiveReaders' = ActiveReaders \ {r} /\ r \in ActiveReaders
    BY <1>2, <2>1 DEF Ends, ActiveReaders
  <2>3. LatchGuards'
    BY <1>2 DEF Ends, LatchGuards
  <2>4. FirstRun'
    <3>1. stops # 0
      BY <1>2, <2>2 DEF Ends, FirstRun
    <3> QED  BY <1>2, <3>1 DEF Ends, FirstRun
  <2>5. FirstStop'
    <3>1. latch = 1 /\ revived = {} => ActiveReaders = {r}
      BY <2>2 DEF LatchGuards, Alone
    <3>2. latch \in {0, 1}
      BY DEF TypeOK
    <3>3. stops = 1 /\ ~ read_messages => revived = {} /\ ActiveReaders' = {}
      BY <2>2, <3>1, <3>2 DEF FirstStop
    <3> QED  BY <1>2, <3>3 DEF Ends, FirstStop
  <2> QED  BY <2>3, <2>4, <2>5
<1>3. CASE Stop
  <2>1. /\ stops' = stops + 1 /\ stops \in Nat /\ stopped \in 0..stops
        /\ UNCHANGED <<pc, latch, stopped, revived>>
    BY <1>3, SubscriberAssumption DEF Stop, TypeOK
  <2>2. ActiveReaders' = ActiveReaders /\ Stopping'
    BY <2>1 DEF ActiveReaders, Stopping
  <2>3. LatchGuards'
    BY <2>1, <2>2 DEF LatchGuards, Alone
  <2>4. FirstRun' /\ FirstStop'
    BY <2>1, <2>2 DEF FirstRun, FirstStop
  <2> QED  BY <2>3, <2>4
<1>4. CASE Stopped
  <2>1. /\ Stopping /\ latch = 0 /\ stops \in Nat /\ stopped \in 0..stops
        /\ UNCHANGED <<pc, latch, read_messages, revived, stops>>
    BY <1>4, SubscriberAssumption DEF Stopped, TypeOK, counterVars
  <2>2. stops # 0 /\ ActiveReaders' = ActiveReaders
    BY <2>1 DEF Stopping, ActiveReaders
  <2> QED  BY <2>1, <2>2 DEF LatchGuards, FirstRun, FirstStop
<1>5. CASE Quiet
  <2>1. /\ Alone' <=> Alone
        /\ Stopping' <=> Stopping
    BY <1>5 DEF Quiet, Alone, Stopping
  <2>2. LatchGuards'
    BY <1>5, <2>1 DEF Quiet, LatchGuards
  <2> QED  BY <1>5, <2>2 DEF Quiet, FirstRun, FirstStop
<1> QED  BY <1>1, <1>2, <1>3, <1>4, <1>5, StepOfReaders

LEMMA LifeCycleInvariant == Spec => []LifeCycle
<1>1. TypeOK /\ LifeCycle /\ [Next]_vars => LifeCycle'
  BY StepLifeCycle
<1> QED  BY <1>1, InitLifeCycle, SubscriberTypeCorrect, PTL DEF Spec

\* Until stop() is called, running() tells whether a reader is active, whatever
\* the network does (subscriber.cpp:109-141, 179-181).
THEOREM RunningTells == Spec => []RunningMeansReader
<1>1. LifeCycle => RunningMeansReader
  BY DEF LifeCycle, FirstRun, RunningMeansReader, Running, ActiveReaders
<1> QED  BY <1>1, LifeCycleInvariant, PTL

\* As long as start() takes effect at most twice, however often it and stop()
\* are called, one reader at most is active (subscriber.cpp:67-84, 109-141): the
\* second one starts only when the first has ended, unless start() is called
\* while a stop() still waits for the first.
THEOREM ReaderIsAlone ==
    (\A r, q, s \in Readers : r = q \/ q = s \/ r = s) => (Spec => []OneReads)
<1> SUFFICES ASSUME \A r, q, s \in Readers : r = q \/ q = s \/ r = s
             PROVE  Spec => []OneReads
  OBVIOUS
<1>1. "finished" \notin Active
  BY DEF Active, Connecting, Authenticating
<1>2. TypeOK /\ LifeCycle => OneReads
  <2> SUFFICES ASSUME TypeOK, LifeCycle, revived = {}
               PROVE  Alone
    BY DEF OneReads
  <2>1. CASE latch = 1
    BY <2>1 DEF LifeCycle, LatchGuards
  <2>2. CASE latch = 0
    <3>1. PICK r \in Readers : pc[r] = "finished"
      BY <2>2 DEF LifeCycle, LatchGuards
    <3>2. r \notin ActiveReaders /\ ActiveReaders \subseteq Readers
      BY <1>1, <3>1 DEF ActiveReaders
    <3> QED  BY <3>2 DEF Alone
  <2> QED  BY <2>1, <2>2 DEF TypeOK
<1> QED  BY <1>2, LifeCycleInvariant, SubscriberTypeCorrect, PTL

\* The first stop() that returns leaves no reader behind, however often start()
\* was called before it, as long as it is not called during its wait or after it
\* (subscriber.cpp:78-84; subscriber.hpp:97).
THEOREM FirstStopEndsActivity == Spec => [](stops <= 1 => StopEndsActivity)
<1>1. TypeOK /\ LifeCycle => (stops <= 1 => StopEndsActivity)
  <2> SUFFICES ASSUME TypeOK, LifeCycle, stops <= 1, stops > 0, ~ Stopping,
                      ~ read_messages
               PROVE  ActiveReaders = {}
    BY DEF StopEndsActivity
  <2>1. stops = 1 /\ stopped = 1
    BY SubscriberAssumption DEF TypeOK, Stopping
  <2>2. latch = 0
    BY <2>1 DEF TypeOK, LifeCycle, LatchGuards
  <2> QED  BY <2>1, <2>2 DEF LifeCycle, FirstStop
<1> QED  BY <1>1, LifeCycleInvariant, SubscriberTypeCorrect, PTL

-----------------------------------------------------------------------------
(* The subscriber implements MessageFeed.                                  *)

\* A sequence is its first element and the others
LEMMA HeadAndTail ==
    ASSUME NEW S, NEW s \in Seq(S), s # <<>>
    PROVE  <<Head(s)>> \o Tail(s) = s
<1>1. Len(s) \in Nat \ {0} /\ 1 \in 1..Len(s) /\ Len(s) \in 1..Len(s)
  BY EmptySeq
<1>2. SubSeq(s, 1, Len(s)) = <<s[1]>> \o SubSeq(s, 2, Len(s))
  <2>1. SubSeq(s, 1, Len(s)) = <<s[1]>> \o SubSeq(s, 1 + 1, Len(s))
    BY <1>1, SubSeqRecursiveFirst
  <2>2. 1 + 1 = 2
    OBVIOUS
  <2> QED  BY <2>1, <2>2
<1>3. SubSeq(s, 1, Len(s)) = s /\ Tail(s) = SubSeq(s, 2, Len(s))
  BY SubSeqFull, TailIsSubSeq
<1>4. Head(s) = s[1]
  OBVIOUS
<1> QED  BY <1>2, <1>3, <1>4

LEMMA HeadOfConcat ==
    ASSUME NEW S, NEW h \in S, NEW v \in Seq(S)
    PROVE  /\ <<h>> \o v # <<>>
           /\ Head(<<h>> \o v) = h
           /\ Tail(<<h>> \o v) = v
<1> DEFINE w == <<h>> \o v
<1>1. /\ <<h>> \in Seq(S) /\ Len(<<h>>) = 1 /\ <<h>>[1] = h /\ Len(v) \in Nat
  BY ShortSeqs, LenProperties
<1>2. /\ w \in Seq(S) /\ Len(w) = 1 + Len(v)
      /\ \A i \in 1..(1 + Len(v)) : w[i] = IF i <= 1 THEN <<h>>[i] ELSE v[i - 1]
  BY <1>1, ConcatProperties
<1> HIDE DEF w
<1>3. w # <<>>
  BY <1>1, <1>2, EmptySeq
<1>4. w[1] = h /\ \A i \in 1..Len(v) : w[i + 1] = v[i]
  <2>1. 1 \in 1..(1 + Len(v)) /\ \A i \in 1..Len(v) : /\ i + 1 \in 1..(1 + Len(v))
                                                   /\ ~ (i + 1 <= 1) /\ i + 1 - 1 = i
    BY <1>1
  <2> QED  BY <1>1, <1>2, <2>1
<1>5. Head(w) = h
  BY <1>4
<1>6. /\ Tail(w) \in Seq(S) /\ Len(Tail(w)) = Len(v)
      /\ \A i \in 1..Len(v) : Tail(w)[i] = w[i + 1]
  <2>1. /\ Tail(w) \in Seq(S) /\ Len(Tail(w)) = Len(w) - 1
        /\ \A i \in 1..Len(Tail(w)) : Tail(w)[i] = w[i + 1]
    BY <1>2, <1>3, HeadTailProperties
  <2>2. Len(Tail(w)) = Len(v)
    BY <1>1, <1>2, <2>1
  <2> QED  BY <2>1, <2>2
<1> DEFINE u == Tail(w)
<1> HIDE DEF u
<1>7. u = v
  <2>1. u \in Seq(S) /\ Len(u) = Len(v) /\ \A i \in 1..Len(u) : u[i] = v[i]
    BY <1>4, <1>6 DEF u
  <2> QED  BY <2>1, SeqEqual
<1> QED  BY <1>3, <1>5, <1>7 DEF u, w

\* Handing on the first element of the second sequence changes nothing in all
LEMMA AppendHead ==
    ASSUME NEW S, NEW s \in Seq(S), NEW t \in Seq(S), t # <<>>
    PROVE  /\ Append(s, Head(t)) \in Seq(S)
           /\ Append(s, Head(t)) \o Tail(t) = s \o t
<1>1. Head(t) \in S /\ Tail(t) \in Seq(S)
  BY HeadTailProperties
<1>2. <<Head(t)>> \in Seq(S)
  BY <1>1, ShortSeqs
<1>3. Append(s, Head(t)) = s \o <<Head(t)>> /\ Append(s, Head(t)) \in Seq(S)
  BY <1>1, AppendIsConcat, AppendProperties
<1>4. (s \o <<Head(t)>>) \o Tail(t) = s \o (<<Head(t)>> \o Tail(t))
  BY <1>1, <1>2, ConcatAssociative
<1>5. <<Head(t)>> \o Tail(t) = t
  BY HeadAndTail
<1> QED  BY <1>3, <1>4, <1>5

\* The first element of the first sequence is the first of both
LEMMA ConcatHeadTail ==
    ASSUME NEW S, NEW s \in Seq(S), NEW t \in Seq(S), s # <<>>
    PROVE  /\ s \o t # <<>>
           /\ Head(s \o t) = Head(s)
           /\ Tail(s \o t) = Tail(s) \o t
<1> DEFINE h == Head(s)
           u == Tail(s)
<1>1. h \in S /\ u \in Seq(S) /\ <<h>> \in Seq(S)
  BY HeadTailProperties, ShortSeqs
<1>2. s = <<h>> \o u
  BY HeadAndTail
<1>3. s \o t = <<h>> \o (u \o t)
  <2> HIDE DEF h, u
  <2> QED  BY <1>1, <1>2, ConcatAssociative
<1>4. u \o t \in Seq(S)
  BY <1>1, ConcatProperties
<1>5. \A v \in Seq(S) : /\ <<h>> \o v # <<>>
                        /\ Head(<<h>> \o v) = h
                        /\ Tail(<<h>> \o v) = v
  <2> HIDE DEF h
  <2> QED  BY <1>1, HeadOfConcat
<1> HIDE DEF h, u
<1>6. /\ s \o t # <<>> /\ Head(s \o t) = h /\ Tail(s \o t) = u \o t
  BY <1>3, <1>4, <1>5
<1> QED  BY <1>6 DEF h, u

LEMMA PrefixOfConcat ==
    ASSUME NEW S, NEW s \in Seq(S), NEW t \in Seq(S)
    PROVE  IsPrefix(s, s \o t)
<1>1. Len(s) \in Nat /\ Len(t) \in Nat /\ s \o t \in Seq(S) /\ Len(s \o t) = Len(s) + Len(t)
  BY LenProperties, ConcatProperties
<1>2. SubSeq(s, 1, Len(s)) = SubSeq(s \o t, 1, Len(s))
  <2>1. CASE Len(s) = 0
    BY <2>1, SubSeqEmpty
  <2>2. CASE Len(s) > 0
    <3>1. 1 \in 1..Len(s) /\ Len(s) \in 1..Len(s)
      BY <1>1, <2>2
    <3> QED  BY <3>1, SubSeqOfConcat1
  <2> QED  BY <1>1, <2>1, <2>2
<1> QED  BY <1>1, <1>2 DEF IsPrefix

\* Who sends, and what it has not sent yet
LEMMA UnsentOf ==
    ASSUME NEW r \in Readers
    PROVE  /\ Sending = {r} => Unsent = batch[r]
           /\ Sending = {} => Unsent = <<>>
           /\ Sending' = {r} => Unsent' = batch'[r]
           /\ Sending' = {} => Unsent' = <<>>
BY DEF Unsent

LEMMA SendsAlone ==
    ASSUME Alone, NEW r \in Readers, pc[r] \in Active
    PROVE  /\ pc[r] \in {"publish", "blocked"} => Sending = {r}
           /\ pc[r] \notin {"publish", "blocked"} => Sending = {}
BY DEF Alone, ActiveReaders, Sending, Active

LEMMA LastTail ==
    ASSUME NEW S, NEW s \in Seq(S), Len(s) = 1
    PROVE  Tail(s) = <<>>
<1>1. s # <<>>
  BY EmptySeq
<1>2. Tail(s) \in Seq(S) /\ Len(Tail(s)) = 0
  BY <1>1, TailOfSeq
<1> QED  BY <1>2, EmptySeq

LEMMA UnsentTyped ==
    ASSUME TypeOK
    PROVE  Unsent \in Seq(Message)
<1>1. CASE Sending = {}
  BY <1>1, ShortSeqs DEF Unsent
<1>2. CASE Sending # {}
  <2>1. (CHOOSE r \in Sending : TRUE) \in Readers
    BY <1>2 DEF Sending
  <2> QED  BY <1>2, <2>1 DEF Unsent, TypeOK
<1> QED  BY <1>1, <1>2

\* A step that is no business of those who send, nor of the channel
LEMMA FeedElsewhere ==
    ASSUME Sending' = Sending, UNCHANGED <<batch, queue, delivered, closed>>
    PROVE  [Feed!Next]_(Feed!feed)
<1>1. Unsent' = Unsent
  BY DEF Unsent
<1> QED  BY <1>1 DEF Feed!Next, Feed!Elsewhere, Feed!feed

\* A coroutine moves that does not send, neither before nor after
LEMMA SendingStays ==
    ASSUME NEW p \in Coroutines, \A q \in Coroutines \ {p} : pc'[q] = pc[q],
           p \in Readers => /\ pc[p] \notin {"publish", "blocked"}
                            /\ pc'[p] \notin {"publish", "blocked"}
    PROVE  Sending' = Sending
BY DEF Sending, Coroutines

\* Of a sole sender the reader is told apart from all others
LEMMA SendingIs ==
    ASSUME NEW r \in Readers, Sending \subseteq {r},
           \A q \in Coroutines \ {r} : pc'[q] = pc[q]
    PROVE  Sending' = IF pc'[r] \in {"publish", "blocked"} THEN {r} ELSE {}
BY DEF Sending, Coroutines

\* A read takes the messages from the link
LEMMA ReadTakes ==
    ASSUME TypeOK, Alone, NEW r \in Readers, Read(r)
    PROVE  [Feed!Next]_(Feed!feed)
<1>1. r \in Coroutines /\ pc[r] = "read" /\ "read" \in Active /\ "publish" \in Phases
  BY DEF Read, Coroutines, Active, Phases
<1>2. PICK n \in 1..Len(stream) :
         /\ batch' = [batch EXCEPT ![r] = SubSeq(stream, 1, n)]
         /\ stream' = SubSeq(stream, n + 1, Len(stream))
  BY DEF Read
<1>3. Sending = {} /\ Unsent = <<>>
  BY <1>1, SendsAlone, UnsentOf
<1>4. pc'[r] = "publish" /\ \A q \in Coroutines \ {r} : pc'[q] = pc[q]
  BY <1>1, MoveTyped DEF Read
<1>5. Sending' = {r}
  BY <1>3, <1>4, SendingIs
<1>6. Unsent' = SubSeq(stream, 1, n)
  BY <1>2, <1>5, UnsentOf DEF TypeOK
<1>7. UNCHANGED <<queue, delivered, closed>>
  BY DEF Read, channelVars
<1>8. queue \o Unsent = queue
  BY <1>3, ConcatEmptySeq DEF TypeOK
<1>9. (queue \o Unsent)' = (queue \o Unsent) \o SubSeq(stream, 1, n)
  BY <1>6, <1>7, <1>8
<1> QED  BY <1>2, <1>7, <1>9 DEF Feed!Next, Feed!Take

\* What is sent to the channel stays in its place; what a closed channel
\* refuses is given up
LEMMA PublishKeepsPlace ==
    ASSUME TypeOK, HasUnsent, Alone, NEW r \in Readers, Publish(r)
    PROVE  [Feed!Next]_(Feed!feed)
<1>1. r \in Coroutines /\ pc[r] = "publish" /\ "publish" \in Active /\ "blocked" \in Phases
  BY DEF Publish, Coroutines, Active, Phases
<1>2. Sending = {r} /\ Unsent = batch[r]
  BY <1>1, SendsAlone, UnsentOf
<1>3. batch[r] \in Seq(Message) /\ batch[r] # <<>> /\ queue \in Seq(Message)
  BY <1>2 DEF HasUnsent, TypeOK
<1>4. UNCHANGED <<stream, delivered, closed>>
  BY DEF Publish, linkVars
<1>5. CASE closed /\ Finish(r) /\ UNCHANGED <<batch, queue>>
  <2>1. Sending' = {}
    BY <1>1, <1>2, <1>5, FinishMoves, SendingIs
  <2>2. (queue \o Unsent)' = queue
    BY <1>3, <1>5, <2>1, UnsentOf, ConcatEmptySeq
  <2>3. IsPrefix(queue, queue \o Unsent)
    BY <1>2, <1>3, PrefixOfConcat
  <2> QED  BY <1>4, <1>5, <2>2, <2>3 DEF Feed!Next, Feed!GiveUp, Feed!IsPrefix, IsPrefix
<1>6. CASE /\ queue' = Append(queue, Head(batch[r]))
           /\ batch' = [batch EXCEPT ![r] = Tail(@)]
           /\ IF Len(batch[r]) = 1 THEN Continue(r)
              ELSE UNCHANGED <<pc, connecting, latch>>
  <2>1. /\ queue' \in Seq(Message)
        /\ queue' \o Tail(batch[r]) = queue \o batch[r]
    BY <1>3, <1>6, AppendHead
  <2>2. batch'[r] = Tail(batch[r])
    BY <1>6 DEF TypeOK
  <2>3. Unsent' = Tail(batch[r])
    <3>1. CASE Len(batch[r]) = 1
      <4>1. Continue(r)
        BY <1>6, <3>1
      <4>2. Sending' = {}
        BY <1>2, <4>1, ContinueMoves, SendingIs
      <4>3. Tail(batch[r]) = <<>>
        BY <1>3, <3>1, TailOfSeq, LastTail
      <4> QED  BY <4>2, <4>3, UnsentOf
    <3>2. CASE Len(batch[r]) # 1
      <4>1. Sending' = {r}
        BY <1>2, <1>6, <3>2 DEF Sending
      <4> QED  BY <2>2, <4>1, UnsentOf
    <3> QED  BY <3>1, <3>2
  <2>4. (queue \o Unsent)' = queue \o Unsent
    BY <1>2, <2>1, <2>3
  <2> QED  BY <1>4, <2>4 DEF Feed!feed
<1>7. CASE /\ pc' = [pc EXCEPT ![r] = "blocked"]
           /\ UNCHANGED <<batch, queue, connecting, latch>>
  <2>1. Sending' = {r}
    BY <1>1, <1>2, <1>7, MoveTyped, SendingIs
  <2> QED  BY <1>2, <1>4, <1>7, <2>1, FeedElsewhere
<1> QED  BY <1>5, <1>6, <1>7 DEF Publish

\* read() gets the oldest message, whether or not a suspended send follows up
LEMMA ReceivedDelivers ==
    ASSUME TypeOK, HasUnsent, Alone, NEW k \in Consumers, Received(k)
    PROVE  [Feed!Next]_(Feed!feed)
<1>1. queue \in Seq(Message) /\ queue # <<>> /\ Unsent \in Seq(Message)
  BY UnsentTyped DEF Received, TypeOK
<1>2. /\ queue \o Unsent # <<>>
      /\ Head(queue \o Unsent) = Head(queue)
      /\ Tail(queue \o Unsent) = Tail(queue) \o Unsent
      /\ Tail(queue) \in Seq(Message)
  BY <1>1, ConcatHeadTail, TailOfSeq
<1>3. delivered' = Append(delivered, Head(queue)) /\ UNCHANGED <<stream, closed>>
  BY DEF Received, linkVars
<1>4. (queue \o Unsent)' = Tail(queue) \o Unsent
  <2>1. CASE queue' = Tail(queue) /\ UNCHANGED <<batch, pc>>
    <3>1. Unsent' = Unsent
      BY <2>1 DEF Unsent, Sending
    <3> QED  BY <2>1, <3>1
  <2>2. ASSUME NEW r \in Readers, pc[r] = "blocked",
               queue' = Append(Tail(queue), Head(batch[r])),
               batch' = [batch EXCEPT ![r] = Tail(@)],
               pc' = [pc EXCEPT ![r] = IF Len(batch[r]) = 1 THEN "loop" ELSE "publish"]
        PROVE  (queue \o Unsent)' = Tail(queue) \o Unsent
    <3>1. r \in Coroutines /\ "blocked" \in Active /\ "loop" \in Phases /\ "publish" \in Phases
      BY DEF Coroutines, Active, Phases
    <3>2. Sending = {r} /\ Unsent = batch[r]
      BY <2>2, <3>1, SendsAlone, UnsentOf
    <3>3. batch[r] \in Seq(Message) /\ batch[r] # <<>>
      BY <3>2 DEF HasUnsent, TypeOK
    <3>4. queue' \o Tail(batch[r]) = Tail(queue) \o batch[r]
      BY <1>2, <2>2, <3>3, AppendHead
    <3>5. batch'[r] = Tail(batch[r])
      BY <2>2 DEF TypeOK
    <3>6. /\ pc'[r] = IF Len(batch[r]) = 1 THEN "loop" ELSE "publish"
          /\ \A q \in Coroutines \ {r} : pc'[q] = pc[q]
      BY <2>2, <3>1, MoveTyped
    <3>7. Unsent' = Tail(batch[r])
      <4>1. CASE Len(batch[r]) = 1
        <5>1. Sending' = {}
          BY <3>2, <3>6, <4>1, SendingIs
        <5>2. Tail(batch[r]) = <<>>
          BY <3>3, <4>1, TailOfSeq, LastTail
        <5> QED  BY <5>1, <5>2, UnsentOf
      <4>2. CASE Len(batch[r]) # 1
        <5>1. Sending' = {r}
          BY <3>2, <3>6, <4>2, SendingIs
        <5> QED  BY <3>5, <5>1, UnsentOf
      <4> QED  BY <4>1, <4>2
    <3> QED  BY <3>2, <3>4, <3>7
  <2> QED  BY <2>1, <2>2 DEF Received
<1> QED  BY <1>2, <1>3, <1>4 DEF Feed!Next, Feed!Deliver


LEMMA InitFeed == Init => Feed!Init
<1> SUFFICES ASSUME Init  PROVE Feed!Init
  OBVIOUS
<1>1. Unsent = <<>>
  BY DEF Init, Coroutines, Unsent, Sending
<1>2. queue \o Unsent = <<>>
  BY <1>1 DEF Init
<1> QED  BY <1>2 DEF Init, Feed!Init

\* Connecting touches neither the channel nor those who send
LEMMA StepFeeds ==
    ASSUME TypeOK, NEW p \in Coroutines, Step(p)
    PROVE  [Feed!Next]_(Feed!feed)
<1>1. UNCHANGED <<batch, queue, delivered, closed>>
  BY DEF Step, Connect, ConnectFails, ConnectAborted, BackOff, Auth, AuthFails,
         channelVars
<1>2. CASE Connect(p)
  <2>1. \A r \in Readers : pc'[r] \in {"publish", "blocked"} <=> pc[r] \in {"publish", "blocked"}
    BY <1>2 DEF Connect, UseOf, Coroutines
  <2> QED  BY <1>1, <2>1, FeedElsewhere DEF Sending
<1>3. CASE ~ Connect(p)
  <2>1. pc[p] \in Connecting
    BY <1>3 DEF Step, ConnectFails, ConnectAborted, BackOff, Auth, AuthFails,
                Connecting, Authenticating
  <2>2. \E where \in {"backoff", "reconnect", UseOf(p)} : pc' = [pc EXCEPT ![p] = where]
    BY <1>3 DEF Step, ConnectFails, ConnectAborted, BackOff, Auth, AuthFails,
                LeaveConnect
  <2>3. {"backoff", "reconnect", UseOf(p)} \subseteq Phases
    BY DEF UseOf, Phases, Active, Connecting
  <2>4. /\ pc'[p] \in {"backoff", "reconnect", "read", "write"}
        /\ \A q \in Coroutines \ {p} : pc'[q] = pc[q]
    BY <2>2, <2>3, MoveTyped DEF UseOf
  <2>5. Sending' = Sending
    BY <2>1, <2>4, SendingStays DEF Connecting, Authenticating
  <2> QED  BY <1>1, <2>5, FeedElsewhere
<1> QED  BY <1>2, <1>3

LEMMA SenderFeeds ==
    ASSUME TypeOK, NEW s \in Senders, Send(s) \/ Write(s)
    PROVE  [Feed!Next]_(Feed!feed)
<1>1. UNCHANGED <<batch, queue, delivered, closed>>
  BY DEF Send, Write, channelVars
<1>2. s \in Coroutines /\ s \notin Readers
  BY SubscriberAssumption DEF Coroutines
<1>3. \A q \in Coroutines \ {s} : pc'[q] = pc[q]
  <2>1. CASE GetConnection(s)
    BY <1>2, <2>1, GetMoves
  <2>2. CASE pc' = [pc EXCEPT ![s] = "finished"]
    BY <1>2, <2>2 DEF TypeOK
  <2> QED  BY <2>1, <2>2 DEF Send, Write
<1> QED  BY <1>1, <1>2, <1>3, SendingStays, FeedElsewhere

\* The steps of a reader that has nothing to send
LEMMA LoopFeeds ==
    ASSUME TypeOK, NEW r \in Readers,
           Start(r) \/ Loop(r) \/ ReadAborted(r) \/ ReadFails(r)
    PROVE  [Feed!Next]_(Feed!feed)
<1>1. UNCHANGED <<batch, queue, delivered, closed>>
  BY DEF Start, Loop, ReadAborted, ReadFails, channelVars
<1>2. r \in Coroutines
  BY DEF Coroutines
<1>3. pc[r] \in {"new", "loop", "read"}
  BY DEF Start, Loop, ReadAborted, ReadFails
<1>4. /\ pc'[r] \in {"loop", "read", "wait", "connect", "finished"}
      /\ \A q \in Coroutines \ {r} : pc'[q] = pc[q]
  <2>1. CASE Start(r)
    BY <1>2, <2>1, MoveTyped DEF Start, Phases, Active
  <2>2. CASE Continue(r)
    BY <2>2, ContinueMoves
  <2>3. CASE Finish(r)
    BY <1>2, <2>3, FinishMoves
  <2> QED  BY <2>1, <2>2, <2>3 DEF Loop, ReadAborted, ReadFails
<1> QED  BY <1>1, <1>2, <1>3, <1>4, SendingStays, FeedElsewhere

\* What callers of read(), stop() and the other end do besides
LEMMA OthersFeed ==
    ASSUME \/ \E k \in Consumers : Receive(k) \/ ReceiveFails(k)
           \/ Stop \/ Stopped \/ Serve \/ Push \/ PeerCloses
           \/ UNCHANGED vars
    PROVE  [Feed!Next]_(Feed!feed)
<1>1. UNCHANGED <<pc, batch, queue, delivered>>
  BY DEF Receive, ReceiveFails, Stop, Stopped, Serve, Push, PeerCloses, vars,
         channelVars
<1>2. Sending' = Sending
  BY <1>1 DEF Sending
<1>3. CASE Stop
  <2>1. Unsent' = Unsent
    BY <1>1, <1>2 DEF Unsent
  <2> QED  BY <1>1, <1>3, <2>1 DEF Stop, linkVars, Feed!Next, Feed!Close
<1>4. CASE ~ Stop
  <2>1. UNCHANGED closed
    BY <1>4 DEF Receive, ReceiveFails, Stopped, Serve, Push, PeerCloses, vars,
                channelVars
  <2> QED  BY <1>1, <1>2, <2>1, FeedElsewhere
<1> QED  BY <1>3, <1>4

LEMMA NextFeeds ==
    ASSUME TypeOK, HasUnsent, Alone, [Next]_vars
    PROVE  [Feed!Next]_(Feed!feed)
<1>1. CASE \E p \in Coroutines : Step(p)
  BY <1>1, StepFeeds
<1>2. CASE \E s \in Senders : Send(s) \/ Write(s)
  BY <1>2, SenderFeeds
<1>3. CASE \E r \in Readers : Start(r) \/ Loop(r) \/ ReadAborted(r) \/ ReadFails(r)
  BY <1>3, LoopFeeds
<1>4. CASE \E r \in Readers : Read(r)
  BY <1>4, ReadTakes
<1>5. CASE \E r \in Readers : Publish(r)
  BY <1>5, PublishKeepsPlace
<1>6. CASE \E k \in Consumers : Received(k)
  BY <1>6, ReceivedDelivers
<1>7. CASE \/ \E k \in Consumers : Receive(k) \/ ReceiveFails(k)
           \/ Stop \/ Stopped \/ Serve \/ Push \/ PeerCloses
           \/ UNCHANGED vars
  BY <1>7, OthersFeed
<1> QED  BY <1>1, <1>2, <1>3, <1>4, <1>5, <1>6, <1>7
         DEF Next, ReaderStep, SenderStep, Coroutines

\* As long as start() takes effect at most twice, and not while a stop() waits
\* for a reader, read() hands over what the reader takes from the socket, each
\* message once and in the order it came, whatever is lost, closed or full
\* (subscriber.cpp:109-173): the subscriber implements MessageFeed.
THEOREM SubscriberFeeds ==
    ASSUME \A r, q, s \in Readers : r = q \/ q = s \/ r = s
    PROVE  Spec /\ [](revived = {}) => ImplementsFeed
<1>1. Spec => []OneReads
  BY ReaderIsAlone
<1>2. TypeOK /\ HasUnsent /\ Alone /\ [Next]_vars => [Feed!Next]_(Feed!feed)
  BY NextFeeds
<1>3. OneReads /\ revived = {} => Alone
  BY DEF OneReads
<1> QED
  BY <1>1, <1>2, <1>3, InitFeed, TypedInvariant, PTL
  DEF Spec, ImplementsFeed, Feed!Spec

=============================================================================
