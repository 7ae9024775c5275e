----------------------------- MODULE Subscriber -----------------------------
(***************************************************************************)
(* redis::redis_subscriber (subscriber.cpp) on its one connection          *)
(* (subscriber_connection.cpp).                                            *)
(*                                                                         *)
(* Coroutines that share the connection: the readers that start() spawns   *)
(* and the calls that send a command. Whoever finds it down connects it,   *)
(* the others wait. A reader moves what it reads into a bounded channel,   *)
(* from which calls of read() take it; stop() closes the channel, cancels  *)
(* the socket and waits for the reader. One action is what a coroutine     *)
(* runs from one co_await to the next that suspends it. The socket, the    *)
(* channel, the latch and the server are modelled from how the code uses   *)
(* them.                                                                   *)
(***************************************************************************)
EXTENDS Naturals, Sequences, FiniteSets, SequencesExt

CONSTANTS
    Readers,      \* the coroutines that calls of start() may spawn
    Senders,      \* the calls of ping(), subscribe(), ..., reset()
    Topics,       \* channels and patterns
    Command,      \* Command[s]: the verb and the topic of the call s
    Consumers,    \* the calls of read()
    Nobody,       \* the sender of AUTH
    Capacity,     \* messages the channel holds
    Password,     \* auth_client is attached to the connection
    StopWhen,     \* stop() is called once "started", or at "any" time
    MaxStops,     \* how often stop() is called
    MaxPushes,    \* how many messages are published to the channels
    MaxFaults     \* how many network and server faults happen

Verbs == {"ping", "subscribe", "unsubscribe", "psubscribe", "punsubscribe", "reset"}

ASSUME SubscriberAssumption ==
    /\ Nobody \notin Senders
    /\ Readers \cap Senders = {}
    /\ Command \in [Senders -> [verb : Verbs, topic : Topics]]
    /\ Capacity \in Nat \ {0}
    /\ Password \in BOOLEAN
    /\ StopWhen \in {"started", "any"}
    /\ MaxStops \in Nat
    /\ MaxPushes \in Nat
    /\ MaxFaults \in Nat

VARIABLES
    pc,            \* pc[p]: the co_await the coroutine p is suspended at
    batch,         \* batch[r]: replies parse_buffer has still to send
    cancelled,     \* coroutines whose socket operation was cancelled
    read_messages, \* read_messages_
    latch,         \* latch_.value()
    stopped,       \* how many calls of stop() have returned
    revived,       \* history: readers a stop() waits for while start() is called
    found,         \* history: readers that are in a read when stop() is called
    connecting,    \* connecting_
    link,          \* "broken" when the peer is gone and nobody noticed
    trusted,       \* the server accepted AUTH on this link
    inbox,         \* commands the server has still to run
    stream,        \* messages the client has still to read
    subscribed,    \* channels and patterns the server has for this link
    queue, closed, \* message_queue_: its buffer, and close() was called
    taken,         \* taken[k]: what the call k of read() is doing
    delivered,     \* history: all that read() returned, in order
    swallowed,     \* history: replies to senders that auth_client consumed
    stops, pushes, faults \* counters bounded by MaxStops, MaxPushes, MaxFaults

stopVars    == <<cancelled, read_messages, latch, stopped, revived, found>>
linkVars    == <<link, trusted, inbox, stream, subscribed>>
channelVars == <<queue, closed, taken, delivered>>
counterVars == <<stops, pushes, faults>>
vars == <<pc, batch, stopVars, connecting, linkVars, channelVars,
          swallowed, counterVars>>

Coroutines == Readers \cup Senders
Subscription == {"channel", "pattern"} \X Topics
Message == [kind : {"auth", "denied", "reply", "push"},
            of : Senders \cup {Nobody} \cup Subscription]

\* The phases of async_connect that the coroutine that set connecting_ is in
Authenticating == {"auth", "reauth"}
Connecting == Authenticating \cup {"connect", "backoff", "reconnect"}
Active == Connecting \cup {"loop", "wait", "read", "publish", "blocked"}

TypeOK ==
    /\ pc \in [Coroutines -> Active \cup {"new", "write", "finished"}]
    /\ batch \in [Readers -> Seq(Message)]
    /\ cancelled \subseteq Coroutines
    /\ read_messages \in BOOLEAN
    /\ latch \in {0, 1}
    /\ stopped \in 0..stops
    /\ revived \subseteq Readers
    /\ found \subseteq Readers
    /\ connecting \in BOOLEAN
    /\ link \in {"down", "up", "broken"}
    /\ trusted \in BOOLEAN
    /\ inbox \in Seq(Senders \cup {Nobody})
    /\ stream \in Seq(Message)
    /\ subscribed \subseteq Subscription
    /\ queue \in Seq(Message) /\ Len(queue) <= Capacity
    /\ closed \in BOOLEAN
    /\ taken \in [Consumers -> {"new", "waiting", "message", "error"}]
    /\ delivered \in Seq(Message)
    /\ swallowed \subseteq Senders
    /\ stops \in 0..MaxStops
    /\ pushes \in 0..MaxPushes
    /\ faults \in 0..MaxFaults

Init ==
    /\ pc = [p \in Coroutines |-> "new"]
    /\ batch = [r \in Readers |-> <<>>]
    /\ cancelled = {}
    /\ read_messages = FALSE
    /\ latch = 1
    /\ stopped = 0
    /\ revived = {}
    /\ found = {}
    /\ connecting = FALSE
    /\ link = "down"
    /\ trusted = FALSE
    /\ inbox = <<>>
    /\ stream = <<>>
    /\ subscribed = {}
    /\ queue = <<>>
    /\ closed = FALSE
    /\ taken = [k \in Consumers |-> "new"]
    /\ delivered = <<>>
    /\ swallowed = {}
    /\ stops = 0
    /\ pushes = 0
    /\ faults = 0

-----------------------------------------------------------------------------
(* The connection.                                                         *)

Connected == link # "down"
Running == latch # 0 /\ read_messages
ActiveReaders == {r \in Readers : pc[r] \in Active}
Stopping == stopped < stops     \* a call of stop() waits for the latch
Fault == faults < MaxFaults /\ faults' = faults + 1

\* What a coroutine does with the connection that get() returns
UseOf(p) == IF p \in Readers THEN "read" ELSE "write"

\* Mutant of GetConnection: connecting_ is not looked at
GetConnectionTwice(p) ==
    /\ pc' = [pc EXCEPT ![p] = IF Connected' THEN UseOf(p) ELSE "connect"]
    /\ connecting' = (connecting \/ ~ Connected')

\* get(): the connection if it is connected; else the coroutine that sets
\* connecting_ connects it and the others wait until it is connected
GetConnection(p) ==
    /\ pc' = [pc EXCEPT ![p] = IF Connected' THEN UseOf(p)
                               ELSE IF connecting THEN "wait" ELSE "connect"]
    /\ connecting' = (connecting \/ ~ Connected')

\* Mutant of LeaveConnect: connecting_ stays set
LeaveConnectSet(p) ==
    /\ pc' = [pc EXCEPT ![p] = UseOf(p)]
    /\ UNCHANGED connecting

\* The end of async_connect, also of one that was aborted
LeaveConnect(p) ==
    /\ pc' = [pc EXCEPT ![p] = UseOf(p)]
    /\ connecting' = FALSE

Drop ==
    /\ link' = "down"
    /\ trusted' = FALSE
    /\ inbox' = <<>>
    /\ stream' = <<>>
    /\ subscribed' = {}

\* A socket is connected. With a password, auth_client is called, writes AUTH
\* (its own send() finds the connection connected) and waits for the answer.
\* wait_for(connected) ends for the others, who do not wait for the login.
Connect(p) ==
    /\ pc[p] \in {"connect", "reconnect"}
    /\ ~ Connected
    /\ link' = "up"
    /\ inbox' = IF Password THEN <<Nobody>> ELSE <<>>
    /\ pc' = [q \in Coroutines |->
                 IF q = p /\ Password
                 THEN IF pc[p] = "connect" THEN "auth" ELSE "reauth"
                 ELSE IF q = p \/ pc[q] = "wait" THEN UseOf(q) ELSE pc[q]]
    /\ connecting' = Password
    /\ cancelled' = cancelled \ {p}
    /\ UNCHANGED <<batch, read_messages, latch, stopped, revived, found,
                   trusted, stream, subscribed, channelVars, swallowed,
                   counterVars>>

\* An attempt fails: the loop waits and tries again
ConnectFails(p) ==
    /\ pc[p] \in {"connect", "reconnect"}
    /\ Fault
    /\ pc' = [pc EXCEPT ![p] = "backoff"]
    /\ cancelled' = cancelled \ {p}
    /\ UNCHANGED <<batch, read_messages, latch, stopped, revived, found,
                   connecting, linkVars, channelVars, swallowed, stops, pushes>>

\* A cancelled attempt: the first one is repeated, a later one ends
\* async_connect, and get() returns a connection that is not connected
ConnectAborted(p) ==
    /\ pc[p] \in {"connect", "reconnect"}
    /\ p \in cancelled
    /\ IF pc[p] = "connect"
       THEN pc' = [pc EXCEPT ![p] = "backoff"] /\ UNCHANGED connecting
       ELSE LeaveConnect(p)
    /\ cancelled' = cancelled \ {p}
    /\ UNCHANGED <<batch, read_messages, latch, stopped, revived, found,
                   linkVars, channelVars, swallowed, counterVars>>

\* The timer of the loop; connected() may have become true meanwhile
BackOff(p) ==
    /\ pc[p] = "backoff"
    /\ pc' = [pc EXCEPT ![p] = "reconnect"]
    /\ UNCHANGED <<batch, stopVars, connecting, linkVars, channelVars,
                   swallowed, counterVars>>

\* auth_client reads, looks at the first reply only, and drops the rest
Auth(p) ==
    /\ pc[p] \in Authenticating
    /\ \E n \in 1..Len(stream) :
          /\ swallowed' = swallowed \cup
                {stream[i].of : i \in {j \in 1..n : stream[j].of \in Senders}}
          /\ IF stream[1].kind = "denied"
             THEN /\ Drop
                  /\ pc' = [pc EXCEPT ![p] = "backoff"]
                  /\ UNCHANGED connecting
             ELSE /\ stream' = SubSeq(stream, n + 1, Len(stream))
                  /\ LeaveConnect(p)
                  /\ UNCHANGED <<link, trusted, inbox, subscribed>>
    /\ cancelled' = cancelled \ {p}
    /\ UNCHANGED <<batch, read_messages, latch, stopped, revived, found,
                   channelVars, counterVars>>

\* The read of auth_client fails: the handler fails the connection attempt,
\* and a cancelled one that is not the first ends async_connect
AuthFails(p) ==
    /\ pc[p] \in Authenticating
    /\ p \in cancelled \/ (link # "up" /\ stream = <<>>)
    /\ Drop
    /\ IF p \in cancelled /\ pc[p] = "reauth"
       THEN LeaveConnect(p)
       ELSE pc' = [pc EXCEPT ![p] = "backoff"] /\ UNCHANGED connecting
    /\ cancelled' = cancelled \ {p}
    /\ UNCHANGED <<batch, read_messages, latch, stopped, revived, found,
                   channelVars, swallowed, counterVars>>

-----------------------------------------------------------------------------
(* Commands: subscribe(), ping() and their like.                           *)

\* ping() of a subscriber that is not running returns at once; the others send
\* whether it runs or not
Send(s) ==
    /\ pc[s] = "new"
    /\ UNCHANGED <<batch, stopVars, linkVars, channelVars, swallowed,
                   counterVars>>
    /\ IF Command[s].verb # "ping" \/ Running
       THEN GetConnection(s)
       ELSE pc' = [pc EXCEPT ![s] = "finished"] /\ UNCHANGED connecting

\* The write reaches the server, or a broken link takes it, or it fails
Write(s) ==
    /\ pc[s] = "write"
    /\ \/ /\ link = "up"
          /\ inbox' = Append(inbox, s)
          /\ UNCHANGED <<link, trusted, stream, subscribed>>
       \/ link = "broken" /\ UNCHANGED linkVars
       \/ link # "up" /\ Drop
    /\ pc' = [pc EXCEPT ![s] = "finished"]
    /\ UNCHANGED <<batch, stopVars, connecting, channelVars, swallowed,
                   counterVars>>

-----------------------------------------------------------------------------
(* The reader.                                                             *)

\* Mutant of Start: running() is not asked
StartAgain(r) ==
    /\ pc[r] = "new"
    /\ read_messages' = TRUE
    /\ revived' = IF Stopping THEN revived \cup ActiveReaders ELSE revived
    /\ pc' = [pc EXCEPT ![r] = "loop"]
    /\ UNCHANGED <<batch, cancelled, latch, stopped, found, connecting,
                   linkVars, channelVars, swallowed, counterVars>>

\* start(): nothing while running() is true, else one more reader. stop() clears
\* read_messages_ before it waits: a start() meanwhile adds a reader, and those
\* that stop() waits for go on.
Start(r) ==
    /\ pc[r] = "new"
    /\ ~ Running
    /\ read_messages' = TRUE
    /\ revived' = IF Stopping THEN revived \cup ActiveReaders ELSE revived
    /\ pc' = [pc EXCEPT ![r] = "loop"]
    /\ UNCHANGED <<batch, cancelled, latch, stopped, found, connecting,
                   linkVars, channelVars, swallowed, counterVars>>

\* The latch is counted down to zero, and stays there the next time
Finish(r) ==
    /\ pc' = [pc EXCEPT ![r] = "finished"]
    /\ latch' = 0
    /\ UNCHANGED connecting

\* The head of the loop in read_messages
Continue(r) ==
    IF read_messages THEN GetConnection(r) /\ UNCHANGED latch ELSE Finish(r)

Loop(r) ==
    /\ pc[r] = "loop"
    /\ UNCHANGED <<batch, cancelled, read_messages, stopped, revived, found,
                   linkVars, channelVars, swallowed, counterVars>>
    /\ Continue(r)

\* async_read_some returns some of the messages under way
Read(r) ==
    /\ pc[r] = "read"
    /\ \E n \in 1..Len(stream) :
          /\ batch' = [batch EXCEPT ![r] = SubSeq(stream, 1, n)]
          /\ stream' = SubSeq(stream, n + 1, Len(stream))
    /\ pc' = [pc EXCEPT ![r] = "publish"]
    /\ cancelled' = cancelled \ {r}
    /\ UNCHANGED <<read_messages, latch, stopped, revived, found, connecting,
                   link, trusted, inbox, subscribed, channelVars, swallowed,
                   counterVars>>

\* The read was cancelled: the reader ends
ReadAborted(r) ==
    /\ pc[r] = "read"
    /\ r \in cancelled
    /\ Finish(r)
    /\ cancelled' = cancelled \ {r}
    /\ UNCHANGED <<batch, read_messages, stopped, revived, found, linkVars,
                   channelVars, swallowed, counterVars>>

\* Mutant of ReadFails: every error of a read ends the reader
ReadFailsEnds(r) ==
    /\ pc[r] = "read"
    /\ link # "up" /\ stream = <<>>
    /\ Drop
    /\ Finish(r)
    /\ cancelled' = cancelled \ {r}
    /\ UNCHANGED <<batch, read_messages, stopped, revived, found, channelVars,
                   swallowed, counterVars>>

\* Mutant of ReadFails: an error of a read leaves the latch alone
ReadFailsReturns(r) ==
    /\ pc[r] = "read"
    /\ link # "up" /\ stream = <<>>
    /\ Drop
    /\ pc' = [pc EXCEPT ![r] = "finished"]
    /\ cancelled' = cancelled \ {r}
    /\ UNCHANGED <<batch, read_messages, latch, stopped, revived, found,
                   connecting, channelVars, swallowed, counterVars>>

\* The read fails or returns 0 bytes: the reader starts over
ReadFails(r) ==
    /\ pc[r] = "read"
    /\ link # "up" /\ stream = <<>>
    /\ Drop
    /\ Continue(r)
    /\ cancelled' = cancelled \ {r}
    /\ UNCHANGED <<batch, read_messages, stopped, revived, found, channelVars,
                   swallowed, counterVars>>

\* Mutant of Publish: a full channel drops the message
PublishOrDrop(r) ==
    /\ pc[r] = "publish"
    /\ UNCHANGED <<cancelled, read_messages, stopped, revived, found, closed,
                   taken, linkVars, delivered, swallowed, counterVars>>
    /\ ~ closed
    /\ queue' = IF Len(queue) < Capacity THEN Append(queue, Head(batch[r]))
                ELSE queue
    /\ batch' = [batch EXCEPT ![r] = Tail(@)]
    /\ IF Len(batch[r]) = 1 THEN Continue(r)
       ELSE UNCHANGED <<pc, connecting, latch>>

\* Mutant of Publish: the capacity of the channel is not looked at
PublishUnbounded(r) ==
    /\ pc[r] = "publish"
    /\ UNCHANGED <<cancelled, read_messages, stopped, revived, found, closed,
                   taken, linkVars, delivered, swallowed, counterVars>>
    /\ ~ closed
    /\ queue' = Append(queue, Head(batch[r]))
    /\ batch' = [batch EXCEPT ![r] = Tail(@)]
    /\ IF Len(batch[r]) = 1 THEN Continue(r)
       ELSE UNCHANGED <<pc, connecting, latch>>

\* async_send of the next reply: a closed channel ends the reader, a full one
\* suspends it
Publish(r) ==
    /\ pc[r] = "publish"
    /\ UNCHANGED <<cancelled, read_messages, stopped, revived, found,
                   linkVars, closed, taken, delivered, swallowed, counterVars>>
    /\ CASE closed -> Finish(r) /\ UNCHANGED <<batch, queue>>
         [] ~ closed /\ Len(queue) < Capacity ->
               /\ queue' = Append(queue, Head(batch[r]))
               /\ batch' = [batch EXCEPT ![r] = Tail(@)]
               /\ IF Len(batch[r]) = 1 THEN Continue(r)
                  ELSE UNCHANGED <<pc, connecting, latch>>
         [] OTHER ->
               /\ pc' = [pc EXCEPT ![r] = "blocked"]
               /\ UNCHANGED <<batch, queue, connecting, latch>>

-----------------------------------------------------------------------------
(* read(), and the channel it waits on.                                    *)

Receive(k) ==
    /\ taken[k] = "new"
    /\ taken' = [taken EXCEPT ![k] = "waiting"]
    /\ UNCHANGED <<pc, batch, stopVars, connecting, linkVars, queue, closed,
                   delivered, swallowed, counterVars>>

\* A message is handed over; a send that the full channel suspended takes the
\* place, also when the channel was closed meanwhile
Received(k) ==
    /\ taken[k] = "waiting"
    /\ queue # <<>>
    /\ taken' = [taken EXCEPT ![k] = "message"]
    /\ delivered' = Append(delivered, Head(queue))
    /\ \/ /\ \A r \in Readers : pc[r] # "blocked"
          /\ queue' = Tail(queue)
          /\ UNCHANGED <<batch, pc>>
       \/ \E r \in Readers :
          /\ pc[r] = "blocked"
          /\ queue' = Append(Tail(queue), Head(batch[r]))
          /\ batch' = [batch EXCEPT ![r] = Tail(@)]
          /\ pc' = [pc EXCEPT ![r] =
                       IF Len(batch[r]) = 1 THEN "loop" ELSE "publish"]
    /\ UNCHANGED <<stopVars, connecting, linkVars, closed, swallowed,
                   counterVars>>

\* A closed channel without messages ends the call with an error
ReceiveFails(k) ==
    /\ taken[k] = "waiting"
    /\ closed /\ queue = <<>>
    /\ taken' = [taken EXCEPT ![k] = "error"]
    /\ UNCHANGED <<pc, batch, stopVars, connecting, linkVars, queue, closed,
                   delivered, swallowed, counterVars>>

-----------------------------------------------------------------------------
(* stop().                                                                 *)

\* When the callers of an instance call stop()
MayStop ==
    /\ stops < MaxStops
    /\ StopWhen = "started" => \E r \in Readers : pc[r] # "new"

\* The awaits at which a read of the socket is pending
Cancellable == Authenticating \cup {"read"}

\* socket().cancel(), or the end of the socket, reaches the reads that are
\* pending and, past the resolver, a pending connect; it reaches no timer, no
\* wait for the connected state and no operation begun later
Cancel ==
    \E pending \in SUBSET {p \in Coroutines : pc[p] \in {"connect", "reconnect"}} :
        cancelled' = cancelled \cup pending \cup
                       {p \in Coroutines : pc[p] \in Cancellable}

\* Mutant of Stop: the socket is not cancelled
StopWithoutCancel ==
    /\ MayStop
    /\ stops' = stops + 1
    /\ read_messages' = FALSE
    /\ found' = {r \in Readers : pc[r] = "read"}
    /\ closed' = TRUE
    /\ UNCHANGED <<cancelled, pc, batch, latch, stopped, revived, connecting,
                   linkVars, queue, taken, delivered, swallowed, pushes,
                   faults>>

\* Mutant of Stop: the channel is not closed
StopWithoutClose ==
    /\ MayStop
    /\ stops' = stops + 1
    /\ read_messages' = FALSE
    /\ found' = {r \in Readers : pc[r] = "read"}
    /\ Cancel
    /\ UNCHANGED <<closed, pc, batch, latch, stopped, revived, connecting,
                   linkVars, queue, taken, delivered, swallowed, pushes,
                   faults>>

\* stop() up to the wait for the latch
Stop ==
    /\ MayStop
    /\ stops' = stops + 1
    /\ read_messages' = FALSE
    /\ found' = {r \in Readers : pc[r] = "read"}
    /\ closed' = TRUE
    /\ Cancel
    /\ UNCHANGED <<pc, batch, latch, stopped, revived, connecting, linkVars,
                   queue, taken, delivered, swallowed, pushes, faults>>

\* Mutant of Stopped: stop() does not wait for the latch
StoppedAtOnce ==
    /\ Stopping
    /\ stopped' = stopped + 1
    /\ Drop
    /\ Cancel
    /\ UNCHANGED <<pc, batch, read_messages, latch, revived, found,
                   connecting, channelVars, swallowed, counterVars>>

\* The latch is down: stop() disconnects and returns
Stopped ==
    /\ Stopping
    /\ latch = 0
    /\ stopped' = stopped + 1
    /\ Drop
    /\ Cancel
    /\ UNCHANGED <<pc, batch, read_messages, latch, revived, found,
                   connecting, channelVars, swallowed, counterVars>>

-----------------------------------------------------------------------------
(* The server and the network.                                             *)

\* The server runs a command. It accepts AUTH, or rejects it as a fault, and
\* denies every command but RESET before that when there is a password. RESET
\* ends all subscriptions and the login.
Subscribed(call) ==
    CASE call.verb = "subscribe"    -> subscribed \cup {<<"channel", call.topic>>}
      [] call.verb = "psubscribe"   -> subscribed \cup {<<"pattern", call.topic>>}
      [] call.verb = "unsubscribe"  -> subscribed \ {<<"channel", call.topic>>}
      [] call.verb = "punsubscribe" -> subscribed \ {<<"pattern", call.topic>>}
      [] call.verb = "ping"         -> subscribed
      [] call.verb = "reset"        -> {}

Serve ==
    LET s == Head(inbox) IN
    /\ link = "up"
    /\ inbox # <<>>
    /\ inbox' = Tail(inbox)
    /\ IF s = Nobody
       THEN \/ /\ trusted' = TRUE
               /\ stream' = Append(stream, [kind |-> "auth", of |-> Nobody])
               /\ UNCHANGED <<subscribed, faults>>
            \/ /\ Fault
               /\ stream' = Append(stream, [kind |-> "denied", of |-> Nobody])
               /\ UNCHANGED <<trusted, subscribed>>
       ELSE IF Password /\ ~ trusted /\ Command[s].verb # "reset"
       THEN /\ stream' = Append(stream, [kind |-> "denied", of |-> s])
            /\ UNCHANGED <<trusted, subscribed, faults>>
       ELSE /\ stream' = Append(stream, [kind |-> "reply", of |-> s])
            /\ subscribed' = Subscribed(Command[s])
            /\ trusted' = (trusted /\ Command[s].verb # "reset")
            /\ UNCHANGED faults
    /\ UNCHANGED <<pc, batch, stopVars, connecting, link, channelVars,
                   swallowed, stops, pushes>>

\* Somebody publishes a message that this link has subscribed to
Push ==
    /\ link = "up"
    /\ pushes < MaxPushes
    /\ pushes' = pushes + 1
    /\ \E s \in subscribed :
          stream' = Append(stream, [kind |-> "push", of |-> s])
    /\ UNCHANGED <<pc, batch, stopVars, connecting, link, trusted, inbox,
                   subscribed, channelVars, swallowed, stops, faults>>

\* The server closes the link: what is under way may still arrive
PeerCloses ==
    /\ link = "up"
    /\ Fault
    /\ link' = "broken"
    /\ inbox' = <<>>
    /\ subscribed' = {}
    /\ \E n \in 0..Len(stream) : stream' = SubSeq(stream, 1, n)
    /\ UNCHANGED <<pc, batch, stopVars, connecting, trusted, channelVars,
                   swallowed, stops, pushes>>

-----------------------------------------------------------------------------
Step(p) ==
    \/ Connect(p) \/ ConnectFails(p) \/ ConnectAborted(p)
    \/ BackOff(p) \/ Auth(p) \/ AuthFails(p)

ReaderStep(r) ==
    \/ Step(r) \/ Loop(r) \/ Read(r) \/ ReadAborted(r) \/ ReadFails(r)
    \/ Publish(r)

SenderStep(s) == Step(s) \/ Write(s)

Next ==
    \/ \E r \in Readers : Start(r) \/ ReaderStep(r)
    \/ \E s \in Senders : Send(s) \/ SenderStep(s)
    \/ \E k \in Consumers : Receive(k) \/ Received(k) \/ ReceiveFails(k)
    \/ Stop \/ Stopped
    \/ Serve \/ Push \/ PeerCloses

Spec == Init /\ [][Next]_vars

\* The executor resumes what is ready, the channel hands over what it has and
\* the server answers; nobody has to call anything, publish or break the link
Fairness ==
    /\ \A r \in Readers : WF_vars(ReaderStep(r))
    /\ \A s \in Senders : WF_vars(SenderStep(s))
    /\ \A k \in Consumers : WF_vars(Received(k) \/ ReceiveFails(k))
    /\ WF_vars(Stopped)
    /\ WF_vars(Serve)

FairSpec == Spec /\ Fairness

-----------------------------------------------------------------------------
(* Properties.                                                             *)

\* One coroutine connects at a time, and connecting_ is set exactly as long as
\* one does (subscriber_connection.cpp:53-102): an exit of async_connect that
\* left it set would make every later get() wait for ever.
OneConnects ==
    /\ \A p, q \in Coroutines :
          pc[p] \in Connecting /\ pc[q] \in Connecting => p = q
    /\ connecting <=> \E p \in Coroutines : pc[p] \in Connecting

\* What the active readers have parsed and not yet sent to the channel
Sending == {r \in Readers : pc[r] \in {"publish", "blocked"}}
Unsent == IF Sending = {} THEN <<>> ELSE batch[CHOOSE r \in Sending : TRUE]

\* read() returns what the reader takes from the socket, each message once and
\* in the order it came, through the full and the closed channel, across lost
\* links, and nothing is dropped before stop() (subscriber.cpp:109-173): the
\* subscriber implements MessageFeed.
Feed == INSTANCE MessageFeed WITH coming <- stream, pending <- queue \o Unsent
ImplementsFeed == Feed!Spec

\* Until stop() is called, running() tells whether a reader is there to take
\* messages (subscriber.cpp:109-141, 179-181; subscriber.hpp:121): none ends
\* with the latch up, on a lost link either.
RunningMeansReader ==
    stops = 0 => (Running <=> \E r \in Readers : pc[r] \in Active)

\* At most one reader takes messages from the socket, through start() called
\* twice, and called before or after stop(): two would mix up their order and
\* send pieces of one message apart (subscriber.cpp:67-76, 109-141, 179-181).
\* Not so when start() comes while a stop() waits for a reader, and from the
\* third start on, because the latch stays at zero.
Alone == \A r, q \in ActiveReaders : r = q
OneReads == revived = {} => Alone

\* When stop() has returned and start() has not been called since, nor during
\* its wait, no reader is left (subscriber.cpp:78-84, 109-141).
StopEndsActivity ==
    stops > 0 /\ ~ Stopping /\ ~ read_messages => ActiveReaders = {}

\* Why OneReads and StopEndsActivity hold until the second stop(): the latch is
\* up until the first reader ends, and until the first stop() none ends. A reader
\* that is sending has something to send.
HasUnsent == \A r \in Sending : batch[r] # <<>>

LatchGuards ==
    /\ latch = 1 => /\ stopped = 0
                    /\ revived = {} => Alone
                    /\ ActiveReaders # {} => read_messages \/ Stopping
    /\ latch = 0 => \E r \in Readers : pc[r] = "finished"

FirstRun ==
    stops = 0 => /\ latch = 1 /\ ~ closed /\ cancelled = {} /\ revived = {}
                 /\ read_messages <=> ActiveReaders # {}

FirstStop ==
    stops = 1 /\ ~ read_messages =>
        revived = {} /\ (latch = 0 => ActiveReaders = {})

\* The reply to a command of a caller is never consumed by the login: what the
\* test reads after its ping() on a connection with a password is the PONG
\* (redis_sub_test.cpp:79-82 run by SubscribePasswordTest).
RepliesReachReader == swallowed = {}

\* stop() returns.
StopReturns == Stopping ~> ~ Stopping

\* stop(), whenever it is called, returns but in three cases (subscriber.cpp:
\* 78-84, 116-120, 153). Nobody calls read() any more, and the reader stays
\* suspended in its send to a full channel for good: neither close() nor cancel()
\* wakes it. Or the reader is in a read that it began later, or waits for a
\* connection that nobody makes any more. Or there was no reader yet.
NobodyReads ==
    /\ \E r \in Readers : pc[r] = "blocked"
    /\ \A k \in Consumers : taken[k] # "waiting"
Stranded(p) == pc[p] = "wait" /\ ~ connecting
Overlooked ==
    \E r \in Readers : Stranded(r) \/ (pc[r] = "read" /\ r \notin found)
NeverStarted == \A r \in Readers : pc[r] = "new"
StopReturnsUnlessLeft ==
    Stopping ~> (~ Stopping \/ []NobodyReads \/ []Overlooked \/ []NeverStarted)

\* A read() that waits when stop() is called, or is called later, returns
\* (subscriber.cpp:80 and 163-173).
ReadReturns ==
    \A k \in Consumers :
        taken[k] = "waiting" /\ stops > 0
            ~> taken[k] \in {"message", "error"}

\* A lost connection is replaced and the reader goes on, until stop() or until
\* nobody takes what it has read (subscriber_connection.cpp:53-102).
ReaderRecovers ==
    \A r \in Readers :
        pc[r] \in Active /\ link # "up"
            ~> \/ link = "up"
               \/ pc[r] = "blocked"
               \/ closed

\* A command that a caller sends is written or fails, unless the coroutine that
\* connected was cancelled by stop(): that one leaves async_connect without a
\* connection, and nothing wakes those who wait for it until another call
\* connects (subscriber_connection.cpp:57-61, 85-88).
SendReturns ==
    \A s \in Senders :
        pc[s] \in Active ~> (pc[s] = "finished" \/ (stops > 0 /\ []Stranded(s)))
=============================================================================
