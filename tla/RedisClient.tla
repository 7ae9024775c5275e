---------------------------- MODULE RedisClient ----------------------------
(***************************************************************************)
(* redis::client (client.cpp): calls of send() that share a pool of TCP    *)
(* connections to one server.                                              *)
(*                                                                         *)
(* A call is a coroutine; it gives up the executor only at a co_await, so  *)
(* one action is what a coroutine runs from one co_await to the next.      *)
(* The pool (cpool::connection_pool), the sockets and the server are not   *)
(* in the repository: they are modelled from how client.cpp uses them.     *)
(*                                                                         *)
(* Replies under way are fragments, of ReplyFragments.                     *)
(***************************************************************************)
EXTENDS ReplyFragments, FiniteSets

CONSTANTS
    Requests,        \* the calls of send(command) and send(commands)
    Pipelined,       \* the ones that are calls of send(commands)
    Size,            \* Size[r]: how many commands the call r sends
    Slots, NoSlot,   \* the connection objects a pool may own; none of them
    AuthCall,        \* stands for the AUTH exchange of a new connection
    Delivery,        \* what one read returns: "batch", "reply" or "byte"
    Configs,         \* the client_config values: [limit, password]
    MaxConfigs,      \* how often set_config is called
    BusyReconfigure, \* set_config may be called while a call is in flight
    MaxFaults        \* how many network and server faults happen

ASSUME RequestsAssumption ==
    /\ AuthCall \notin Requests
    /\ NoCall \notin Requests \cup {AuthCall}
    /\ Pipelined \subseteq Requests
    /\ Size \in [Requests -> Nat]
    /\ \A r \in Requests \ Pipelined : Size[r] = 1

ASSUME EnvironmentAssumption ==
    /\ NoSlot \notin Slots
    /\ Delivery \in {"batch", "reply", "byte"}
    /\ Configs \subseteq [limit : Nat, password : BOOLEAN]
    /\ MaxConfigs \in Nat
    /\ MaxFaults \in Nat
    /\ BusyReconfigure \in BOOLEAN

VARIABLES
    pc,        \* pc[r]: the co_await the call r is suspended at
    conn,      \* conn[r]: the connection it borrowed from the pool
    outcome,   \* outcome[r]: the replies it returned
    executed,  \* executed[r]: how many of its commands the server ran
    slot,      \* slot[c]: what the pool does with the connection c
    link,      \* link[c]: "broken" when the peer is gone unnoticed
    trusted,   \* trusted[c]: the server accepted AUTH on this link
    inbox,     \* inbox[c]: commands the server has still to run
    stream,    \* stream[c]: replies the client has still to read
    config,    \* client::config_
    configs,   \* calls of set_config so far (bounded by MaxConfigs)
    faults     \* faults so far (bounded by MaxFaults)

callVars == <<pc, conn, outcome>>
linkVars == <<link, trusted, inbox, stream>>
vars == <<callVars, executed, slot, linkVars, config, configs, faults>>

Calls == Requests \cup {AuthCall}
Command == [call : Calls, n : Nat]
Fragment == [call : Calls, n : Nat, form : {"whole", "head", "tail"},
             ok : BOOLEAN]

Reply == [kind : ReplyKind, call : Calls \cup {NoCall}, n : Nat]

\* The awaits of a call that has a connection, and of one that waits for it
Holding == {"connect", "auth_write", "auth_read", "write", "read"}
InFlight == Holding \cup {"acquire"}

TypeOK ==
    /\ pc \in [Requests -> InFlight \cup {"new", "done", "lost"}]
    /\ conn \in [Requests -> Slots \cup {NoSlot}]
    /\ outcome \in [Requests -> Seq(Reply)]
    /\ executed \in [Requests -> Nat]
    /\ slot \in [Slots -> {"absent", "idle", "busy"}]
    /\ link \in [Slots -> {"down", "up", "broken"}]
    /\ trusted \in [Slots -> BOOLEAN]
    /\ inbox \in [Slots -> Seq(Command)]
    /\ stream \in [Slots -> Seq(Fragment)]
    /\ config \in Configs
    /\ configs \in 0..MaxConfigs
    /\ faults \in 0..MaxFaults

Init ==
    /\ pc = [r \in Requests |-> "new"]
    /\ conn = [r \in Requests |-> NoSlot]
    /\ outcome = [r \in Requests |-> <<>>]
    /\ executed = [r \in Requests |-> 0]
    /\ slot = [c \in Slots |-> "absent"]
    /\ link = [c \in Slots |-> "down"]
    /\ trusted = [c \in Slots |-> FALSE]
    /\ inbox = [c \in Slots |-> <<>>]
    /\ stream = [c \in Slots |-> <<>>]
    /\ config \in Configs
    /\ configs = 0
    /\ faults = 0

-----------------------------------------------------------------------------
(* What the bytes of one read become.                                      *)

\* serialized_command() of every command of the call, one after the other
CommandsOf(r) == [n \in 1..Size[r] |-> [call |-> r, n |-> n]]

\* The same local error for the call, or for each command of a pipeline
Failed(r, kind) ==
    [n \in 1..(IF r \in Pipelined THEN Size[r] ELSE 1) |->
        [kind |-> kind, call |-> r, n |-> n]]

\* A fragment that a read cuts in two
Part(f, form) == [call |-> f.call, n |-> f.n, form |-> form, ok |-> f.ok]
Taken(f) == Part(f, IF f.form = "tail" THEN "tail" ELSE "head")
Left(f) == Part(f, "tail")

\* The buffers one async_read_some may return, each with what it leaves in
\* the socket: everything the commands sent so far produce, some replies, or
\* some bytes
ReadsOf(c) ==
    LET wait  == stream[c]
        Front(n) == SubSeq(wait, 1, n)
        Rest(n)  == SubSeq(wait, n + 1, Len(wait))
        Cut(n)   == [buffer |-> Append(Front(n - 1), Taken(wait[n])),
                     rest   |-> <<Left(wait[n])>> \o Rest(n)]
        Replies(n) == [buffer |-> Front(n), rest |-> Rest(n)]
    IN  CASE Delivery = "batch" ->
               {Replies(n) : n \in {m \in {Len(wait)} :
                                      m > 0 /\ inbox[c] = <<>>}}
          [] Delivery = "reply" -> {Replies(n) : n \in 1..Len(wait)}
          [] Delivery = "byte"  -> {Replies(n) : n \in 1..Len(wait)}
                                     \cup {Cut(n) : n \in 1..Len(wait)}

-----------------------------------------------------------------------------
(* The pool and the links.                                                 *)

Fault == faults < MaxFaults /\ faults' = faults + 1
NoFault == UNCHANGED faults

\* async_write of the commands: an established link takes them to the server,
\* a broken one swallows them
Send(c, commands) ==
    /\ link[c] # "down"
    /\ inbox' = IF link[c] = "up"
                THEN [inbox EXCEPT ![c] = @ \o commands] ELSE inbox
    /\ UNCHANGED <<link, trusted, stream>>

\* An I/O error, or an error of the connected handler, closes the socket
Drop(c) ==
    /\ link' = [link EXCEPT ![c] = "down"]
    /\ trusted' = [trusted EXCEPT ![c] = FALSE]
    /\ inbox' = [inbox EXCEPT ![c] = <<>>]
    /\ stream' = [stream EXCEPT ![c] = <<>>]

\* Mutant of Return: no release_connection
ReturnLeaks(r, replies) ==
    /\ outcome' = [outcome EXCEPT ![r] = replies]
    /\ pc' = [pc EXCEPT ![r] = "done"]
    /\ conn' = [conn EXCEPT ![r] = NoSlot]
    /\ UNCHANGED slot

\* The scope guard of send(): the connection goes back, the call returns
Return(r, replies) ==
    /\ outcome' = [outcome EXCEPT ![r] = replies]
    /\ pc' = [pc EXCEPT ![r] = "done"]
    /\ conn' = [conn EXCEPT ![r] = NoSlot]
    /\ slot' = [c \in Slots |-> IF c = conn[r] THEN "idle" ELSE slot[c]]

Goto(r, where) ==
    /\ pc' = [pc EXCEPT ![r] = where]
    /\ UNCHANGED <<conn, outcome, slot>>

-----------------------------------------------------------------------------
(* The calls.                                                              *)

\* send() runs up to the wait for a connection
Call(r) ==
    /\ pc[r] = "new"
    /\ Goto(r, "acquire")
    /\ UNCHANGED <<executed, linkVars, config, configs, faults>>

\* get_connection: an idle connection, or a new one below max_connections
Available(c) ==
    \/ slot[c] = "idle"
    \/ /\ slot[c] = "absent"
       /\ \A d \in Slots : slot[d] # "idle"
       /\ Cardinality({d \in Slots : slot[d] # "absent"}) < config.limit

Take(r, c) ==
    /\ pc[r] = "acquire"
    /\ Available(c)
    /\ slot' = [slot EXCEPT ![c] = "busy"]
    /\ conn' = [conn EXCEPT ![r] = c]
    /\ pc' = [pc EXCEPT ![r] = IF link[c] = "down" THEN "connect" ELSE "write"]
    /\ UNCHANGED <<outcome, executed, linkVars, config, configs, faults>>

\* get_connection gives up and returns nullptr
NullConnection(r) ==
    /\ pc[r] \in {"acquire", "connect"}
    /\ Fault
    /\ Return(r, Failed(r, "client_stopped"))
    /\ UNCHANGED <<executed, linkVars, config, configs>>

\* A socket is connected; connection_ctor attached auth_client to it when
\* there is a password, and the pool hands it out after that handler
Connect(r) ==
    LET c == conn[r] IN
    /\ pc[r] = "connect"
    /\ link' = [link EXCEPT ![c] = "up"]
    /\ Goto(r, IF config.password THEN "auth_write" ELSE "write")
    /\ UNCHANGED <<executed, trusted, inbox, stream, config, configs, faults>>

\* The connection is refused; the pool tries again
ConnectFails(r) ==
    /\ pc[r] = "connect"
    /\ Fault
    /\ UNCHANGED <<callVars, executed, slot, linkVars, config, configs>>

\* auth_client writes AUTH
AuthWrite(r) ==
    /\ pc[r] = "auth_write"
    /\ Send(conn[r], <<[call |-> AuthCall, n |-> 1]>>)
    /\ Goto(r, "auth_read")
    /\ UNCHANGED <<executed, config, configs, faults>>

AuthWriteFails(r) ==
    LET c == conn[r] IN
    /\ pc[r] = "auth_write"
    /\ IF link[c] = "up" THEN Fault ELSE NoFault
    /\ Drop(c)
    /\ Goto(r, "connect")
    /\ UNCHANGED <<executed, config, configs>>

\* Mutant of Refused: the test of error() is inverted
Accepted(replies) == replies[1].kind \notin ErrorKind

\* auth_client reads the answer: its error() fails the connection attempt
Refused(replies) == replies[1].kind \in ErrorKind

\* Mutant of AuthRead: the error of the reply is only logged
AuthReadIgnoresError(r) ==
    LET c == conn[r] IN
    /\ pc[r] = "auth_read"
    /\ \E read \in ReadsOf(c) : stream' = [stream EXCEPT ![c] = read.rest]
    /\ Goto(r, "write")
    /\ UNCHANGED <<executed, link, trusted, inbox, config, configs, faults>>

AuthRead(r) ==
    LET c == conn[r] IN
    /\ pc[r] = "auth_read"
    /\ \E read \in ReadsOf(c) : \E replies \in Parsed(read.buffer) :
          IF Refused(replies)
          THEN Drop(c) /\ Goto(r, "connect")
          ELSE /\ stream' = [stream EXCEPT ![c] = read.rest]
               /\ UNCHANGED <<link, trusted, inbox>>
               /\ Goto(r, "write")
    /\ UNCHANGED <<executed, config, configs, faults>>

\* A read of a broken link that has nothing left fails or returns 0 bytes
AtEnd(c) == link[c] = "broken" /\ stream[c] = <<>>

AuthReadFails(r) ==
    /\ pc[r] = "auth_read"
    /\ AtEnd(conn[r])
    /\ Drop(conn[r])
    /\ Goto(r, "connect")
    /\ UNCHANGED <<executed, config, configs, faults>>

\* send(connection, ...) writes all commands of the call at once
Write(r) ==
    /\ pc[r] = "write"
    /\ Send(conn[r], CommandsOf(r))
    /\ Goto(r, "read")
    /\ UNCHANGED <<executed, config, configs, faults>>

\* Mutant of WriteFails: the connection stays open after the error
WriteFailsStaysOpen(r) ==
    LET c == conn[r] IN
    /\ pc[r] = "write"
    /\ Fault
    /\ \E k \in 0..Size[r] : Send(c, SubSeq(CommandsOf(r), 1, k))
    /\ Return(r, Failed(r, "write_error"))
    /\ UNCHANGED <<executed, config, configs>>

\* Mutant of WriteFails: the commands are sent again on a new connection
WriteRetries(r) ==
    LET c == conn[r] IN
    /\ pc[r] = "write"
    /\ IF link[c] = "up" THEN Fault ELSE NoFault
    /\ IF link[c] = "up"
       THEN \E k \in 0..Size[r] : executed' = [executed EXCEPT ![r] = @ + k]
       ELSE UNCHANGED executed
    /\ Drop(c)
    /\ Goto(r, "connect")
    /\ UNCHANGED <<config, configs>>

\* The write fails: on a link that was up, after the server got and ran some
\* of the commands, whose replies nobody reads
WriteFails(r) ==
    LET c == conn[r] IN
    /\ pc[r] = "write"
    /\ IF link[c] = "up"
       THEN Fault /\ \E k \in 0..Size[r] : executed' = [executed EXCEPT ![r] = k]
       ELSE NoFault /\ UNCHANGED executed
    /\ Drop(c)
    /\ Return(r, Failed(r, "write_error"))
    /\ UNCHANGED <<config, configs>>

\* Mutant of Read: a pipeline, too, returns after its first reply
ReadFirst(r) ==
    LET c == conn[r] IN
    /\ pc[r] = "read"
    /\ \E read \in ReadsOf(c) : \E replies \in Parsed(read.buffer) :
          /\ stream' = [stream EXCEPT ![c] = read.rest]
          /\ Return(r, <<replies[1]>>)
    /\ UNCHANGED <<executed, link, trusted, inbox, config, configs, faults>>

\* One async_read_some: send(command) parses one reply of what it returns,
\* send(commands) all of them, and the call returns
Read(r) ==
    LET c == conn[r] IN
    /\ pc[r] = "read"
    /\ \E read \in ReadsOf(c) : \E replies \in Parsed(read.buffer) :
          /\ stream' = [stream EXCEPT ![c] = read.rest]
          /\ Return(r, IF r \in Pipelined THEN replies ELSE <<replies[1]>>)
    /\ UNCHANGED <<executed, link, trusted, inbox, config, configs, faults>>

ReadFails(r) ==
    /\ pc[r] = "read"
    /\ AtEnd(conn[r])
    /\ Drop(conn[r])
    /\ Return(r, Failed(r, "read_error"))
    /\ UNCHANGED <<executed, config, configs, faults>>

\* Mutant of SetConfig: the pool stays, with the connections of the old config
SetConfigKeepsPool ==
    /\ configs < MaxConfigs
    /\ config' \in Configs
    /\ configs' = configs + 1
    /\ UNCHANGED <<callVars, executed, slot, linkVars, faults>>

\* set_config destroys the pool with its connections and makes a new one.
\* A call that waits in the old pool, or works on one of its connections, is
\* left with a dangling pointer: it is lost, the model does not follow it.
SetConfig ==
    /\ configs < MaxConfigs
    /\ BusyReconfigure \/ \A r \in Requests : pc[r] \notin InFlight
    /\ config' \in Configs
    /\ configs' = configs + 1
    /\ slot' = [c \in Slots |-> "absent"]
    /\ link' = [c \in Slots |-> "down"]
    /\ trusted' = [c \in Slots |-> FALSE]
    /\ inbox' = [c \in Slots |-> <<>>]
    /\ stream' = [c \in Slots |-> <<>>]
    /\ pc' = [r \in Requests |-> IF pc[r] \in InFlight THEN "lost" ELSE pc[r]]
    /\ UNCHANGED <<conn, outcome, executed, faults>>

-----------------------------------------------------------------------------
(* The server and the network.                                             *)

\* The server runs the oldest command of a link and sends its reply; it
\* accepts AUTH, or rejects it as a fault
Serve(c) ==
    LET command == Head(inbox[c]) IN
    /\ link[c] = "up"
    /\ inbox[c] # <<>>
    /\ inbox' = [inbox EXCEPT ![c] = Tail(@)]
    /\ \E ok \in BOOLEAN :
          /\ stream' = [stream EXCEPT ![c] = Append(@,
                [call |-> command.call, n |-> command.n,
                 form |-> "whole", ok |-> ok])]
          /\ IF command.call = AuthCall
             THEN /\ trusted' = [trusted EXCEPT ![c] = ok]
                  /\ IF ok THEN NoFault ELSE Fault
                  /\ UNCHANGED executed
             ELSE /\ executed' = [executed EXCEPT ![command.call] = @ + 1]
                  /\ NoFault
                  /\ UNCHANGED trusted
    /\ UNCHANGED <<callVars, slot, link, config, configs>>

\* The server closes a link, which the client does not notice before its next
\* read or write; only a prefix of the replies under way still arrives
PeerCloses(c) ==
    /\ link[c] = "up"
    /\ Fault
    /\ link' = [link EXCEPT ![c] = "broken"]
    /\ inbox' = [inbox EXCEPT ![c] = <<>>]
    /\ \E n \in 0..Len(stream[c]) :
          stream' = [stream EXCEPT ![c] = SubSeq(@, 1, n)]
    /\ UNCHANGED <<callVars, executed, slot, trusted, config, configs>>

\* Every call has returned: nothing needs to happen
Returned ==
    /\ \A r \in Requests : pc[r] \in {"done", "lost"}
    /\ UNCHANGED vars

Step(r) ==
    \/ \E c \in Slots : Take(r, c)
    \/ Connect(r) \/ ConnectFails(r) \/ NullConnection(r)
    \/ AuthWrite(r) \/ AuthWriteFails(r) \/ AuthRead(r) \/ AuthReadFails(r)
    \/ Write(r) \/ WriteFails(r) \/ Read(r) \/ ReadFails(r)

Next ==
    \/ \E r \in Requests : Call(r) \/ Step(r)
    \/ SetConfig
    \/ \E c \in Slots : Serve(c) \/ PeerCloses(c)
    \/ Returned

Spec == Init /\ [][Next]_vars

\* A call that can go on does (the executor runs ready coroutines) and the
\* server runs what it receives; nobody has to call send(), reconfigure or
\* break a link
Fairness ==
    /\ \A r \in Requests : WF_vars(Step(r))
    /\ \A c \in Slots : WF_vars(Serve(c))

FairSpec == Spec /\ Fairness

-----------------------------------------------------------------------------
(* Properties.                                                             *)

\* The connection pool and the calls agree on who uses what: a connection is
\* busy exactly while one call holds it, so two coroutines never interleave
\* their reads and writes on one socket (client.cpp:51-64), and on every path
\* out of send(), the failing ones included, it is given back.
ConnectionExclusive ==
    /\ \A c \in Slots : slot[c] = "busy" <=> \E r \in Requests : conn[r] = c
    /\ \A r, s \in Requests : conn[r] = conn[s] /\ conn[r] # NoSlot => r = s
    /\ \A r \in Requests : conn[r] # NoSlot <=> pc[r] \in Holding

\* When one read returns the answers to everything written, a connection is
\* given back with nothing under way on it: the next borrower starts clean,
\* also after a failed write, a failed read and a refused AUTH.
IdleConnectionsClean ==
    \A c \in Slots : slot[c] = "idle" => inbox[c] = <<>> /\ stream[c] = <<>>

\* The i-th reply a call returns answers its own i-th command
\* (client.hpp:78 and 87), and it never returns more replies than commands.
OwnReplies(r) ==
    \A i \in DOMAIN outcome[r] : outcome[r][i].call = r /\ outcome[r][i].n = i

RepliesAreOwn == \A r \in Requests : OwnReplies(r)

\* A call that returned has one reply for every command it was given, as long
\* as nothing has failed: what redis_client_test.cpp:217 expects of
\* send(commands).
ReplyPerCommand ==
    faults = 0 =>
        \A r \in Requests : pc[r] = "done" => Len(outcome[r]) = Size[r]

\* With a password, no command of a caller is on a link before the server
\* accepted AUTH there (client.cpp:150-166 and 206-222), whatever the reads of
\* the AUTH answer return and whichever attempts failed before.
AuthBeforeCommand ==
    config.password =>
        \A c \in Slots : \A i \in DOMAIN inbox[c] :
            inbox[c][i].call # AuthCall => trusted[c]

\* Why both hold: who is at which await knows what is on its link.
HeldExclusively ==
    /\ \A r \in Requests : pc[r] \in {"new", "acquire"} => conn[r] = NoSlot
    /\ \A r \in Requests : pc[r] \in Holding =>
          conn[r] \in Slots /\ slot[conn[r]] = "busy"
    /\ \A c \in Slots : slot[c] = "busy" =>
          \E r \in Requests : pc[r] \in Holding /\ conn[r] = c
    /\ \A r, s \in Requests :
          pc[r] \in Holding /\ pc[s] \in Holding /\ conn[r] = conn[s] => r = s

\* A link that is down carries nothing, and a new one is down
Fresh(c) == link[c] = "down" /\ inbox[c] = <<>> /\ stream[c] = <<>>
DownIsEmpty ==
    \A c \in Slots : link[c] = "down" \/ slot[c] = "absent" => Fresh(c)

\* A link that may carry commands: the server accepted its only AUTH
Authenticated(c) ==
    trusted[c] /\ \A i \in DOMAIN inbox[c] : inbox[c][i].call # AuthCall

\* A link under authentication: AUTH is with the server or its whole answer is
\* under way, an acceptance only of a link the server trusts
Authenticating(c) ==
    \/ inbox[c] = <<[call |-> AuthCall, n |-> 1]>> /\ stream[c] = <<>>
    \/ /\ inbox[c] = <<>>
       /\ \/ stream[c] = <<>>
          \/ /\ Len(stream[c]) = 1
             /\ stream[c][1].form = "whole"
             /\ stream[c][1].ok => trusted[c]

\* What is on the link of a call, by the await the call is at
Stage(r) ==
    LET c == conn[r] IN
    /\ pc[r] = "connect" => Fresh(c)
    /\ pc[r] = "auth_write" => inbox[c] = <<>> /\ stream[c] = <<>>
    /\ pc[r] = "auth_read" => Authenticating(c)
    /\ pc[r] \in {"write", "read"} => Authenticated(c)

\* How far each connection is with AUTH, while there is a password: the
\* invariant that makes AuthBeforeCommand inductive.
AuthProtocol ==
    config.password =>
        /\ \A c \in Slots :
              slot[c] = "idle" /\ link[c] # "down" => Authenticated(c)
        /\ \A r \in Requests : pc[r] \in Holding => Stage(r)

\* One read returns the answers to everything a call has written: always, or
\* because no reply is cut and every call writes a single command
ReadsAll ==
    \/ Delivery = "batch"
    \/ Delivery = "reply" /\ \A r \in Requests : Size[r] = 1

\* Why the other three hold when one read returns the answers to everything
\* written. On the link of a call that reads are its replies and behind them its
\* commands that are left to run; none is missing while the link is up.
Quiet(c) == inbox[c] = <<>> /\ stream[c] = <<>>

Answering(r) ==
    LET c    == conn[r]
        got  == Len(stream[c])
        left == Len(inbox[c])
    IN  /\ \A i \in 1..got : /\ stream[c][i].call = r /\ stream[c][i].n = i
                             /\ stream[c][i].form = "whole"
        /\ \A i \in 1..left : inbox[c][i] = [call |-> r, n |-> got + i]
        /\ got <= executed[r] /\ executed[r] + left <= Size[r]
        /\ link[c] = "up" => got = executed[r] /\ executed[r] + left = Size[r]

\* AUTH, its answer, or neither any more
LoggingIn(c) ==
    \/ inbox[c] = <<[call |-> AuthCall, n |-> 1]>> /\ stream[c] = <<>>
    \/ inbox[c] = <<>> /\ (stream[c] = <<>> \/ Len(stream[c]) = 1)

\* How far a call is, by the await it is at: nothing of it runs before it is
\* written, and a login has nothing but AUTH on its link
Progress(r) ==
    LET c == conn[r] IN
    /\ pc[r] # "done" => outcome[r] = <<>>
    /\ pc[r] \in {"new", "acquire"} \cup (Holding \ {"read"}) => executed[r] = 0
    /\ pc[r] \in {"connect", "auth_write", "write"} => Quiet(c)
    /\ pc[r] = "auth_read" => LoggingIn(c)
    /\ pc[r] = "read" => Answering(r)
    /\ pc[r] = "done" => OwnReplies(r) /\ (faults = 0 => Len(outcome[r]) = Size[r])
    /\ faults = 0 /\ pc[r] \in Holding \ {"connect"} => link[c] = "up"

\* What the next call finds
Spare(c) ==
    /\ slot[c] = "idle" => Quiet(c)
    /\ faults = 0 => link[c] # "broken"

ReplyProtocol ==
    /\ \A r \in Requests : Progress(r)
    /\ \A c \in Slots : Spare(c)

\* Every call of send() returns to its caller, whatever fails on the way.
CallReturns == \A r \in Requests : pc[r] = "acquire" ~> pc[r] = "done"

\* The client implements the service it promises, when one read returns the
\* answers to everything written. A call that returned a reply which is not
\* its own counts as having more answers than commands.
LocalFailure(r) ==
    \E i \in DOMAIN outcome[r] :
        outcome[r][i].kind \in {"client_stopped", "write_error", "read_error"}

StatusOf(r) ==
    IF pc[r] = "new" THEN "new" ELSE IF pc[r] = "done" THEN "done" ELSE "pending"

AnsweredBy(r) ==
    IF LocalFailure(r) THEN 0
    ELSE IF OwnReplies(r) THEN Len(outcome[r]) ELSE Size[r] + 1

Service == INSTANCE RequestService WITH
    status   <- [r \in Requests |-> StatusOf(r)],
    answered <- [r \in Requests |-> AnsweredBy(r)],
    failed   <- [r \in Requests |-> LocalFailure(r)]

ImplementsService == Service!Spec
=============================================================================
