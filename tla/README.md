# Verification of redis-client

This directory models the C++ library in `redis/` (a Redis client and a
publish/subscribe reader built on Boost.Asio coroutines and the external
connection pool library `cpool`), checks the models with TLC on small instances
and proves theorems about them with TLAPS. `PROJECT.json` maps every modelled
definition to the lines it stands for.

## 1. Inventory

| Part | Code | State | Operations | What makes it correct |
|---|---|---|---|---|
| client | `client.cpp/.hpp` | `config_`, `con_pool_`; each call of `send()` is a coroutine with a borrowed connection | `send(command)`, `send(commands)`, `ping`, `set_config`, the AUTH handler on new connections | a connection serves one call at a time and always goes back; replies belong to the caller's commands, in order; AUTH before anything else; every call returns |
| subscriber | `subscriber.cpp/.hpp` | `read_messages_`, `latch_`, `message_queue_` (bounded channel), the reader coroutine | `start`, `stop`, `read`, `ping`, `subscribe` and its like, `reset`, `running`, the AUTH handler | messages come once and in order; a lost link is replaced; `stop()` returns and leaves nothing running |
| subscriber connection | `subscriber_connection.cpp/.hpp` | one socket, `connecting_` | `get`, `async_connect` (back-off loop), `cancel`, `async_disconnect` | one coroutine connects at a time, the others are not forgotten |
| reply parser | `reply.cpp/.hpp` | none (iterators) | `load_data`, one parser per RESP type, arrays recursive | a whole reply is consumed exactly; a cut one is reported |
| command | `command.cpp/.hpp` | the words of a command | tokenizer, `serialized_command` | the words reach the server as given |
| command builders | `commands*.hpp/.cpp` | none | one function per Redis command, with overloads, packs, flags and defaults | what the caller meant is what the server runs |
| value, message | `value.hpp/.cpp`, `message.hpp` | a tagged variant | equality, ordering, `as<T>()` conversions | equality is an equivalence, the ordering strict, conversions total |
| errors, config, helpers | `errors.*`, `error.*`, `client_config.hpp`, `helper_functions.*`, `types.hpp` | data | – | – |

How they interact. Application coroutines call `client::send`, which borrows a
connection from the pool, writes the serialized commands, reads once, parses and
gives the connection back. The pool calls `connection_ctor` for a new socket; with
a password this attaches `auth_client`, which the socket calls when it is
connected and which talks to the server on it before the pool hands it out. The
subscriber's reader and the callers of `subscribe()` share one socket through
`redis_subscriber_connection::get`; the reader passes what it parses through a
channel to the callers of `read()`; `stop()` acts on all of them at once.

Hard behaviours: interleavings of calls and of reader, senders and stop; sockets
that fail at any await; replies split over reads; logins that are refused or lost
and retried; a full and a closed channel; waits with nobody to end them.
`PROJECT.json` lists each hazard with the line where it bites.

Outside the repository, and modelled from how the code uses them: `cpool`
(sockets, pool, latch), the Boost channel, the network and the Redis server.

## 2. Plan

1. `RedisClient` with `RequestService` (done) – the core: every caller depends on it.
2. `Subscriber` with `MessageFeed` (done) – composes subscriber, connection, channel
   and server, and implements the feed it promises.
3. `RedisClientProofs` (done): type correctness, the exclusive use of
   connections, authentication first. `RedisClientReplyProofs` (done): clean idle
   connections, replies to the right caller, and that the client implements
   `RequestService`.
4. `SubscriberProofs` (done): type correctness, one coroutine connects, what
   `running()` and `stop()` promise, and that the subscriber implements `MessageFeed`.
5. `ReplyParser`, `ReplyLoop` (done): the grammar of replies, byte by byte, and the
   loop over a read. `ReplyFragments` (done) states what the client's model assumes
   of them, and is checked against them.
6. `Value` (done), `Command` (done), `CommandBuilders` (done), composed by `Exchange`
   (done): what callers put into commands and get out of replies, end to end.
7. `ValueProofs` (done): numbers and their digits. `ReplyParserProofs` (done): the
   parser goes forward, whatever it is given. `WireProofs` (done): what is written is
   read back. `ReplyLoopProofs` (done): the loop over a buffer ends, replies come
   back as they were sent, numbers read alike in both forms, messages are made alike
   in both places, values are ordered, maps survive.
8. `ExchangeProofs` (done): the words of commands reach the server, are those of the texts,
   and every command has its reply, which is returned.
9. Extension: published messages cut by the reads of the subscriber.

All recursion is in recursive functions, so every module can be proved about.

## 3. The modules

### RedisClient – `client.cpp`

Tests run everything on `io_context ctx(1)`, one thread, so a coroutine is
interrupted only at a `co_await`: one action is the code from one `co_await` to
the next. The await a call is at is `pc[r]`:

| `pc` | suspended at | actions |
|---|---|---|
| `new` → `acquire` | `get_connection()` (lines 51, 73) | `Call`, `Take`, `NullConnection` |
| `connect` | the pool connecting a socket from `connection_ctor` (150–166) | `Connect`, `ConnectFails` |
| `auth_write`, `auth_read` | the send inside `auth_client` (206–233) | `AuthWrite…`, `AuthRead…` |
| `write` | `async_write` (97, 122) | `Write`, `WriteFails` |
| `read` | `async_read_some` (104, 131) | `Read`, `ReadFails` |
| `done` | returned | |
| `lost` | its pool was destroyed by `set_config` (34–40) | |

The `absl::Cleanup` of both `send()` is `Return`, the only way a call ends. The
pool is `slot` (absent, idle, busy) bounded by `config.limit`; a socket is `link`,
`inbox` (commands on their way), `stream` (replies on their way) and `trusted`
(the server accepted AUTH). A command or reply is a record naming its call and
position, so that a reply taken by the wrong call is seen. Replies are fragments:
`whole`, or a `head` and a `tail` when a read cuts one.

`Delivery` says what one `async_read_some` may return: all answers to what was
written (`"batch"`), some replies (`"reply"`), or any part (`"byte"`).

### RequestService – what `send()` promises

A call returns once, with answers to its own first commands in order, or with a
local error; the server runs each command at most once, only during the call. The
refinement mapping in `RedisClient` (`Service`) maps `pc` to the status, and the
returned replies to how many commands were answered, provided they are the call's
own; a call with foreign replies maps to a state the abstract step cannot reach.

### ReplyFragments and ReplyParser – `reply.cpp`

`ReplyFragments!Parsed` is what `load_data`, called until the buffer is used up,
makes of fragments: whole replies are returned; a cut one is reported as `eof`, or
accepted as it is (`partial`), then perhaps followed by a nil, because the parser
steps over the end of the data into the zeroes behind; a leftover tail gives some
replies that nobody sent (`Strays`: the elements of a cut array), and then either
the rest of the buffer is parsed as usual or a nil swallows it.

`ReplyParser` is the code itself: one operator per parser of `reply.cpp`, each
returning value, error and next position like `parse_response`; `ParseReply` ties
them together as a recursive function of the position. `ReplyLoop` adds the loop
over one read, one turn per `LoadData`. The code has it twice, and what lies behind
the data differs: the client makes a new, zeroed buffer for each read
(`client.cpp:129–145`), the subscriber uses one again and again
(`subscriber.cpp:111,147–158`). `Stale` is what earlier reads left there, nothing in
the first case; where the parser steps over the end it reads that, and then zeros.
The buffers are the bytes of some replies, from any byte of the
first to any byte of the last, and any four bytes. `CutsAreCovered` compares the two
modules for the client: whatever the bytes give is among the sequences that `Parsed`
allows, so that what is checked and proved of `RedisClient` with fragments holds for
the parser. `NothingFromBefore` is about the subscriber, whose cut replies may bring
old ones back.

### Value – `value.cpp`, `value.hpp`, `message.hpp`

A value is a record of type and content; `Equal` and `Less` are the operators `==`
and `<`, the `As…` operators the conversions, an optional being a set with at most
one member. Where the code reads behind a vector (`==` on a longer left side) or
compares addresses (`<` on two errors) they yield the set of possible answers.
Numbers have two widths, `MaxLong` and `MaxInt`. A message is made in two places,
by its constructor (`MessageOf`) and by `as<redis_message>` (`AsMessage`);
`MessagesAgree` compares them. The properties are those of the values that replies
return, and stand in `ReplyLoop`.

### Command, CommandBuilders and Exchange

`Command` (`command.cpp`) has one action per branch of the tokenizer's loop, the inner
loop over a quoted part in one step, and `SerializedCommand`. The reference for the
words is `WordsOf`, which looks at the whole text at once: a space ends a word if an
even number of quotes is before it.

`CommandBuilders` (`commands*.hpp`, `commands.cpp`) is `Build`: the words that a call
of a builder comes to, none at all if an argument has no text and the conversion
throws. Most builders send a name and every argument (`PlainCommands`); those with
flags, defaults or fixed words in between have operators of their own.

`Exchange` is one pipeline from the calls to the answers: commands are constructed
(`Construct`, `ReadText`, `Throw`), collected and written one behind the other
(`SendAll`, `client.cpp:115–122`), read by a server with the grammar of `ReplyParser`
(`Request`), run (`Run`) and answered; `Answer` is the loop of `client.cpp:138–147`
over all answers. The server keeps strings, hashes, lists and sets, checks the number
of arguments of every command (`Arguments`) and the kind of what it has, and sends
what is published to a subscriber of the channel and of a pattern. Its properties
are about the whole way: `CallsAreUnderstood` compares what the server read with what
the caller meant (`Meaning`, `Given`), `StoredComesBack` what is read with what was
written, `PublishedIsRead` and `OutcomesTold` messages and outcomes.

### Subscriber – `subscriber.cpp` and `subscriber_connection.cpp`

Coroutines are readers (`read_messages`, one for each `start()`) and senders
(`send()` of `ping()`, the four subscribing calls and `reset()`; `Command` says which
and for which topic, `Subscribed` what it does at the server). `GetConnection` is
`get()` with the compare-and-swap on `connecting_`; `connect`, `auth`, `backoff`,
`reconnect`, `reauth` are the awaits of `async_connect` (53–102) – `reauth` is the
login on a later attempt, which differs only in what a cancellation does (86–88);
`wait` is `wait_for(connected)`. The reader goes through `loop`, `read`, `publish`, and
is `blocked` in `async_send` when the channel is full. `Stop` is the code of `stop()` up
to `latch_.wait()`, `Stopped` the rest; `Start` may come again during the wait, for
`read_messages_` is cleared before it, and after it. A read
returns whole messages here; the splitting of replies is in `RedisClient`.
`delivered`, `swallowed`, `revived` (readers that a `stop()` waits for while `start()`
is called) and `found` (readers that are in a read when `stop()` is called) are history
variables and influence nothing. `StopWhen` says when the callers of an instance call `stop()`.

### MessageFeed – what `read()` promises

Messages are taken from the link some at a time and handed over one by one, in
order and once; only when the feed was closed may those nobody has read be given up,
the last first. The refinement mapping (`Feed` in `Subscriber`) takes `stream` for
what is coming, and for what is pending the channel's buffer followed by what the
active reader has parsed and not yet sent (`Unsent`). What a reader that ends has
not sent is given up, so `ImplementsFeed` says also that no reader ends with
messages in hand before `stop()`.

### What the models assume of external code

- An I/O error clears `connected()`; an error of the connected handler fails
  `async_connect`. `connected()` is already true while the handler runs: the
  subscriber's `auth_client` calls its own `send()`, which would otherwise wait
  for itself. The handler's AUTH is written before coroutines that wait for the
  connection go on.
- `wait_for(connected)` ends for all waiters when the socket is connected.
- The pool prefers idle connections, creates at most `max_connections`, and its
  `get_connection` returns `nullptr` only as a fault.
- Closing the channel ends the receivers that wait on an empty buffer and later
  sends; buffered messages can still be received; a suspended sender stays
  suspended until a receiver takes a message.
- The latch is counted down to zero and stays there: `cpool::latch` has no operation
  that the code could raise it with.
- `RESET` ends all subscriptions and the login of its link, and is allowed before
  the login. Channels and patterns are subscribed to independently.
- Numbers of arguments (`Arguments` in `Exchange`) are those of the commands of a
  Redis server with the JSON module.
- `socket().cancel()` reaches pending reads and possibly a pending connect, not
  timers, not `wait_for`, not operations begun later.
- The server answers the commands of a link in order. Rejecting AUTH is a fault.

## 4. The runs

| Run | Instance | Shows |
|---|---|---|
| `client_batch` | two single calls, a pipeline of two, two sockets, password, two faults, fair | type invariant; connections are exclusive and idle ones clean; replies are the caller's, and one per command while nothing failed; AUTH first; the client implements `RequestService`; every call returns |
| `client_bytes` | one single call, a pipeline, any configuration, one `set_config`, one fault, reads of any part | connections are exclusive and AUTH comes first even so |
| `sub_feed` | one reader, `subscribe()`, `ping()`, two `read()`, two pushes, channel of one, two faults, `stop()` at any time, fair | type invariant, one connects, `running()` means a reader, `stop()` leaves none; the subscriber implements `MessageFeed`; `read()` and the reader make progress, senders and `stop()` too, but for the cases below |
| `sub_login` | AUTH, `psubscribe()`, `reset()`, two faults, `stop()` at any time, `start()` again during its wait or later | one connects, one reads unless `start()` came during the wait, and a `stop()` that no `start()` followed leaves no reader, through failing logins and a restart |
| `parse_reads` | a new buffer with one or two replies out of twenty-five, cut anywhere, or with any four bytes or less | whole replies come back exactly; cut ones are as `ReplyFragments` says; the loop ends; values of the same sizes are equal if they are the same; values without errors are ordered; numbers read the same in every form that fits; hashes survive; messages are made alike |
| `commands` | any text of up to six characters, spaces and quotes among them; any two words of up to two bytes, two commands of short words; every builder, alone and in pipelines of up to four | the words are those written and reach the server, no byte is left over; every call but those of section 6 is understood as meant; what is stored comes back, what is published is read, each answer tells its outcome |
| `client_split_pipeline` | reads return some replies, no faults | **violated**: a pipeline returns fewer replies than commands |
| `client_split_reply` | reads return any part, no faults | **violated**: the rest of one call's reply is returned to the next call |
| `parse_exec` | an array with an error in it, then another reply | **violated**: the array ends at the error, its other elements become replies of their own |
| `parse_stale` | a used buffer, one or two replies cut anywhere | **violated**: a cut reply is followed by those of an earlier read |
| `sub_stop_connecting` | `stop()` once started, no faults, fair | **violated**: `stop()` during a connect never returns |
| `sub_login_reply` | password, a `ping()`, no faults | **violated**: the login drops the PONG |

The six violated properties are what a document or test of the repository says;
`PROJECT.json` quotes the lines.

Bounds and why they are enough. Two or three calls on one or two sockets are what
it takes to wait for a busy connection, to inherit one that a failed call left,
and to open a second one; a pipeline of two is the smallest whose replies can be
split or swapped. Two faults allow a failure and a failure of its repair. A channel of one (the
code has eight) is full after one message, so the reader suspends in the middle of
a buffer; two `read()` calls empty it before and after `stop()`.
`StopReturnsUnlessLeft` names three cases in which `stop()` may wait for ever, and
`SendReturns` one for a command. Each is needed: without it TLC finds a behaviour. The
reader may be suspended in its send when nobody calls `read()` any more
(`NobodyReads`): callers are free not to, and nothing else wakes it. It may be in a
read that it began after `cancel()` (`Overlooked`; in detail in `sub_stop_connecting`).
It, or a sender, may wait for a coroutine whose connect was cancelled (`Stranded`): that
one leaves `async_connect` at lines 86–88 without a connection, and those at line 59 wait
on. And there may be no reader yet (`NeverStarted`). `found` tells a read that
`stop()` had to cancel from one that began later.

`MaxConfigs`, `MaxFaults` and `MaxPushes` bound the environment in the guards and
nothing else. Sequences are bounded by the number of commands and pushes.

Two replies per buffer (`MaxSent`) give a cut first one, a cut last one and the
border between them; the loop keeps nothing but its position from one reply to the
next. The replies of `parse_reads` have one of each type, strings that contain a
line end or look like a reply, null, empty and nested arrays, messages of a channel
and of a pattern and arrays that are nearly one. Four arbitrary bytes
(`AnyBytes`) hold a header and what follows it. `MaxLong` is the greatest integer
that `stol` converts, 15 for TLC, and `MaxInt` the greatest `int`, 3: larger numbers
are out of range or narrowed as in the code.
`MaxStrays` is 5 here, the most that the tails of these arrays give, and 1 in the
client runs, where the number of foreign replies changes nothing but the size of
the state.

In `commands` every builder is called with an argument that holds a line end, and in
each form its flags and defaults allow. What is written is strings (empty ones too),
maps, lists and sets of words with line ends, signs and numbers, before and after
other commands, refused ones included. `Values` is everything such a server may send,
so `MaxLong` and `MaxInt` only have to hold the lengths. Doubles are counted in units
of 10^-7, one digit beyond what `std::to_string` writes.

What `parse_reads` leaves out on purpose: arrays with an error in them (that is
`parse_exec`), and in `CutsAreCovered` tails of strings that themselves contain
type bytes or line ends (`Plain`), which may look like anything to the parser. With
reads of any part (`"byte"`) the client runs therefore assume replies without such
strings; with whole replies there is no such assumption.

Deadlock is checked in the client runs (`Returned` is the one legal end). A
subscriber may sit idle for ever, the parser stops at the end of its buffer and a
pipeline when it is answered, so their runs set `CHECK_DEADLOCK FALSE`.

Fairness. Weak fairness of each coroutine's steps: the executor resumes what is
ready, sockets complete or fail. Weak fairness of `Serve`: a server whose link is
up answers. Weak fairness of a waiting `read()` and of `Stopped`. Nothing is
assumed of callers (`Call`, `Start`, `Stop`, `SetConfig`), of publishers or of
faults. `WF` of a call's whole step suffices because the bounded faults cannot be
repeated for ever.

## 5. The proofs

Theorems hold for all constants that satisfy the named assumptions of their modules:
any number of calls, commands, sockets, readers, senders, faults. Each inductive
invariant was checked by TLC on the runs above before it was proved. Each proof has one lemma per group
of actions and one step per conjunct an action can disturb.

### The client (`RedisClientProofs`)

From `RequestsAssumption`, `EnvironmentAssumption` and `StraysAssumption`, for any
delivery:

- `TypeCorrect`: `Spec => []TypeOK`. The work is in the lemmas on reads and
  parsing (`ReadsType`, `FromStartType`, `ParsedType`): a read returns at least one fragment, the
  parser makes at least one reply of it, so `replies[1]` in `Read` exists.
- `PoolConsistent`: `~BusyReconfigure => (Spec => []ConnectionExclusive)`.
  `ConnectionExclusive` is not inductive: nothing in it says that a call that holds
  a connection holds a real one. The invariant is `HeldExclusively` with `TypeOK`.
  The hypothesis is needed: `set_config` under a running call leaves the call with
  a connection of a destroyed pool.
- `AuthenticationFirst`: `Spec => []AuthBeforeCommand`, also for `set_config` at any
  time. The inductive invariant `AuthProtocol` says, for each await of the holder,
  what is on the link (`Stage`): nothing before AUTH is written; while its answer
  is awaited, either AUTH is with the server or its one whole answer is under way,
  an acceptance only if the server trusts the link; after that no AUTH. The reads
  matter here: a part of the answer may be read, but a rejection is never parsed
  as an acceptance. `DownIsEmpty` adds that a link that is down carries nothing,
  and `HeldExclusively` that nobody else writes to a held link.

### Replies (`RedisClientReplyProofs`)

Under the hypothesis `ReadsAll`: one read returns the answers to everything the call
has written, because the link delivers them together or because every call has one
command and replies come whole. Without it the properties are false; that is what
`client_split_pipeline` and `client_split_reply` show.

- `IdleIsClean`: `[]IdleConnectionsClean`, `RepliesBelong`: `[]RepliesAreOwn`,
  `EveryCommandAnswered`: `[]ReplyPerCommand`. None is inductive. That an idle
  connection is clean depends on what is on the link of a call that is reading, and
  that on how many of its commands the server has run. `ReplyProtocol` says it, with
  `TypeOK`, `HeldExclusively` and `DownIsEmpty`: on the link of a call that reads are its replies in
  order and behind them its commands that are still to run, none missing while the
  link is up (`Answering`); on that of a call that logs in, AUTH or its answer
  (`LoggingIn`); before the write there is nothing, and nothing of the call has run
  (`Progress`); idle connections are clean and, without a fault, not broken (`Spare`).
  So a read, which waits until all is run, empties the link (`FullRead`) and gives
  the call all its replies.
- `ClientServes`: `Spec => ImplementsService`, if also no call has an empty list of
  commands. `Call` is the service's start, `Serve` its execution of a command, each way to return
  its return; every other step changes nothing that a caller sees. Where no commands
  were given a failure returns nothing to tell it by, hence the second hypothesis.

### The subscriber (`SubscriberProofs`)

From the assumptions of `Subscriber` alone, but for the hypotheses named:

- `SubscriberTypeCorrect`: `Spec => []TypeOK`, with `HasUnsent`: a reader that sends has something
  to send, so the `Head` it takes exists. The bound of the channel is part of it.
- `ConnectingIsExclusive`: `Spec => []OneConnects`, over all exits of `async_connect`.
- `OnlyLoginsSwallow`: `~Password => (Spec => []RepliesReachReader)`. What
  `sub_login_reply` shows lost with a password is lost nowhere else.
- `RunningTells`: `Spec => []RunningMeansReader`, `FirstStopEndsActivity`:
  `Spec => [](stops <= 1 => StopEndsActivity)`, `ReaderIsAlone`: `OneReads` if
  `Readers` has at most two members. The inductive invariant is the conjunction of `LatchGuards`,
  `FirstRun` and `FirstStop`: the latch is up until the first reader ends; while it
  is up one reader at most is active, unless `start()` is called while a `stop()` waits
  for it (`revived`), and it goes on unless `stop()` waits; until the first `stop()` no
  reader ends. `OneReads` and `StopEndsActivity` leave that `start()` out, and rightly so: it
  passes `running()`, because `stop()` has cleared `read_messages_`, adds a reader, and lets
  the first one go on. The hypotheses are needed because the latch is never
  raised again: a third effective `start()` gives a second reader, and a second
  `stop()` does not wait (section 6).
- `SubscriberFeeds`: `Spec /\ [](revived = {}) => ImplementsFeed` if `Readers` has at most
  two members. Each send, hand-over and read of the socket is a step of `MessageFeed` and
  every other step changes nothing of it; that only one reader has messages in hand
  (`OneReads`) makes what is pending a sequence. With a `start()` during a `stop()` two
  readers may have some, hence the hypothesis.

### Replies and values (`WireProofs`, `ReplyLoopProofs`)

For any replies, any bytes, any widths and anything that earlier reads left in the buffer,
so both for the client's loop and for the subscriber's, from `ItemsAssumption` (the elements of an
array are values too), `GarbageAssumption` (other buffers are sequences of bytes), `StaleAssumption` (what is left
of earlier reads ends with a line end, for they ended with a whole reply),
`WidthsAssumption` (an `int` is no wider than an `int64_t`) and `RepliesAssumption` (what
the protocol allows a server to send: lines without CR, numbers and sizes that fit into
`int64_t`).

- `LoopTypeCorrect`: `Spec => []TypeOK`, `LoopTerminates`: `Spec => []LoopEnds`: there are no
  more replies than bytes to read, those behind the data included. `LoopEnds`
  is not inductive: a call that jumps over the end of the data (`reply.cpp:68`) must have
  had more than one byte before it. `Advances` says how many replies there are at most at each
  position. A step needs that the parser goes forward by two bytes or more, or to the end, where
  the loop stops; and that behind the stale bytes, which end with a line end, it comes to the end
  at once (`ParseReplyForward`, `ParsedOutside` in `ReplyParserProofs`); for an array that
  follows from the same of its elements, each read by the parser itself.
- `RepliesComeBack`: `Spec => []RepliesAreSent`, if `NoErrorsInArrays` and
  `FiniteNesting`. The first is needed: an error inside an array ends the parsing of the
  array, and what is behind it becomes replies of its own; `parse_exec` shows it. The
  second says that replies are finite, so that there is a depth that goes down from an
  array to its elements. TLC cannot look for such a function; on the instance it is the
  depth of nesting. The lemmas of `WireProofs` say of one kind of reply each that
  the parser, given a buffer that holds its bytes anywhere with anything behind them, returns
  the reply and the position behind it (`ReadAs`); `ArrayRead` takes that from the elements
  to the array, and the induction over the depth from there to all values. `RepliesAreSent`
  is not inductive: nothing in it says where in the buffer the loop stands. `Passing` does: the bytes
  of the replies still to come, and only those, are behind the iterator.
- `NumbersReadAlike`: `Spec => []NumbersAgree`. Its heart is `DecimalReadsBack` in
  `ValueProofs`: what `std::to_string` writes of a number, `stol` reads as that number if it is in
  range, and refuses otherwise. For text that is a number but not written like this, such
  as `007`, the conversions share the digits they find.
- `ValuesAreOrdered`: `Spec => []Ordered`, if `FiniteNesting`. That `Less` and `HasError` are
  what their recursion says follows from `RecursionSolved`, along the depth of
  one value or the sum of the depths of two. Then, by induction over the depth: on values
  less deep than k, `Less` gives one answer to every question (`Tells`), and the
  pairs of which it says yes are a strict total order (`Orders`). Texts and arrays are ordered by
  their first difference (`Lex`); that this is an order if the elements have
  one is proved once for both (`LexOrders`), and `LessItemsLex` says that the loop over
  two vectors computes it. Errors are left out, for `operator<` compares the
  addresses of their texts (`value.cpp:113`).
- `HashesAreKept`: `Spec => []HashesSurvive`. The keys of a map come in their order, which
  there is for every finite set of texts (`SortedExists`, from the total order of texts); they
  are all of them, each once (`InOrderIs`), so that in the array that `HashValue`
  makes each key is found again once, with its field behind it. `InOrder` is written
  with `CHOOSE` because tlapm cannot look into the sorting of the community modules.
- `MessagesAreMadeAlike`: `Spec => []MessagesAgree`, for arrays of any length and any
  texts.

The parser, the digits of a number and the folds are recursive functions. The induction
theorems of the library take an operator as a parameter and cannot be used; instead,
a set that contains 0 and the successor of each of its numbers contains `Nat`
(`AllNumbers`, from `NatLessThanWellFounded`). With it the existence of the
recursive function is proved first (the recursion is followed up to each number), then
what it returns. For recursion over values `RecursionSolved` does the same once for
all: a recursion that goes down along a depth has a solution.

### Commands (`ExchangeProofs`)

From `PipelinesAssumption` (texts and words are sequences of bytes; the number of words and
their sizes, of the commands that builders make too, fit into `int64_t`).

- `WordsAreRead`: `Spec => []WordsReachServer`, with `SentIsLeft`: `Spec => []Sending`, for
  pipelines whose commands of one word are plain words (`LinesArePlain`); in any
  other pipeline such a word goes out as a raw line (`command.cpp:57`), which the server would
  split at its spaces and line ends, and the server of the model stops. The words of commands
  of two or more may hold any bytes. What
  the server has read and what it has not must be known together: `Sending` says
  that for some j it has read the non-empty ones of the first j commands, and the
  wire holds the bytes of the others. A step of the server skips the commands of no words
  (`FlatSkips`), finds the bytes of the next one at the front of the wire, and reads
  from them its words and nothing else (`RequestRead`, from `BulkStringRead`
  and `ArrayRead` of `WireProofs`, or from its line if it is one plain word). The second
  invariant, `Constructing`, says that commands have words whose sizes can be written: while a
  text is read, the words and the member hold no more than the bytes that were read
  (`ReadingIn`), which every turn of the tokenizer preserves, unclosed quotes
  included.

- `TextIsRead`: `Spec => []ReadSoFar`. `WordsOf` says which words a text has without reading it
  from left to right: a space ends a word if the number of quotes before it is even, and a
  word is what is behind the last end, without the quotes. The
  invariant `ReadWell` says that the words are those that have ended before the iterator, the
  member is what has not ended, and the iterator is not in quotes, or at the end. The
  turn over quotes is the one that goes further than a byte: `InTheQuotes` follows it by
  induction, and `WordGrows` says what one byte more makes of a word.

- `ExchangeTypeCorrect`: `Spec => []TypeOK`, if every reply that the modelled server can give
  (`IsReply`: nil, OK, an error, a number, a string or an array of strings) is in `Values`,
  as it is in `MCExchange`. It needs what is kept: `Serving` says that the content
  of every key is of the key's kind (a text, a map from texts to texts, a list or a set of
  texts), because `HGETALL`, `LRANGE` and `SMEMBERS` answer what an earlier command
  stored; `RunTyped` shows that every command keeps it so. `Commanding` says that the
  words read from a text so far are not empty, before and after quotes.
- `OutcomesAreTold`: `Spec /\ []RepliesFit => []OutcomesTold`, under the same hypothesis and
  `FlatArrays` (the elements of an array are not arrays; both hold in
  `MCExchange`). `RepliesFit` is what RESP can say: the numbers and sizes of the replies fit
  into `int64_t`. Every reply is read back from its bytes (`ReplyRead`, from the lemmas of
  `WireProofs`), so the loop of the client returns the replies that were given, all of
  them and in their order (`AnswersRead`): that loop is a recursion that goes towards the end
  of the buffer, or back to it from behind (`LoadedIs`). `Telling` says what each reply
  is to its command, and by `Sending` the commands that were received are all that were sent.

What is assumed of the replies is not vacuous: with `RepliesFit` and `Telling` as further
invariants TLC finds no violation on the instance of the run `commands`.

### What stays with TLC

The liveness properties (`CallReturns`, `StopReturnsUnlessLeft`, `ReadReturns`,
`ReaderRecovers`, `SendReturns`), which need fairness and `ENABLED`. Of
`ReplyLoop`, `CutsAreCovered`: it depends on the strings of the instance (behind a cut, a
string inside an array may look like a size that swallows the next replies); and
`EqualMeansSame`.
Of `Exchange`, what is true of the calls of the instance and not of every list of
words: `CallsAreUnderstood`, `StoredComesBack` and `PublishedIsRead` (another
command in between may change what is stored, or publish). The service and feed theorems
are about safety: that every call is answered at last is `CallReturns`.

## 6. Not modelled, and limits of the models

Not modelled: `as<error>()`, `as<bulk_string>()` and the output of values, logging,
error categories and texts, host, port and user names, the build. The constructor of
the subscriber that takes a connection leaves `exec_` empty (`subscriber.cpp:9`):
`start()` would spawn on no executor.

Limits. The parser's step beyond its data (`reply.cpp:68,117`) is followed into the
stale bytes and the zeros behind them; the end of the buffer itself, byte 4096, is
not modelled (a step over it, or a bulk size beyond it, is undefined behaviour). What happens to a call whose pool `set_config`
destroyed is not followed (`lost`). The reader of a subscriber reads whole messages in the model; in
the code it parses each read on its own (`subscriber.cpp:133`), and a message cut in two
gives what `ReplyLoop` says of a used buffer. A malformed header in such a piece makes
`load_data` throw out of `read_messages` before `latch_.count_down()`: `stop()` then waits
for a reader that is gone, which the model does not have. Conversions to `float` and
`double` are those of decimal texts without fraction or exponent; `stof` and `stod` also
read hexadecimal texts, infinities and nan (`value.hpp:283–324`). What the server makes of a
one-word command that is not a plain word is not followed (`LinesArePlain`). Two senders write one behind the other in the
model; whether `cpool` keeps concurrent long writes apart (`subscriber.cpp:98`) is not
visible here. Memory exhaustion and destruction of a client or subscriber with calls in
flight are not modelled.

### What the code does otherwise

Behaviours that a reader would not expect. Of the builders, `CallsAreUnderstood` says
that exactly these calls do not do what they are named after:

- `decrby` sends `DECR BY`, which is no command (`commands.cpp:37`).
- `hget` with a list of fields sends `HSET` (`commands-hash.hpp:46`): an even number of
  fields is written, as keys and values, instead of read.
- `linsertbefore` and `linsertafter` send a number in place of the pivot, and no
  element (`commands-list.hpp:132–140`).
- `sismember` with a list of members sends `SISMEMBER`, which takes one
  (`commands-set.hpp:62`).
- `expireat` and `pexpireat` with a flag do not send the time (`commands-ttl.hpp:48,74`).
- `incrbyfloat` and `hincrbyfloat` send six decimals (`commands.cpp:28`,
  `commands-hash.hpp:78`): the amount is rounded to them, so an amount below half of the last one
  becomes zero.

The defaults of `rpop`, `lpop` (0) and `spop` (1) mean no count, also when given.

Behaviours that the models reproduce but no run is about:

- `set_config` replaces the pool of a running client and destroys the connections
  that calls hold (`client.cpp:37`), where `client.hpp:59` says "This function will
  do nothing if the client is already" running. `BusyReconfigure` allows it in the
  model; the runs set it to `FALSE`, `AuthenticationFirst` is proved for both.
- Of a text that ends in an opening quote, the tokenizer reads on behind the end
  (`command.cpp:23`; stage `undefined`). An empty quoted argument is dropped
  (`command.cpp:15,39`). A command of one word is sent as a line, unquoted, so a
  word with a space reaches the server as two (`command.cpp:57`).
- An empty command is no bytes on the wire (`command.cpp:53`): its call waits for a
  reply that is not coming, or takes the place of another's in a pipeline.
- An integer reply beyond `int` is narrowed by `as<int>()` and even `as<double>()`
  (`value.hpp:266,307`), while a bulk string beyond it is refused.
- `send(commands{})` writes nothing and waits for a reply for ever
  (`client.cpp:121–131`). In `Exchange` such a pipeline is never answered; the instances
  of `RedisClient` use pipelines of two.
- `operator==` on bulk strings and arrays looks at the size of the left side only
  (`value.cpp:80–88`): a string equals each one that it begins, the empty one equals all, and
  a longer left side is compared with what lies behind the right one; `value.hpp:111` says
  "true if the type and the value are the same". `EqualMeansSame` is about equal sizes.
- `stop()` of a subscriber that was never started waits for a latch nobody counts
  down (`subscriber.cpp:82`).
- `start()` while a `stop()` waits passes `running()`, because `stop()` has cleared
  `read_messages_`: there are two readers then, the one that `stop()` waits for goes on
  unless its read was cancelled, and `stop()` returns when either of them ends
  (`subscriber.cpp:67–84,139`). `OneReads` without `revived = {}` is violated in `sub_login`.
- After the first reader has ended the latch stays at 0: `running()` is false
  beside a reader that a later `start()` spawned (`subscriber.cpp:67–76,180`). A third
  `start()` therefore gives a second reader, and a `stop()` of a subscriber that was
  started again returns at once and may leave its reader active, for good if that one was still
  connecting. `sub_login` starts twice and stops once; with a third reader `OneReads`, and with
  `MaxStops = 2` `StopEndsActivity`, is violated. The channel, once closed, is not opened again, so
  the reader of a restarted subscriber ends with the first message it reads.
- `stop()` disconnects when the reader has ended, but a sender that is connecting meanwhile
  brings the link up after it (`subscriber.cpp:83`, `subscriber_connection.cpp:72–95`);
  `StopEndsActivity` is about readers only.
- Of several coroutines that need a connection one connects; when `stop()` cancels its
  attempt, the others wait for ever (`subscriber_connection.cpp:59,86–88`), though line 55 has
  them "wait for it to connect".
- `reset()` "unsubscribes" (`subscriber.hpp:103`), and on a link with a password also
  ends the login: every later command on it is denied.
- `as<redis_message>` makes an empty message of an array of more than four elements
  that begins with `message` or `pmessage` (`value.hpp:391–411`).
- A parse error carries the category of the client's errors (`errors.cpp:106`), so
  `eof` compares equal to `client_error_code::error` and has its text.
- The setters of `client_config` return a copy (`client_config.hpp:46–94`): of a chain
  on a named object only the first setting is kept in it.
- With a password, a reader that finds the socket connected before the login has
  read its answer takes that answer; the coroutine that logs in waits for ever
  (`subscriber_connection.cpp:25`, `subscriber.cpp:260`). `sub_feed` therefore has
  no password.
- A replaced connection is subscribed to nothing (`subscriber_connection.cpp:85`).
