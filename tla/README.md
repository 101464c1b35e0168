# TPlayNow: a verification development in TLA+

TPlayNow is a C++ chat and game program on Boost.Asio. This directory holds
TLA+ models of its network code, TLC runs on small instances, and theorems that
TLAPS proves for all values of the constants.

    tlc -config TsQueueWait.cfg MCTsQueue.tla      # one run
    tlapm TsQueue_proofs.tla                       # the proofs of one module

`PROJECT.json` lists the runs, which source lines every definition stands for,
the hazards of the code and the properties aimed at them, and the theorems.

## 1. The system

| component | source | state | operations | threads |
|---|---|---|---|---|
| `tsqueue<T>` | `src/network/NetCommon/net_tsqueue.hpp` | a deque, two mutexes, a condition variable | `push_back`, `empty`, `wait`, `pop_front` | io threads push, one application thread pops |
| `connection<T>` | `NetCommon/net_connection.hpp` | a socket, `m_qMessagesOut`, `m_msgTemporaryIn`, handshake values | handshake, `Send`, `Disconnect`, read loop, write pump | handlers of one io thread per process; `Send` and `Disconnect` are called from anywhere and post |
| `server_interface<T>` | `NetCommon/net_server.hpp`, `NetServer/SimpleServer.cpp` | `m_deqConnections`, `m_qMessagesIn` | accept loop, `MessageClient`, `MessageAllClients`, `Update` | accept handler on the io thread, the rest on the application thread |
| `client_interface<T>` | `NetCommon/net_client.hpp`, `NetClient/SimpleClient.cpp` | one connection, its thread | `Connect`, `Disconnect`, `Send`, polling | as above |
| `message`, `owned_message` | `NetCommon/net_message.hpp` | header and body | `operator<<`, `operator>>` | none |
| chat server | `src/network/server.cpp`, `src/include/chat_message.hpp` | `chat_room` (participants, history), `chat_session` (write queue) | accept, join, leave, deliver, read loop, write pump | one |
| chat client | `src/network/client.cpp` | socket, write queue, deadline timer | connect with deadline, read loop, write pump | io thread and stdin thread |
| `QAsioEventDispatcher` | `src/qasioeventdispatcher.cpp` | socket notifiers with revisions, timers, interrupt flag | register, unregister, `processEvents`, `wakeUp`, `interrupt` | the GUI thread; `wakeUp` from any |
| asynchronous sample client | `sample_implementing_client/asynchronous_tcp_client.cpp` | map of sessions, the sessions guard, a cancel guard per request | `emulateLongComputationOp`, `cancelRequest`, `close`, handlers | io thread and application thread |
| sample servers | `sample_implementing_server/*.cpp` | `m_stop`, acceptor, a Service per connection | accept loop, service, `Stop` | a thread that accepts, a thread per client, or a pool |
| `bugs_server` | `t_msg_client.cpp`, `t_msg_server.cpp` | requests with a strand and an atomic flag; acceptor | `sendMessage`, `cancelRequest`; accept loop, service | pools |
| synchronous samples, Qt windows | the rest | none worth a model | | |

How they interact. A server's io thread runs one `io_context`. Its accept
handler calls `OnClientConnect`, which sends a greeting, then puts the connection
in `m_deqConnections` and starts the handshake: the server writes 8 bytes, the
client writes back `scramble` of them, the server compares. After that each end
loops on `ReadHeader` / `ReadBody` and pushes what it receives to
`m_qMessagesIn`, a `tsqueue` that the application thread empties in `Update`.
`Send` posts a lambda that appends to `m_qMessagesOut` and starts a write only
if the queue was empty; write handlers start the next write.

The chat server is another program. Each `chat_session` has the same two loops;
what it reads goes to `chat_room::deliver`, which remembers it and queues it
with every participant. The chat client sends what the user types through a
queue of its own, from the thread that reads stdin.

The sample clients and servers are programs of their own that speak one line
each way; the `bugs_server` pair is built like them.

What is hard here, and what would make each part correct:

- **tsqueue**: two mutexes and a condition variable; the lock order, the
  check-then-act pairs (`empty` then `wait`, `empty` then `pop_front`), lost
  wake-ups. Correct: FIFO from `push_back` to `OnMessage`, no deadlock, every
  message handled.
- **connection**: three chains of asynchronous operations that share a socket
  and a queue, while either end fails or closes at any point. Correct: one
  write pump, never stuck; the framing never slips; nothing is delivered before
  validation; each direction a FIFO channel; a close is noticed by the peer.
- **chat server**: the replay of the history meets live messages; sessions that
  leave through a read error, a write error or a bad header. Correct: what a
  session is given is one unbroken stretch of the room's log, and all of it is
  written to a session that stays.
- **server_interface**: a container shared by two threads without a lock,
  connections destroyed while handlers are pending.
- **chat client**: a deadline that races the connection; writes before there is a
  connection. Correct: what is typed reaches the room in order, and the client
  does not fall silent while it is connected.
- **dispatcher**: handlers that outlive their notifier; a wake-up that comes just
  before the service is reset.
- **sample clients**: two locks taken in both orders, a flag read without a lock, a
  cancellation that meets any step of a request. Correct: one callback per
  request with an outcome that is true, and every request ends.
- **sample servers**: `Stop` against a blocking accept, an accept that fails, clients
  that never send a newline. Correct: requests are served or refused, and no
  thread or Service is left with a connection whose client is gone.
- **messages**: the body as a stack of values, sizes in 32 bits; the four decimal
  characters of the chat header.

## 2. Plan

Done: `TsQueue`, `NetConnection`, the chat room with its client, and the abstract
`FifoChannel` that all three implement; the sample clients and servers and the
abstract `RequestReply`; `NetServer`; `AsioDispatcher`; the pure parts
`NetMessage` and `ChatMessage`; proofs of every safety property and refinement
that a passing run checks.

Left, in this order:

1. `NetConnection`, echo: messages whose header and body disagree because they
   were bounced as received (`SimpleServer.cpp:63`).
2. `NetServer`: the lifetime of connections against their pending handlers, and
   the `Disconnect` of a client that stops its `io_context` at once.
3. `AsioDispatcher`: descriptors that fail under an enabled notifier.
4. Proofs: `NetConnection` as a step of `NetServer` (there a connection is open
   or closed and a source of messages); the chat client as a client of any room,
   with more than one of them at its sessions.

## 3. Modules

Each component `X` has `X.tla` (state and actions), `XProps.tla` (what it must
guarantee), `MCX.tla` (instances for TLC) and `X_proofs.tla`. Where a module
extends several components (`ChatSystem`, `SampleRpc`) the composition has the
instances and the proofs. The pure modules share `Data_proofs.tla`.

**FifoChannel** is the abstract specification: items are accepted on one side and
handed over on the other in the same order, each at most once.

**TsQueue** models `tsqueue` and the loop of `Update` at the granularity of lock
acquisitions. `muxQueue` and `muxBlocking` hold their owner; `ppc` and `cpc` are
the program points. A scope that locks, works and unlocks is one step that needs
the lock free; `push_back`, which takes `muxBlocking` inside `muxQueue`, is
three: `PushItem`, `PushLock`, `PushNotify`. `wait()` is `WaitCheck`, `WaitLock`,
`WaitSleep`, `WaitRelock`, `WaitAgain`, with `SpuriousWakeup`. `pushed` and
`handled` are logs that only the properties read.

**NetConnection** models both ends of one connection. `rd[e]` is the one
outstanding `async_read` of an end, `wr[e]` its outstanding `async_write`s,
`posted[e]` the lambdas in its `io_context`. Bytes are tokens: a handshake word
and a header both have 8 bytes, so a read of either kind takes whichever comes
next, which is why a header can be taken for an answer. `Transmit` and `Arrive`
are the kernel; the handlers are actions named after what has completed
(`WriteHeaderDone`, `ReadBodyDone`, ...); the error branches are `WriteFailed`
and `ReadFailed`. `EarlySend` lets the client's application send before it has
received anything: `Send` only looks at `is_open()`, and `SimpleClient` pings
whenever a key is pressed (`SimpleClient.cpp:72`). `Faults` turns on broken and
refused connections and `Disconnect`. A break is noticed by both ends; a
connection that goes silent without an error is not modelled.

**ChatRoom** models `server.cpp`. `participants`, `recent` and `writeQ` are
`participants_`, `recent_msgs_` and `write_msgs_`; `reading` and `writing` the
outstanding operations of a session; `wire` is what the client sent and the
session has not read. `log`, `joinedAt`, `said` and `out` are only read by the
properties. A message is a pair of a client and a number; a client of any
behaviour sends what it likes, so whether `decode_header()` accepts it is chosen
when it is sent.

**ChatMessage** has `body_length`, `encode_header` and `decode_header` on the four
characters of the length field. **ChatClient** models `client.cpp`: the record `c`
holds the list of endpoints and the attempt on the current one, the socket, the
deadline, `write_msgs_` with its outstanding write, the read, and the lambdas
posted by the thread that reads stdin. What the client writes goes to the `wire` of
its session with the header `EncodeHeader` makes; when its socket closes its
session is `gone`. **ChatSystem** is the room with this client at one session and
clients of any behaviour at the others.

**NetServer** models `server_interface` one level up: a connection is only a
socket that is open or closed and a source of messages. `deq` is
`m_deqConnections`; the accept handler is `AcceptApprove` (up to `push_back`)
and `AcceptConnect` (from `back()` on), so that the application thread can come
between them. `MessageAllClients` is a walk, one step per element (`VisitOpen`,
`VisitClosed`), and an erase of two steps (`VisitEnd` computes what is kept,
`EraseEnd` writes it back). The two threads race on the container, which C++
leaves undefined; the outcomes modelled are those of reading the size of the
deque and writing it back later. `told` and `reported` are only read by the
properties.

**SampleLink**, **SampleClients**, **SampleServers** and **SampleRpc** model the sample
programs. `SampleLink` has the state (`req[r]` is a request in its client, `sock[r]`
its connection with the Service behind it, `host` the server process, `user` the
application thread) and what TCP does. `SampleClients` has `AsyncTCPClient` and
`RequestOp`, which differ in their locks: the first holds the sessions guard
while it waits for a cancel guard, the second posts its cancellation to a strand.
`SampleServers` has the iterative, parallel, asynchronous, daytime and `t_msg`
servers with their accept loops, services and `Stop`. `ProcessEnds` is the end of a
server process, which resets every connection it has: after `Stop`, after an
exception of a blocking accept, and for `t_msg` (`TMsgEnds`) when its accept has
failed and its last Service has gone, because then nothing is left for `io.join()`
to wait for. Which programs run is chosen at the start and never changes, so one
run has all ten pairs. **RequestReply** is what a client promises its user: one
outcome at most, "ok" only after a reply was written, "aborted" only after a
cancellation.

**NetMessage** has `operator<<` and `operator>>` on sequences of bytes, with the
width of `header.size`. **SeqFilter** has `Kept`, the filter of a sequence: what
`std::remove` leaves of `m_deqConnections`, and what one client's share of the
room's log is. **NetFraming** says where the two ends of a connection are in the
stream between them; only the proofs and their invariant use it.

**AsioDispatcher** models `QAsioEventDispatcher`. `sn`, `notif`, `revision` and
`pending` are the `QAsioSockNotifier` of each descriptor, `ops` the asynchronous
operations whose handlers still have to run, each with the revision bound into
it. `processEvents` is followed through `pc`; application code may enable and
disable notifiers and timers wherever the code gives it the thread: between two
`processEvents` (`app`), in `sendPostedEvents` (`sent`, `resent`) and in the
event of a notifier or timer (`eventInRun`, `eventInPoll`). `timerWait` is the
wait of `nearest_timer`, `timerDone` the waits that have expired or been
cancelled and whose handler is still queued.

Definitions marked "Mutant" are wrong variants of the definition that follows
them. Nothing uses them: each is put in place of that definition to see that the
properties notice.

## 4. Runs

| run | bounds | states | shows |
|---|---|---|---|
| `queue_wait` | 2 producers, 2 pushes each, `Update(2, true)` | 1881 | mutual exclusion, one lock order, `pop_front` never on an empty deque, FIFO refinement, a notification that finds a sleeper drains the queue |
| `queue_lost_wakeup` | 1 producer, 2 pushes | violation | the wake-up lost between `empty()` and the sleep |
| `net_orderly` | the server's greeting and 1 message, 2 messages from a client that waits for the greeting, no faults | 12477 | framing, challenge first, FIFO refinement both ways, delivery |
| `net_faults` | 1 message from the server, 2 from the client, every fault | 374k | the pump is never stuck on an open socket, only a client that sent too early is turned away, own bodies, a close spreads |
| `net_stale_body` | a sized message, then one without body | violation | a body left over from the message before |
| `chat` | the client with 2 endpoints and 2 messages, the second too long; another client with 1; history of 1 | 185k | history and live messages form one stretch, everyone hears or leaves, FIFO from the keyboard to the room, the client does not fall silent |
| `chat_deadline` | the same | violation | the connect deadline closes a connection that was made |
| `net_server` | 3 connections, 1 message from each | 25k | a broadcast reaches everybody it found that is still open and meets no reset pointer |
| `net_server_race` | the same | violation | an approved connection dropped by an erase that overlaps its `push_back` |
| `sample_rpc` | 2 requests, the first cancelled at most once, all 10 pairs of programs, a pool of one thread, every fault | 204k | `RequestReply` refinement, every request ends whose line the server reads, cancelled requests end, services let go, one late accept at most |
| `dispatcher` | 1 descriptor, 2 read notifiers and a write notifier, revisions and notifier objects up to 3 | 3.3M | events go to the notifier they are for, an enabled one has one operation, handlers have their object |
| `dispatcher_spin` | revisions up to 1 | violation | `processEvents` with a timer registered never returns |

Why the bounds are enough. Two producers are needed for the nested locks to be
contended; two pushes let one come before and one after the consumer's look at
the deque. Two messages from the client, of either kind, give every pair of neighbours
(sized after unsized, and so on), which is as far back as `m_msgTemporaryIn` and
the pump remember. The server's two are the greeting, which has no body, and one
of either kind after it; the code of both ends is the same. `net_orderly` has
clients that wait for the greeting, `net_faults` those that do not, as
`SimpleClient`. A history of one is full after the
first message, so joining with an empty, full and overflowed history all occur
with three messages; two endpoints are one that fails or is too slow and one
more to try. In `net_server` three connections are a sender, one that
fails and one that arrives during the walk. With two requests and a pool of one
thread a request can wait behind another for the sessions guard, the accept
loop or the pool; the second is never cancelled and must not notice. In
`dispatcher` a read notifier can
be enabled, disabled and replaced by the other while the first operation is
still pending, with the write notifier keeping the descriptor from being
cancelled or not; three notifier objects are one that is deleted, its
successor and one more. The proofs have none of these bounds.

A request is cancelled at most once in `sample_rpc` because two cancellations of
one request can end in the deadlock `EmbraceTakesTwo` names: a handler that finds
its request cancelled keeps the cancel guard and waits for the sessions guard,
the second `cancelRequest` holds the sessions guard and waits for the cancel
guard (`asynchronous_tcp_client.cpp:139`). The property says that it takes two: the run
shows that one never ends so, the theorem says it for any number.

`EveryRequestEnds` has one exception, a `RequestOp` with a server that reads lines:
`std::cin >> request` leaves no newline, so the server reads on, and the request
ends only when it is cancelled (`CancelEnds`) or the server stops. That a request
in the backlog of a `t_msg` whose accept has failed ends too depends on
`TMsgEnds`: without the end of the process TLC finds it waiting for ever.

`queue_wait` has the consumer that waits; the one that polls (`BWait` FALSE, as in
`SimpleClient`) is covered by the theorems, which hold for both.

Deadlock is checked in the queue and dispatcher runs. In the others it is off:
clients may stop talking, closed connections have nothing left to do.

Violation runs show what a comment of the code says and the code does not do:

- `queue_lost_wakeup`: `wait()` tests `empty()` before it takes `muxBlocking` and
  not again under it, so `OnMessage` is not "called when a message arrived"
  (`net_server.hpp:164`) until another message comes.
- `net_stale_body`: "Once a full message is received, add it to the incoming
  queue" (`net_connection.hpp:203`); with `header.size` 0 the body belongs to the
  message before.
- `chat_deadline`: "Set a deadline for the connect operation." (`client.cpp:76`);
  `handle_connect` does not cancel it, and five seconds later `check_deadline`
  closes the connection.
- `net_server_race`: "connection allow, add to container" (`net_server.hpp:78`);
  an erase on the other thread undoes the addition.
- `dispatcher_spin`: "return true if we handled events, false otherwise"
  (`qasioeventdispatcher.cpp:429`) is not reached while a timer is registered.
  `timerStart()` in the loop cancels the wait of the round before and `poll()`
  counts the handler of the cancelled wait as an event. The property asks for a
  return only when nothing happens any more but the steps of the thread itself.

Behaviours the models have and no run is spent on:

- A client that sends before the handshake is over has its header taken for the
  answer and is disconnected (`net_connection.hpp:245`). `SimpleClient` does so
  when a key is pressed early enough. `RefusedOnlyIfEarly`, in `net_faults`, says
  that it happens to no other client.
- A received message that is shorter than the value popped from it
  (`SimpleClient.cpp:91` and `:101` do not look at its size) makes `operator>>` read
  outside the body: `NetMessage!PopDefined` says which pops are defined.
- A message typed before the `chat_client` is connected may fail and stay at the
  front of `write_msgs_`, and then nothing is ever written again
  (`client.cpp:60`). `TalksUnlessEarly` excepts such a client.
- `MessageClient` resets its argument before `std::remove` compares with it
  (`net_server.hpp:106`), so the client it reports as disconnected stays in
  `m_deqConnections`, and the next broadcast reports it again.
- An `interrupt()` or `wakeUp()` between the check of `d->interrupt` and `reset()`
  (`qasioeventdispatcher.cpp:398`) is taken back: `Interrupt` between `Enter` and
  `Block`, after which `run_one()` waits for a handler that may never be ready.

## 5. Fairness

- `TsQueue`: strong fairness of `PushLock` and of the consumer's loop, since a mutex
  that is released again and again is won in the end; weak fairness of
  `PushNotify`, which waits for nothing. No fairness of spurious wake-ups or new
  pushes.
- `NetConnection`: weak fairness of every handler that is ready, for an
  `io_context` runs its handlers in order, and of the kernel. None of `Break`, of
  `AppSend` or of `AppDisconnect`.
- `ChatSystem`: weak fairness of accepting the client, of each session's reads and
  writes, and of the client's handlers. None of typing, of hanging up, of the
  answer to a connect or of the other clients. Fairness of a session's writes
  assumes that its client goes on reading or goes away; one that does neither
  fills the socket, and its session waits for as long as it likes. In the `chat`
  run only the `chat_client` hangs up.
- `SampleRpc`: weak fairness of the threads of both programs and of TCP, of a
  `Stop` that has begun and of the `io.join()` of `t_msg`. None of asking, cancelling, closing, of beginning a stop,
  or of faults.
- `AsioDispatcher`: weak fairness of the thread, which always has a next step
  unless `run_one` has nothing to run. None of descriptors, timers, other threads
  or what the application does.
- `NetServer`: safety only.

## 6. Proofs

All theorems hold for every value of the constants under the named assumptions
of the modules (thread names differ, bounds are naturals, a sized message is a
message).

**TsQueue_proofs.** The inductive invariant adds to the properties what the
consumer's locals mean at each point (`inHand` is empty except before
`OnMessage`; the count is below the limit where an item is taken). `PopFindsItem`
is inductive only because producers never pop; `NothingLost` needs
associativity of concatenation. `Refinement` maps `PushItem` to `Accept`,
`Handle` to `HandOver` and every other step to a stutter.

**NetConnection_proofs**, first part: the pump. The invariant `Pump(e)` says that
at most one message write is outstanding and is of the front, and that an open end
with queued messages has one. It needs that nothing is outstanding before the
accept handler has run. Every handler is one lemma: append a write, drop the head,
leave the pump alone. `ValidationFirst` follows because the server reads headers
and bodies only after validation.

**NetConnection_proofs**, second part: the framing. Words, headers and bodies follow
each other without marks, so whether a read finds what it was started for depends
on everything written before it. `NetFraming` makes that local: a place in the
stream to an end is a number (-1 before the handshake word, 2n after n messages,
2n - 1 between the header and the body of the n-th), a token is a step from one
place to another, and `Framed(e)` says that the tokens on the way to `e` are a chain
of steps from the place its handlers have reached (`ReaderPlace`, through a read
that is finished and not yet handled: `GotTo`) to the place the writes of its peer
have reached (`AtPlace`). What was received is then a prefix of what was sent
(`Delivered`), which gives `ReadsStayAligned`, `ChallengeComesFirst` and
`BodiesArriveWhole`, and, step by step, that each direction implements
`FifoChannel` (`DeliversToServer`, `DeliversToClient`), with faults and with clients
of any kind. `Framed("server")` is not inductive: a client may write a header before
the handshake word, which the server then takes for the answer. The invariant
`FrameInv` therefore has `Framed("server") \/ Doomed`, where `Doomed` says that the
header of the first message the client sent is before the server while it waits
for a word; it ends with the server closing the connection, before anything is
delivered. Since there is no third possibility, the server turns away nobody else
(`OnlyEarlySendersAreRefused`), for clients of any kind.
`FrameInv` is an invariant of both instances of `MCNetConnection`
too, found by TLC before it was proved.

**ChatRoom_proofs.** The key is that `recent_msgs_` is always the last
`MaxRecent` messages of the log (`RecentIsEnd`), which `Trim` preserves; then a
session that joins is given the end of the log, and `deliver` extends both by the
same message. Lemmas about stretches of sequences come first.

**ChatSystem_proofs.** The client is one of the clients the room was shown correct
with: each of its steps leaves the room alone, sends a frame (`Say`) or hangs up
(`Hangup`). That needs an invariant of the client, above all that what it has sent,
what is queued and what is posted are numbered 1, 2, 3, ... without gap, so the
next frame is the next thing it says. `SystemIsRoom` then carries the room's
theorems over (`SystemStretches`), and `ClientTalks` comes from the same invariant.

`TypedReachesRoom`, the refinement of `FifoChannel` from the keyboard to the log,
puts two halves together. In the client what was typed is said, queued or posted,
in that order. In the room what was said is published or on the wire, in that order
(`SaidInOrder`), for every session and any client; this holds even where a session
has stopped reading, because only the body read that publishes a message takes it
off the wire. `Typed` grows with `Type` (`Accept`), what is published of the client
grows with `ReadBody` of its session (`HandOver`), and everything else stutters.

**NetServer_proofs.** The invariant follows the loop of `MessageAllClients`: a null
pointer is only where the loop has been, so it meets none ahead, even among what
the io thread appends meanwhile, and none is left when it is over
(`NoNullsAtRest`); what it has passed is open only if it was told (`Served`). The
erase is `Kept`, whose type (`KeptType`) says that no null pointer survives it.

**Data_proofs.** First the filter `Kept`. It is a recursive function, so what it
computes has to be shown by induction on the length of a prefix. The library's
induction theorems take an operator as a parameter, which the provers cannot
instantiate; but a set of numbers without a least element can be had as a set, and
`WFMin` of the library says that there is none (`SetInduction`). From that come the
existence of the function (`FilterExists`) and the facts the other modules cite:
`KeptType`, `KeptEmpty`, `KeptAppend`. Then the messages. `RoundTrip` splits on the
number of digits; `HeaderAccepted` is where the 512 of `body_length()` meets the four
characters. A message of `NetMessage` is well sized when `header.size` is the length
of its body modulo 2^32; `PopUndoesPush` and `LastInFirstOut` are about values that
were pushed. That a received body is as long as what is popped from it, neither
`operator>>` nor `SimpleClient` checks, and no theorem says so.

**SampleRpc_proofs.** The invariant has a part per request (`Sound`: where it is,
which operation is outstanding, who holds its cancel guard), one for a
cancellation in progress, one for the backlog (no request twice, none that has a
Service) and one for `Stop`. `CancelledNeverSucceeds` holds because
`cancelRequest` only finds
requests that are still in the map, and a handler decides the outcome after it
has taken its request out; `EmbraceTakesTwo` because a handler keeps the cancel
guard only of a request that was cancelled before, by another call than the one
that waits. `PromiseKept` is the refinement to
`RequestReply`, step by step.

**AsioDispatcher_proofs.** The invariant spells out what revisions are for: two
operations of one descriptor, type and revision are the same (`Unique`), none
is ahead of its notifier (`NotAhead`), what was cancelled is behind
(`AbortedOld`), and a notifier that is disabled has none that counts, which is
`NoStaleEvent` read backwards. `pending_operations` is the number of operations
(`Counted`), so the cleanup finds 0 only where no handler is left
(`HandlersHaveNotifier`). Cancelling changes every operation of a descriptor at
once; that their number stays is shown with a bijection.

Only model-checked: the liveness properties (`NotifiedPushDrains`,
`EventuallyDelivered`, `CloseSpreads`, `EveryoneHears`, `GoneLeaves`,
`EveryRequestEnds`, `CancelEnds`, `ServiceEnds`), since liveness under fairness and
`ENABLED` are out of this prover's reach; every invariant and every refinement
that a passing run checks is also a theorem. What the violation runs refute is
false and has no theorem.

## 7. Not modelled

The parts marked so in `PROJECT.json`. Within the modelled parts: logging, the text of
messages, allocation failure, and

- `tsqueue`: `front`, `back`, `push_front`, `pop_back`, `count` and `clear`, which
  have no caller beside another thread.
- `NetServer`: `Stop`, exceptions of `remote_endpoint()`, when a connection is
  destroyed. The race on the container is undefined in C++; section 3 says which
  outcomes are modelled.
- `client_interface`: `Disconnect`, which stops the `io_context` right after it has
  posted the close.
- `AsioDispatcher`: descriptors that fail under an enabled notifier, the flags that
  exclude sources, an event that calls `processEvents` itself.
- chat client: `async_stop` and `heartbeat_timer_`, which nothing uses. The
  `chat_client` that `loginwindow.cpp` makes goes out of scope at once and its
  `io_context` is never run: there is no behaviour to model.
- `bugs_server`: `GetMessage` and `Get`, which loop for ever under the sessions guard
  and have no caller; the empty entries `cancelRequest` makes for ids it does not
  know; `Server::Stop`, which nobody calls; the grammar of the request, which
  matches nothing because its greedy identifier takes the whole of the input, so
  every line is answered with "Unknown request".
- The emulated work of the sample servers is one step that occupies its thread.
