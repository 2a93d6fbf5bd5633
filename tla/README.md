# Verification of fighting-card

fighting-card is a C++11 game server with a matching test client, built on asio,
protobuf and spdlog.  This directory holds its TLA+ specifications, the TLC
configurations that check them on small instances, and theorems about them that
TLAPS checks for every instance.  Every definition is translated from the code
under `src/`; `PROJECT.json` names the lines behind each one (`map`), lists the
hazards the properties are aimed at (`hazards`), and for each property a
plausible bug that would break it (`mutants`).

Run `tlc -config X.cfg M` for a row of the table of runs below, `tlapm M.tla`
for a module of proofs.

## 1. The system

### Threads and queues

The **server** (`server/main.cpp`) has three kinds of threads:

* the *main thread*, which starts everything and then runs the `MasterIo`: its
  only events are those of the acceptor;
* the threads of the *`IoServicePool`*, one `io_service` each, given to new
  sessions in turn (`GetIoService`).  The handlers of one session run on one
  thread, in the order they were queued;
* the *logic thread* (`LogicIo`), which runs one FIFO of closures.  It owns
  `UserSessionManager` and `UserManager`, which therefore have no locks.

Nothing is shared but the queues: an io thread posts to the logic thread
(`AddSession`, the handler of a message, the clean-up of `OnClose`), the logic
thread posts to an io thread (`Write`).  The exceptions are the fields of
`UserProcessor`, which the logic thread writes at start while io threads may
already read them, and `session_id_`, `user_id_` and `authed_`, which only the
logic thread touches.

The **client** (`client/main.cpp`) makes one `User` per uid, each with a
`GameClient` (a `Pipe`) on one io thread and its `UserProcessor` on another; the
user's thread may stop the timer and close the pipe of the io thread.

The two programs meet on a TCP connection: the client sends a `LoginReq` and then
`Ping`s, the server answers the first with a `LoginRsp`; either may close it.

### Components

| component | state | operations | talks to | modelled by |
|---|---|---|---|---|
| session registry: `UserSessionManager`, `UserManager`, `UserSessionProcessor` | the static session id, id -> session, set of uids, the identity in each session | `AddSession`, `DelSession`, `GetSession`, `FindUser`, `AddUser`, `DelUser`, `LoginReqHandle` | closures of the logic thread | `UserRegistry` |
| user session: `Session<UserBuffer>`, `UserSession`, `TimerManager` | socket, `read_buf_`, `write_bufs_`, timer, `last_alive_time_` | read header/body, `Write`, `CheckAlive`, `Close` | posts to the logic thread | `Channel`, `GameServer`, `KeepAlive` |
| acceptor: `Server`, `GameServer`, `MasterIo` | the session it waits for | `DoAccept`, `OnAccept` | pool, logic thread | `GameServer`, `Boot` |
| logic thread: `LogicIo` | FIFO of closures | `post` | everything | `GameServer`, `Boot` |
| io threads: `IoServicePool` | `next_io_service_` | `GetIoService` | acceptor, client | `Boot` |
| message dispatch: `UserProcessor` | `io_service_`, `handlers_` | `set_io_service`, `AddHandler`, `Dispatch` | io thread to logic thread | `Boot`, `GameServer` |
| start of both programs: `main`, `CreateDaemon`, `LoadConfig`, `Log::Init`, the `UserManager` of the client | what has been started, the loop over the uids | starts the threads, posts the initialisation, makes the users | all | `Boot` |
| game client: `GameClient`, `Pipe`, `User` | as a session, and `gameclient_`, `last_write_time_` | connect, login, ping, close | server | `GameClient`, `KeepAlive` |
| the two together | the messages on the way | - | - | `System` |
| buffers: `UserBuffer`, `PipeBuffer`, `PipeHead`, `PipeProcessor` | sizes and bytes | `Encode`, `Decode`, `SizeValid`, `Dispatch` | the wire | `Buffers`, `Relay` |
| log file: `hourly_file_sink`, spdlog's thread pool | open file, `rotation_tp_`, queue | `sink_it_` | all threads | `LogSink` |
| `ConsistentMap` | `data_` | `insert`, `update`, `find`, `erase` | nobody | `ConsistentMap` |
| configuration | - | `LoadConfig` | `main` | in part by `Boot` |
| queue client, utilities | | | | not modelled, see section 8 |

### What makes each part hard, and what makes it correct

* **Registry.**  Logins, repeated logins and clean-ups of many sessions come in
  any order; a clean-up may come more than once; ids are 32 bits wide.  Correct:
  one session per uid, a live session is found under its id, id 0 is never used.
* **User session.**  Three chains of handlers (reads, writes, timer) run on one
  thread, but start each other from other threads and each can fail and call
  `Close`; a timer's expiry may already be queued when the timer is stopped.
  Correct: the chains neither fork nor die before `Close`, `Close` is called a
  bounded number of times, every connection is released in the end.
* **Composition.**  The closures of a session reach the logic thread from two
  threads.  Correct: no login or clean-up before `AddSession`; nobody stays
  logged in after the connections are gone.
* **Keep-alive.**  Two timers, whole seconds that are rounded down, late
  handlers.  Correct: a living client is never dropped, a dead one always.
* **Client.**  Another thread stops the timer under its handler.  Correct: it
  logs in first, hangs up when refused, and falls silent when closed.
* **Client and server.**  What each of them assumes of its peer is what the
  other one does, delayed by the network and cut off at any point.  Correct: an
  answer is still true when it is handled; both ends close, whoever begins.
* **Start.**  A daemon is forked, which takes one thread along, threads start in
  several places, each call may fail, and accepting begins before the handlers
  are registered.  Correct: what runs has what it needs; each uid gets one user.
* **Buffers.**  Sizes of 8, 16 and 32 bits; buffers are read into again and hold
  the rest of an earlier frame.  Correct: what is decoded is what was encoded.
* **Log.**  Messages reach the file late and out of order over the hour.

## 2. The modules

                     System <--- SystemProofs
                    /      \
     GameServerProofs      GameClientProofs
        |          |         |
        |     GameServer   GameClient
        |       /      \    /
        |      /   ChannelProofs
        |     /        |
        |    /      Channel
    UserRegistryProofs ---> UserRegistry

    KeepAlive <--- KeepAliveProofs      Boot <--- BootProofs
    Buffers <--- Relay <--- CommonProofs ---> ConsistentMap
                                 |
                                 v
                              LogSink

An arrow or a line down is an `EXTENDS` or an `INSTANCE`: `GameServer` and
`GameClient` instantiate `Channel` with the lemmas about it, `System` the two
programs with the theorems about them.  `GameServer` also instantiates
`UserRegistry` itself, which it implements.

`MCUserRegistry` and `MCRelay` add the symmetry or the messages TLC needs; the
others are checked as they are.

**`UserRegistry`** is the logic thread's state with one action per closure:
`AddSession`, a login that is refused (`Refuse`) or granted (`Grant`), and
`CleanUp`, the closure `OnClose` posts (`DelUser`, then `DelSession`).  It is
also the *abstract specification* of the server: what the logic thread would do
if each session were added once and then logged in and cleaned up in any order.
The uid of a login may be the empty one, `NoUid`: since the result of
`ParseFromArray` is ignored, a `LoginReq` that cannot be parsed is one with some of
its fields, and every session that closes before its login erases the empty uid.
The history variable `cleaned` says which sessions have been cleaned up, `strayed`
which uids the clean-up of a session that does not hold them has erased: one
that is repeated, or, for the empty uid, of a session that never logged in.

**`Channel`** is one end of a connection as a record - socket, read and writes
in progress, `write_bufs_`, timer, queued handlers - with an operator for each
operation of `session.h`, `pipe.h` and `asio_timer.h` that returns the new
record, so that a handler in the modules below is the composition of the calls it
makes.  What asio does is modelled from its use: an operation in progress posts
one handler when it completes, fails, or is aborted by `close()` or `cancel()`;
started on a closed socket it completes with `bad_descriptor`, which, unlike
`operation_aborted`, the code treats as an error.

**`GameServer`** composes the two: `conn[s]` is the channel of session `s`,
`logicq` the queue of the logic thread.  Each action is one handler of one
thread: `Accept` (master), `OnReadHeader`, `OnReadBody`, `ReadBodyError`,
`OnError`, `OnAborted`, `OnWritten`, `CheckAlivePasses`, `CheckAliveFails`,
`RunWrite`, `RunClose` (io threads), `AddSession`, `RefuseLogin`, `GrantLogin`,
`HandlePing`, `CleanUp` (logic thread); `HeaderArrives`, `BodyArrives`,
`LoginArrives`, `ReadFails`, `WriteEnds` and `TimerExpires` are the peer and the
kernel.  `alive[s]` abstracts `last_alive_time_`: something was heard since the
timer was last armed; `KeepAlive` has the arithmetic.  Sessions on one io thread
are not ordered with one another, which only adds behaviours.

**`GameClient`** is one user, from `async_connect` to the closed socket.  The
handler of its timer and the user thread's `Close` are split in two steps each,
because `Stop` may come between `TimerLoop` and `SendPingMsg`.

**`KeepAlive`** is the same connection in time: ticks, `Sec` of them to a second,
handlers late by at most `Jitter`, messages by at most `Delay`; the actions are
the two timer handlers, the login, the arrival of a message and the client's
death.  The two clocks run alike and do not go back.

**`System`** composes `GameClient` and `GameServer` over one connection.  The
handlers are those of the two modules; the actions of their environments - what
arrives, what fails - are replaced by actions that move messages from the write
of one end to the read of the other (`c2s`, `s2c`) and that break the connection.
At first the uid is still held by a session whose peer is lost (`Other`), so that
the client may be refused or not.

**`Boot`** is both programs from the first line of `main`: `Steps` has the order
of the calls, each call an action that may fail - the fork of the daemon, the
configuration, the log, the threads, the users of the client, the acceptor - and
then `Run` and `Join`.  On the server the closure that registers the handlers runs
meanwhile - `AddHandler`'s insert is split, since `Dispatch` may look at the map -
and sessions receive messages.  What a look-up that races with an insert does is
any of: found, not found, crash.

**`Buffers`** has the encoders and decoders over bytes, with the moduli of the
sizes as constants; **`Relay`** sends messages through them with read buffers
that are used again.  Nobody in the repository uses `PipeBuffer` yet, so the
gateway and the back end of `Relay` are what its interface is made for.

**`LogSink`** is a `LOG_` macro (stamp, then queue), the queue and the workers of
spdlog, and `sink_it_`.

**`ConsistentMap`** has the operations of the ring as operators on a function from
keys to nodes.  There is nothing to run: its theorems are proved.

## 3. The runs

All exhaustive.  `CHECK_DEADLOCK FALSE` in every one: peers need not send
anything, and each model ends when its bounds are used up.

| run | module, cfg | what it shows |
|---|---|---|
| `registry` | `MCUserRegistry`, `MCUserRegistry` | 4 sessions, 2 uids and the empty one, ids mod 3: `Exclusive`, `Registered`, `TableSound`, in every order of logins and clean-ups, with the ids wrapping around |
| `server_two` | `GameServer`, `MCGameServer` | 2 connections: with the threads in between, the server still behaves as `UserRegistry` (`RegistrySpec`) |
| `server_one` | `GameServer`, `MCGameServerOne` | 1 connection, every message and failure: `ReadChain`, `WriteChain`, `Watched`, `CloseBounded`, `Released`, `LoggedOut` |
| `double_login` | `GameServer`, `MCGameServerDouble` | *violated*: two sessions logged in under one uid |
| `client` | `GameClient`, `MCGameClient` | `Chains`, `LoginFirst`, `Found`, `HangsUp`, `FallsSilent` |
| `system` | `System`, `MCSystem` | client and server together: `AnswerTrue`, `ClientSpec`, `ServerSteps`, `EndTogether` |
| `keep_alive` | `KeepAlive`, `MCKeepAlive` | `NeverDropped`, `PingsInTime`, `DeadFound` |
| `boot` | `Boot`, `MCBoot` | both programs' start: `Whole`, `EachUser`, `InitFirst`, `OnlyEarly`, `Spread`, `Initialised` |
| `boot_assert` | `Boot`, `MCBootAssert` | *violated*: `Dispatch` without its io_service |
| `sink` | `LogSink`, `MCLogSink` | `PromptRight`, `NeverBack` |
| `relay` | `MCRelay`, `MCRelay` | `UserExact`, `UserFrameValid`, `UnwrapExact`, `DispatchRight` |
| `relay_data` | `MCRelay`, `MCRelayData` | *violated*: the parsed data is longer than the encoded |

What the properties say, in short (each has its full statement in its module):

* `Exclusive`: with clients that log in with type Normal, as `client/user.cpp`
  does, a uid is held by one session and found by `FindUser`, unless the clean-up
  of a session that does not hold it has erased it (`strayed`).  `Registered`: `GetSession` finds every session that was
  added and not cleaned up, as long as the 32-bit ids last.  `TableSound`: 0 is
  never an id, an entry is under its session's id.
* `RegistrySpec`: the refinement `Spec => UserRegistry!Spec` with the identity
  mapping on the registry's variables.  It says that the order of closures is
  right: `AddSession`, posted by the master thread, runs before any login or
  clean-up, posted by io threads.
* `ReadChain`, `WriteChain`, `Watched` (and the client's `Chains`): one read and
  one write in progress at most; before `Close` a read is under way, a non-empty
  `write_bufs_` is being written, and the timer is armed or about to be.
* `CloseBounded`: the clean-up runs at most three times per session, once for
  each chain.  `Released`: every accepted connection ends up closed and out of
  the manager.  `LoggedOut`: a login handled *after* the clean-up is undone too,
  because its reply fails and causes another clean-up.
* `ClientSpec`, `ServerSteps`: each program is a peer of the kind the other one's
  module assumes.  The server answers the login once and sends nothing else,
  whence the client's properties hold with this server; the client logs in once
  and with type Normal, which `Exclusive` and `LoggedOut` take for granted.
  `AnswerTrue`: what the user's thread is told is still so at the server.
  `EndTogether`: when one end closes, for whatever reason and at whatever point
  of the login, the other one closes too and the manager forgets the session.
* `HangsUp`, `FallsSilent`: a refused client disconnects however its threads
  interleave; a closed pipe stops pinging, *except* when its queue is stuck (a
  write was aborted, the buffer stays in front, `DoWrite` is never called again)
  and the user thread's `Stop` came between arming and pinging: then the timer
  pings into the queue for ever (`Stuck`).
* `NeverDropped`: a client that runs is not taken for dead even though it may
  skip every other ping.  `PingsInTime`: it is silent for 4 seconds at most,
  `DeadFound`: a dead one is dropped within 10.
* `Whole`: no thread that logs runs without an open log, and when `main` comes to
  `Run` every thread is there, in a daemon too.  `EachUser`: the client makes one
  `User` per uid, unless `uid_to` is the largest `int`, when its loop overflows.
  `InitFirst`: the logic thread runs nothing of a session before the
  initialisation.  `Initialised`: a server that accepts ends up initialised.  `OnlyEarly`: only a message that arrives during the
  initialisation can be refused as unregistered or kill the server.
* `UserExact`, `UnwrapExact`, `DispatchRight`: what is decoded is what was
  encoded, or is refused when the name does not fit its 8-bit size.

## 4. Findings

* **Double login** (`double_login`).  `Close` is not idempotent.  A session whose
  timer expires while its read fails posts the clean-up twice; between the two,
  another session may log in under the uid, and the second `DelUser` erases
  *its* entry.  A third login under the uid is then granted.
* **Assertion at start** (`boot_assert`).  `main` posts
  `UserSessionProcessor::Init` and accepts without waiting for it, so that
  `Dispatch` can run into `assert(this->io_service_)`.
* **Size of the data** (`relay_data`).  `PipeBuffer::Decode` does not subtract the
  session id, the appid and the user id from the size of the data, so that
  `ParseFromArray` is given the check sum and what an earlier frame left behind.

Seen on the way, without a run of their own:

* After an error of `async_accept` `DoAccept` is not called again: the `MasterIo`
  runs out of work, `main` goes on to `Join` (`server/main.cpp:99` says it does not)
  and waits there for ever; nobody is accepted until the server is restarted
  (`RunReturns`).
* The result of `CreateDaemon` is ignored: when a fork fails the program goes on in
  the foreground.  An exception of what `main` calls after it has started threads
  ends in `std::terminate`, because their destructors find them joinable
  (`StartFails`); a configuration with `thread` 0 divides by zero (`PoolEmpty`).
* The client has no timer for a server that is gone: it finds out because its
  pings fail.
* `ConsistentMap::erase` takes a `uint32_t` whatever `K` is: a key beyond 32 bits is
  never erased, and another one may be in its place (`EraseMisses`).
* A message that is an hour late opens the file of *its* hour and sets the next
  rotation from the clock, so that the rest of the current hour goes to the file
  of the one before (`PromptRight` excludes this with `late`).
* `SizeValid` compares the size as a `uint16_t`, so that a `PipeBuffer` frame
  whose size is a multiple of 65536 is refused as empty.
* A session that logs in as A and then as B leaves A in `UserManager` for ever,
  and a login of type Queued sets the uid without asking `UserManager`.  The
  client of the repository does neither; `LoggedOut` (one login per connection)
  and `Exclusive` (Normal clients) name these assumptions.

## 5. Bounds

| bound | where | why it is enough |
|---|---|---|
| `Sessions` | 4, 2, 1, 3 (`registry`, `server_two`, `server_one`, `double_login`) | a double login takes one session that is cleaned up twice and two that log in; with 4 sessions and 3 ids (of which 0 is not used) the ids are used twice |
| `IdMod` | 3 or 4 | the wrap to 0 and the reuse of an id happen (`registry`) |
| `MaxFrames`, `MaxLogins` | 1-3, 1-2 | a second message is read with the first reply still being written, so that `write_bufs_` holds two; each chain can fail after work |
| `Lossy`, `Silent` | subsets of the sessions | which connections may fail or live to a time-out; `server_one` lets its connection do both |
| `Uids` | with `NoUid` in `registry` and `server_two` | one real uid is enough for two sessions to want the same; the empty one is what a message that cannot be parsed has |
| `Others` | `Ping`, `Unknown`, `Garbage` | the outcomes of `Decode` and `Dispatch` that the handlers tell apart |
| `MaxExpiries`, `Window`, `MaxFrames` | 1, 1, 2 (`system`) | an expiry at either end at any point; a write that waits for the peer to read; the login and one ping, the answer and the end |
| `MaxStuck` | 2, 0 (`client`, `system`) | pings appended to a queue that is never sent; more change nothing but its length |
| `Sec`, `Jitter`, `Delay`, `MaxTime` | 3, 1, 2, 60 | thirds of a second, so that rounding down loses up to two ticks and every phase of the two timers occurs; 20 seconds are four periods of the server's timer; lateness is bounded by a second in all (`Jitter + Delay <= Sec`), without which a living client may be dropped |
| `PoolSizes`, `Conns`, `MaxMsgs` | {0, 2}, 3, 1 | the round robin comes back to the first io_service; the empty pool |
| `UidTos`, `IntMax` | {2, 3}, 3 | a loop that ends and the one that overflows |
| `HourTicks`, `MaxTime`, `QueueSize` | 2, 6, 2 | three hours; two messages in the queue and two with the workers can overtake each other over the hour |
| `ByteMod`, `HalfMod`, `UserMax`, `PipeMax` | 4, 16, 12, 32 | names of 1, 2, 3 and 5 bytes: one that fits, the longest, one whose size is 0 and one whose size wraps to a valid one; `PipeBuffer` frames reach a multiple of `HalfMod` |

The text of appid and user id is assumed to fit its 8-bit size: their encoders
have nobody who calls them with more.

## 6. Fairness

Liveness is checked under weak fairness of what the machine owes and of nothing
else: an io thread runs the handlers queued for it (`WF(IoThread(s))`), the logic
thread the closures (`WF(LogicThread)`), the user thread of the client likewise,
and an armed timer expires (`WF(TimerExpires(s))`).  These are loops of
`io_service::run` and a `steady_timer`; none of the handlers blocks, since no
thread waits for another after the start.  The peer and the network owe nothing:
reads and writes may never complete, so that a silent peer must be found by the
timer alone.  `Released` therefore depends on the chain of the timer, and not on
an error the network reports.

In `System` there are two ends, and one more thing is owed: an end whose peer has
closed its socket sees its read fail in the end.  That is what TCP does while the
peer's machine runs; the silent peer is the business of `Released` and
`DeadFound`.  The connection the kernel has made is reported to the client.  No timer
needs to expire for `EndTogether`.

In `Boot` the main thread goes on to its next call and the logic thread runs
(`Initialised`); peers may stay away and nothing has to fail.

Liveness runs use no symmetry.

## 7. What is proved

`UserRegistryProofs`, for all sets of sessions and uids and every `IdMod > 1`:

* `TypeCorrect`, `TableCorrect` (`TableSound` is inductive with the types);
* `ExclusiveLogin`: `Exclusive` is inductive with the types (`ExclusiveInv`), because
  `strayed` marks the uids that the clean-up of a session that does not hold them
  erases; the empty uid is one of them as a rule;
* `GetSessionCorrect`: `Registered` is strengthened (`RegisteredInv`): as long as
  the ids last, the last id handed out is at most the number of sessions added
  and no entry is above it (`Numbered`), so that the next id is new and its key
  free (`AddNumbered`).  This is where `NoWrap` comes in.

`GameServerProofs`, for all numbers of connections, messages and failures, with
no assumption but `ServerAssumption` (the types of the constants):

* `TypeCorrect`, `ReadChainCorrect`, `WriteChainCorrect`, `WatchedCorrect`,
  `CloseBoundedCorrect`;
* `Implements`: `Spec => RegistrySpec`, the refinement, and with it
  `ExclusiveCorrect` and `RegisteredCorrect`, which carry the theorems of the
  registry over to the running server.

The inductive invariant is `ServerInv`, the conjunction of

* `TypeOK`;
* `ChannelsInv`: every accepted channel is `Sound`, that is, `Core` (the reads, and
  the writes, have at most one handler queued or operation in progress, and a
  write has a buffer) and, until `Close` is called, `Healthy` (the socket is open,
  no handler that closes or was aborted is queued, and each chain is under way).
  A handler found at the head of the queue is then the *only* one of its chain,
  which is why popping it and starting the next operation keeps the chain single;
  and no chain can be cut off by an abort before `Close`;
* `QueueInv`: the closures in `logicq` belong to accepted sessions
  (`QueueOwned`), each session has at most one `AddSession` and none once it was
  added (`QueueOnce`), which comes before all its other closures (`QueueOrder`), and
  an accepted session was added or will be (`QueueAll`).  Without it the logic
  thread could run a login for a session that has no id yet, which
  `UserRegistry` does not allow.

`CloseBounded` has an invariant of its own, `CloseInv`: the calls of `Close` and the
chains of the session that can still call it are three together at most
(`Limited`).  Every call of `Close` ends the chain it is made from and none starts
again.  The chain of reads, and that of the timer, can call it while something of
it is queued, armed or in progress; that of writes also while `write_bufs_` is
empty, since a reply written after `Close` fails and calls it once more, and then
no more: the buffer stays in the queue and `DoWrite` is not called again.

The proof has one lemma for each shape of step (only the connection changes, a
closure is posted, `Close` is called, a closure is run) and one for each group of
actions; the theorems combine them.  The lemmas about the operations of `Channel`
(the type of the new record and what the operation does to the three chains) are
in `ChannelProofs`, which `GameServerProofs` and `GameClientProofs` instantiate:
both ends of a connection are the same code in the program, too.

`GameClientProofs`, for all bounds: `TypeCorrect`, `ChainsCorrect`, `LoginFirstCorrect`,
`FoundCorrect`.  The invariant `ClientInv` has the same `Sound` channel as the server's,
where the user thread's `Close`, whose two steps may come between `TimerLoop` and
`SendPingMsg` of the io thread, counts as begun at its first step; and it says of
the handlers that are queued that, until something has been written, the next
closure of `Write` is that of the login (`LoginNext`).

`KeepAliveProofs`, for all `Sec`, `Jitter`, `Delay` and `MaxTime` with
`Jitter + Delay <= Sec`: `TypeCorrect`, `NeverDroppedCorrect`, `PingsInTimeCorrect`,
`DeadFoundCorrect`.  The parts of `KeepAliveInv` say that nothing is overdue
(`Punctual`), that a skipped ping leaves the timer armed in time for the next
(`Periodic`: the next one is due less than `4 * Sec + Jitter` after the second of
the last write), that the session has heard the last write or it is on its way
and not too old (`Heard`), and what is left of this after the client's death
(`Silent`).

`BootProofs`, for all sizes of the pool, uids, connections and messages:
`TypeCorrect`, `WholeCorrect`, `EachUserCorrect`, `InitFirstCorrect`, `OnlyEarlyCorrect`,
`SpreadCorrect`.  `BootInv` is the conjunction of what has been started when `main` is
at a step (`MainInv`), how far the loop over the uids is (`UsersInv`), what the logic
thread has run of its queue (`LogicInv`), what is in the map of handlers by then
(`HandlersInv`), what a session may have met there (`SessionsInv`, `HarmInv`) and how
many sessions each io_service has (`PoolInv`).  `Spread` is not inductive: `Even`
says *which* io_services are one ahead, those before `next_io_service_`.

`SystemProofs`, for all bounds and all constants with `SystemAssumption`:

* `ClientSpecCorrect`: `Spec => ClientSpec`, the refinement of `GameClient`;
* `ServerStepsCorrect`: `Spec => ServerSteps`, every step of the server is one of
  `GameServer` in which its peer logs in once, and with type Normal;
* `AnswerTrueCorrect`: `Spec => []AnswerTrue`;
* `EndsCorrect`: the chains of both ends, `LoginFirst` and `Found` hold of the two
  programs together.

The first two cannot be had without each other: that the answer comes only after
the login, and once, is what the server does, which in turn rests on the client's
logging in once.  `SystemInv` is the conjunction of `ClientInv`, `ServerInv`, the
registry's `ExclusiveInv`, and `\E n \in Stages : Token(n)`.  `Token(n)` says how far the
login has come, from the closure that `Write` posts in the client (1) to the answer
in the client's queue of handlers (9), and that it is nowhere else: each queue on
the way has the handler, closure or message that carries it at most once, and not
at all when the login is elsewhere (`Sending`, `Asking`, `Serving`, `Replying`,
`Answering`).  It may also have been lost at its stage, when an operation fails or is
aborted; a later stage is then never reached.  The proof has a lemma for each move
to the next stage (`ClientQueues`, `ClientSends`, `ServerReceives`, `ServerTakes`,
`ServerAnswers`, `ServerQueues`, `ServerSends`, `ClientReceives`, `ClientConnects`), and
one for each end (`ClientQuiet`, `ServerQuiet`) that covers all other handlers: what
these post carries nothing (`Plain`), so that the queue of handlers is `Padded`.

Two parts of the invariant are about order.  `Following`: the client reads a body
only when its header has come, and then the answer is there.  `Popping`: an answer
can be on the way while the handler of the write of the login is still queued,
and the login at the front of `write_bufs_`.  `GameClient` lets the answer be read
only when the login was written, which is so because that handler was queued
before the one of the answer's header, and one io thread runs them in order.

`CommonProofs` has the theorems about what is in `common/` alone.  Of the log, for all
hours, queues and clocks: `PromptRightCorrect` and the action property
`NeverBackCorrect`.  `SinkInv` adds that a message in a queue is stamped with an hour
that was, and that the next rotation is the end of an hour begun.  Of the buffers, for all widths of the sizes, all rooms and all messages and heads that fit
(`RelayAssumption`): `TypeCorrect`, `UserExactCorrect`, `UserFrameValidCorrect`,
`UnwrapExactCorrect`, `DispatchRightCorrect`.  The invariant `RelayInv` adds to the
properties which bytes are where the message is (`Travels`): those of the
`UserBuffer` (`UserBytes`), behind those of the head (`HeadBytes`) from the gateway
on.  `Part(q, k, p)` says that `p` is found in `q` from `k` on; parts of parts are parts
of the whole and `SubSeq` cuts them out, from which each decoder's arithmetic on
offsets follows (`MessageFound`, `HeadFound`).  What a buffer held before shows only
in what `PipeBuffer::Decode` puts behind the data (section 4), and `RelayAssumption`
says that this is still within the buffer, as it is with the sizes of the code.

Of `ConsistentMap`, for every size of the keys, all maps and all nodes:

* `FindNearest`: `find` returns the node of the key nearest to the hash around the
  ring.  It rests on the least element of a set of numbers (`LeastIn`, from the
  well-foundedness of `<`) and on the distance around the ring, which no two keys
  share (`PointIs`);
* `InsertMoves`, `EraseMoves`: a node that joins takes over hashes and changes
  nothing between the others; one that leaves gives up its own only;
* `EraseInsert`, `EraseMisses`: `erase` undoes `insert` for a key that fits 32 bits,
  and never removes a key that does not.

Model-checked only: liveness (`Released`, `LoggedOut`, `HangsUp`, `FallsSilent`,
`EndTogether`, `Initialised`), which is out of the prover's reach, as is whatever
needs `ENABLED`.  Every invariant and every action property of the passing runs, and
both refinements, are proved.

## 8. Not modelled

* *Queue client*: never constructed (nobody calls `User::ConnectQueue`); its code
  is the game client's.
* *Utilities*: an HTTP helper and hash functions that nobody calls.
* *Configuration*: the parsing of options and files; `Boot` has its failure and the
  values the start depends on.
* *The gateway and the back end* of `PipeBuffer`: they are not in the repository.
* *Lifetime*: a timer's item keeps its session and the session its timer, so that
  no session is freed; the models have sessions that are never destroyed, which
  is what the program does.
* Stopping the server, which nobody does.

## 9. What is left

The ownership of sessions and timers, that is, which `shared_ptr` keeps what, and
with it the lifetimes.
