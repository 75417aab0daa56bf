# Formal models of the reactor chat server

TLA+ specifications of the reactor network library (`src/src/net`, `src/src/base`)
and of the chat server built on it (`src/src/chat`), the TLC configurations that
check them, and TLAPS proofs of every safety property of these modules and of the
safety half of every refinement. Paths below are relative to the repository's
`src/src/`.

## 1. The system

One thread per loop. A **base loop** accepts connections and hands each to one of
N **io loops**; from then on everything about that connection happens on its own
loop's thread. Threads talk through one door only: `EventLoop::queueInLoop`,
which pushes a functor under a mutex and writes to an eventfd. The chat adds the
one piece of state several loops share: `RoomManager`, under a mutex.

| Part | State it keeps | Operations | What is hard about it | What makes it correct |
|---|---|---|---|---|
| `net/EventLoop` | `quit_`, `activeChannels_`, `pendingFunctors_`, `callingPendingFunctors_`, the eventfd's counter | `loop`, `quit`, `queueInLoop`, `runInLoop`, `wakeup`, `doPendingFunctors` | other threads between any two of its steps; pushing and waking are not atomic; functors that queue functors | no wakeup lost, functors once and in order, `quit()` obeyed |
| `net/EventLoopThread` | `loop_`, `mutex_`, `cond_`, the thread | `startLoop`, the thread's lambda, destructor | the loop lives on the other thread's stack; destroying it while someone is in `quit()` | the loop outlives every call; `startLoop` and `join` return |
| `net/EventLoopThreadPool` | loops, `next_` | `start`, `getNextLoop`, destructor | wrap-around; a pool of no threads | a valid loop for every connection |
| `net/Acceptor`, `net/TcpServer` | `connections_`, `nextConnId_` | `handleRead`, `newConnection`, `removeConnection`, destructor | a removal crosses threads twice; `shared_ptr`s inside queued functors; raw `Channel*` in epoll | announced up once, down once, freed after that; no raw pointer to a freed object |
| `net/Channel`, `net/EPollPoller` | `events_`, `index_`, tie; the epoll set | `updateChannel`, `removeChannel`, `poll`, `handleEvent` | readiness reported earlier than it is handled | only live channels of the own loop are reported |
| `net/TcpConnection` | `state_`, `outputBuffer_`, `inputBuffer_`, the channel's interest | `send`, `sendInLoop`, `shutdown`, `handleRead/Write/Close/Error` | short writes, edge-triggered mode, half close while bytes wait, callers on other threads, resets | bytes arrive in order; the FIN stays behind them; a hang-up is noticed |
| `net/TimerQueue` | a heap, one timerfd | `addTimer`, `handleRead`, `resetTimerfd` | the timerfd is shared: an added timer, a callback that adds one, a read of an expiration that was re-armed | once, not early, not never |
| `chat/RoomManager`, `chat/ChatServer` | `rooms_`; per connection a `Session` (room, nick, `lastActive`) | `/join`, speaking, `/quit`, `/nick`, `/who`, leaving, idle kick | broadcasts cross loops; clients move and leave meanwhile | rooms and sessions agree; a line is heard once by those in the room; silent clients are kicked |
| `base/AsyncLogger` | two spare buffers, full buffers, `running_` | `append`, `start`, `stop`, `threadFunc` | hand-over of buffers, stop during a write, restart | no line lost, doubled or out of order; complete after `stop()`, unless it could not be opened |
| `base/Buffer`, `chat/Codec` | indices into a byte vector; unfinished line | `append`, `retrieve`, `makeSpace`, `readFd`; `takeLines` | growing and moving at the boundary; pieces cut anywhere | a byte queue; lines independent of how the bytes were cut |
| `examples/` | per connection a `Buffer` | `http_server`'s and `echo_server`'s message callbacks | a header that arrives in pieces, bytes behind it | one answer, at the blank line; every byte echoed |
| `bench/bench_client.cc` | `LineReader`'s string and position | `readLine` | reclaiming the consumed front | the same lines as `takeLines` |
| `net/Socket`, `base/InetAddress`, `base/Logging.h` | none of their own | system calls, formatting | – | – |

`PROJECT.json` lists the hazards of this code, each at its line, with the
properties that cover it.

## 2. Modules

| Module | What it is |
|---|---|
| `TaskQueue` | abstract: what `queueInLoop` promises |
| `EventLoop` | `net/EventLoop.cc`, any number of threads; implements `TaskQueue` |
| `EventLoopThread` | extends `EventLoop` with the thread that runs it and the controller that starts and destroys it |
| `EventLoopProofs` | the theorems of both |
| `ConnLifecycle` | abstract: a client is announced up, down, and then freed |
| `TcpServer` | Acceptor, TcpServer, thread pool, Channel/EPollPoller registration and the connection's life; implements `ConnLifecycle` |
| `TcpServerProofs` | its theorems |
| `TcpServerTeardown` | extends it with `~TcpServer` |
| `ByteStream` | abstract: accepted bytes arrive in order, end-of-file behind them |
| `TcpConnection` | one connection's data path against kernel and peer; implements `ByteStream` |
| `TcpConnectionProofs` | its theorems |
| `TcpConnectionTail` | extends it with the order of calls one foreign thread makes |
| `Alarm` | abstract: `runAfter` fires once, not early, not never |
| `TimerQueue` | heap and timerfd in the loop's rounds |
| `IdleKick` | extends it with ChatServer's idle chain; implements `Alarm` |
| `IdleKickProofs` | their theorems |
| `ChatRooms` | abstract: who hears which line, in which order |
| `ChatServer` | commands on several io loops, `RoomManager` and its mutex; implements `ChatRooms` |
| `ChatServerProofs` | its theorems |
| `LogFile` | abstract: the file is a prefix of the log and catches up |
| `AsyncLogger` | `base/AsyncLogger.cc`; implements `LogFile` |
| `AsyncLoggerProofs` | its theorems |
| `Buffer` | `base/Buffer` as operators on a record of its three members |
| `Framing` | a connection's two buffers under chat, http and echo, and the benchmark's `LineReader` |
| `FramingProofs` | what each operation of `Buffer` does to the indices and the readable bytes, and the theorems of `Framing` |
| `SequenceLemmas` | facts about sequences the proofs share |

The `MC*` modules extend a specification for TLC and define symmetry sets. The
`map` in `PROJECT.json` gives the source lines of every definition.

### State and actions against the code

**EventLoop.** Variables bear the members' names; `phase` is the owner's program
counter in `loop()` (`before`, `test`, `poll`, `events`, `functors`, `exited`),
`inCallback` says that user code runs there. `events_` is the size of
EPollPoller's event array: a poll reports at most that many channels and doubles
an array it filled, so the eventfd may be left out of a full round. The code is cut exactly where
another thread can come between: the locked `push_back` and the eventfd write of
`queueInLoop` are two steps (`pc[th] = "wake"` between them), and so are `quit_ =
true` and its wakeup. `posted`, `ran` and `inlined` are history. Each functor is
queued at most once, which bounds the run and makes order and repetition
visible.

**EventLoopThread.** `ctl` and `io` are the program counters of the controller and
the io thread. A locked section is one step unless another thread may run inside
it: only the destructor holds `mutex_` across steps, because `quit()` inside
it writes to the eventfd of a loop the io thread might otherwise destroy.
`cond_.wait` sleeps until notified; only the controller waits.

**TcpServer.** One step is one event callback or one functor of a loop; different
loops interleave freely. A loop is used through what is proved of it (functors in order,
once, wakeups not lost). `shared_ptr` ownership is explicit: `Referenced(c)`
holds while the table, a room or a queued or running functor captures the
connection, a batch keeping its captures until it is destroyed; `Freed` is the
moment the last reference has gone. `index_` is the channel's registration, `active` the raw pointers
`epoll_wait` returned. A whole `RoomManager::broadcast` is one step: its lock
keeps a member that is closing from passing `leave()` before the posts are made.
`/join` and its announcement are one step too, though the lock is free between them:
another thread's step there may as well come before or after, as far as lifetimes go.
Who hears what is `ChatServer`'s.
The number of threads is chosen in `Init`; with none, the
posts are direct calls, as in the code. `start()` brings the io loops up one by one
(`startLoop`) and only then posts `listen`. The event array is not modelled here:
three clients and two more channels never fill its sixteen places.

**TcpConnection.** One connection between its loop, other threads, the kernel
(`sndbuf`, `rcvbuf`, `sockErr`, and for edge-triggered mode the ready-list bit
`edge`) and the peer. One system call per step. `shutdown()` on another thread
tests `state_` and writes it in two steps, because the code does: the comment that
only the owner writes `state_` (`net/TcpConnection.h:69`) does not hold of it, and
a `kDisconnected` may be overwritten with `kDisconnecting`. The properties checked
here hold all the same, and TLC sees the case. `ByteStream`'s promise ends where
the connection is given up (`gone`): `handleRead` closes on the peer's
end-of-file, and what waits in `outputBuffer_` is dropped there.

**TimerQueue / IdleKick.** Time is a counter; a tick may come between any two
steps, in particular between the poll that reported the timerfd and the
`read`, and between a timer's expiry and its callback. A step itself takes no time.
In the code a `send()` lies between the setting of `lastActive` and the clock that
`runAfter` reads (`chat/ChatServer.cc:46-48`), and `resetTimerfd` turns a time into a
delay from a clock it reads earlier (`net/TimerQueue.cc:41-48`), so the times that
`IdleCovered` and `TimerfdCoversTop` bound hold up to the handler's own running time.
`RunInDueOrder` speaks of timers in the heap and in `handleRead`'s vector; one that
another thread has posted joins them when its functor runs. `expiry` is the armed time. The idle
chain uses three facts of the chat: `lastActive`, the state, and the callback
that kicks or renews.

**ChatServer.** The steps are cut where a handler takes or releases `mutex_`, at
each member a broadcast sends to and at each member `members()` copies; `doing`
holds what a thread is in the middle of. `nick` is written under the lock by
`/nick` and read under it by `/who`. `heard` is what each connection's
`sendInLoop` took.

**Buffer / Framing.** `buf_` keeps the bytes that are no longer readable, as the
vector does, so an operation that used a stale index would show. `readFd` fills
the free space and `extrabuf` and appends the overflow. In `Framing` a piece of
any length with EOLs anywhere arrives, and the application takes its units out:
one turn of `takeLines`' loop is a step, as is one call of `readLine`. `arrived`,
`taken`, `lines`, `accepted` and `sent` are history. The n-th byte of the stream
is an EOL or the number n, which tells every byte from every other.

**AsyncLogger.** A section under `mutex_` is one step; writing a buffer, flushing
and recycling are steps without it. Lines carry their number and length. A buffer is
the lines in it and `cur_`, the bytes they fill.

## 3. Runs

| Run | Question | Instance | Result |
|---|---|---|---|
| `eventloop` | can a functor or `quit()` be stranded behind `epoll_wait`, or behind a full event array; are functors run once, in order, every one, by wakeups alone; is `quit()` obeyed; does the eventfd go quiet | 2 foreign threads, 3 functors, 1 io channel, event array of 1, no poll timeout | holds |
| `eventloopthread` | hand-over of the loop pointer, destruction | the loop above with 2 functors and a controller | holds |
| `lost_quit` | does the destructor always join | same, timeouts on | **violated**, see 6 |
| `tcpserver_safety` | pointers, pairing of callbacks, rooms, thread confinement | 3 clients, 0..2 io loops, 2 lines each, symmetric clients | holds |
| `tcpserver_lifecycle` | is everybody announced, and freed in the end | 2 clients, 0..1 io loops | holds |
| `server_teardown` | does the tie pin a connection during `~TcpServer` | 2 clients, up to 2 io loops | **violated**, see 6 |
| `connection` | stream, FIN, interest in EPOLLOUT, input, hang-up; both trigger modes | 2 messages of 2 bytes, send buffer of 2, 2 input bytes | holds |
| `send_then_shutdown` | does the FIN stay behind every `send()` a foreign thread made before | 2 messages of 1 byte | **violated**, see 6 |
| `timers` | timerfd, order, idle chain | the chain and 2 timers, delays 0, 1, 3, time to 4, idle after 2 | holds |
| `chat_rooms` | rooms against sessions; who hears what; what `/who` sees | 2 clients, 2 loops (shared or not), 2 rooms, 1 nick, 4 commands | holds |
| `async_logger` | the file against the log through swaps, stop and restart; does `stop()` return, with a complete file if it was opened | 3-byte buffers, 4 lines of 1 to 3 bytes, 2 starts | holds |
| `framing` | buffers' indices, no byte lost, lines and answers independent of the cuts | 7 bytes in pieces of any length, EOLs anywhere, buffers of 1 + 2 bytes, `extrabuf` of 2 | holds |

Why these bounds reach the interesting cases:

* Two foreign threads can both be between push and wakeup while the owner's own
  functor queues a third; with three functors a batch holds two while one more is
  pending.
* An event array of one place is full in every round with an event; the second
  channel waits for the next round, and the array grows past both.
* Three clients on two loops put two on a shared loop and one on another, so a
  broadcast sends directly and posts in one call, while the third closes. Two
  lines let a client join and then speak or quit.
* With a two-byte send buffer and two-byte messages a write is taken whole, in
  part or not at all, and a second message finds the first one waiting. Two input
  bytes let a read leave one behind, the case in which an edge-triggered loop
  that read only once would hang.
* Delay 0 and a passing tick make timers that are past due when added; two timers
  beside the chain can be added earlier and later than the top, by the owner, by
  callbacks and by another thread.
* Two clients either share a loop or do not, and four commands suffice to join two
  rooms, move, and speak while the other does. One nick beside the empty one
  distinguishes the member before and after its `/nick`.
* With `kPrepend` 1, `kInitial` 2 and `ExtraSize` 2 seven bytes fill the buffer to the
  last byte, overflow into `extrabuf`, are moved to the front and make it grow. They
  hold an http header's four EOLs with bytes before and behind, and several lines in
  one piece. `TmpSize` 3 and `ReclaimLimit` 2 let `readLine` erase its front.
* Three-byte buffers and four lines fill both spare buffers and force a new one
  while the back end is writing; two starts cover the restart.

Bounds: `MaxThreads`, `MaxMessages`, `MaxInput`, `MaxLines` (commands in
`ChatServer`, lines in `AsyncLogger`), `MaxStarts`, `MaxTime`, `Delays` and
`MaxBytes`; `InitialEvents`, `kSize`, `SndCap`, `kPrepend`, `kInitial`, `ExtraSize`,
`TmpSize` and `ReclaimLimit` are sizes of the code made small; everything else is a set of model values. Deadlock is not checked: each program may rightly stop or fall silent (every
client gone, loop exited, bounded inputs used up).

Every property of a passing run has a mutant in `PROJECT.json`: a plausible slip
in a mapped definition that makes it fail.

## 4. Fairness

* **EventLoop**: the owner's code goes on, and a thread that has pushed goes on to
  its wakeup. `epoll_wait` returns only if the eventfd is readable or, where
  allowed, by its 10 s timeout. In `eventloop` and `eventloopthread`
  the timeout is taken away: that the wakeups suffice without it is the stronger
  claim. In `lost_quit` it is kept, so the violation does not stem from its absence.
  Io events and callers get none.
* **EventLoopThread**: both threads run. Condition and mutex need no more: one
  waiter, and the lock holder always leaves.
* **TcpServer**: all loops run. `newConnection` is strongly fair, which says
  `accept`'s errors are transient; the level-triggered listening socket retries.
  Clients get none.
* **TcpConnection**: the owner's round is weakly fair, and the peer reads what has
  arrived as long as it has not gone away. A peer that stops reading for ever
  would hold the bytes for ever, in the code as in the model.
* **TimerQueue / IdleKick**: the loop goes round (the poll's timeout), callbacks
  return, time passes.
* **ChatServer**: threads finish what they are doing and run their functors. The
  mutex is not assumed fair: the number of commands is bounded.
* **Framing**: none; safety only. That bytes get out is `TcpConnection`'s.
* **AsyncLogger**: both threads run, and `wait_until` ends by its timeout at the
  latest; `stop()` need not be called.

## 5. What is proved

All of it by TLAPS, for every value of the constants the named assumptions admit. Each
subsection names the theorems, the assumptions and the inductive invariant. TLC finds
each of these invariants to hold on the instance of its component's run as well.

### The event loop and its thread (`EventLoopProofs`)

For every set of foreign threads, functors and channels and every size of the event
array, from `ThreadAssumption` (the owner is not one of the foreign threads),
`ChannelAssumption`, `EventsAssumption` and `TimeoutAssumption`:

* `Inductive`: `SafeSpec => []IInv`
* `TypeCorrect`: `SafeSpec => []TypeOK`
* `NoWakeupIsLost`: `SafeSpec => []NoLostWakeup`
* `FunctorsRunInOrder`: `SafeSpec => []RunsInOrder`
* `Refinement`: `SafeSpec => TQ!SafeSpec`, with `stopped` mapped to
  `phase = "exited"` and the histories to themselves

`NoLostWakeup` speaks of `phase = "poll"` only and is not inductive: a step from
`test` to `poll` must already find the wakeup on its way. Hence
`IInv`:

* `PendingWakes` carries the obligation through `before`, `functors`, `test` and
  `poll`, the phases from which the owner gets to `epoll_wait` without swapping
  the list first. `events` is exempt, since the swap follows it: this is where
  `queueInLoop` may skip the wakeup on the owner's own thread, and why it may not
  skip it while `callingPendingFunctors_` is set.
* `QuitWakes` is the same for `quit_`.
* `CallbackPhases` says that user code runs only in `events` and `functors`, so
  the owner cannot queue in a phase the obligation covers without waking itself,
  except while the flag is set.
* `BatchOnlyInPhase` says the batch is empty outside `functors`, so that the swap
  forgets nothing; with it `RunsInOrder` is inductive.
* `TypeOK` ties the flag to the phase.

`TypeStep`, `OrderStep` and `CycleStep` prove the conjuncts step by step, one
case per action. `AppendToConcat` and `MoveHead` are the facts about sequences
that order and refinement rest on.

For the loop on its thread, with `ControllerAssumption` (the controller is one of the
foreign threads):

* `ThreadInductive`: `SafeSpecT => []ThreadIInv`
* `ThreadTypeCorrect`: `SafeSpecT => []ThreadTypeOK`
* `CallsReachALiveLoop`: `SafeSpecT => []LoopOutlivesItsCalls`
* `ThreadRunsAnEventLoop`: `SafeSpecT => SafeSpec`

The last one composes: every step of `EventLoopThread` is one of `EventLoop` or leaves
its variables alone, so all that is proved of a loop holds of the loops of the pool.
`LoopOutlivesItsCalls` says where the loop is alive, `ThreadIInv` why: only the
destructor quits it (`OnlyDestructorQuits`), only `quit()` lets it exit (`ExitsByQuit`),
and the write to the eventfd that `quit()` ends with is over before the destructor lets
go of `mutex_` (`CallsEndUnderLock`), for which the io thread waits before it destroys
the loop.

### Server and connections' lives (`TcpServerProofs`)

For any clients, any number of io loops, none included, and any number of lines, from
`ThreadNumAssumption`, `MessagesAssumption` and `ListenAssumption` (the listening
channel is no connection):

* `ServerInductive`: `SafeSpec => []ServerIInv`
* `ServerTypeCorrect`: `SafeSpec => []ServerTypeOK`
* `NoChannelDangles`: `SafeSpec => []NoDanglingChannel`
* `CallbacksComeInPairs`: `SafeSpec => []CallbacksPaired`
* `RoomsHoldOnlyTheLiving`: `SafeSpec => []RoomsHoldTheLiving`
* `ServerThreadConfined`: `SafeSpec => ThreadConfined`
* `LifecycleRefinement`: `SafeSpec => Life!SafeSpec`, the safety half of
  `ImplementsConnLifecycle`

That no pointer dangles depends on what is still queued: a removal posted twice, or a
functor that finds the connection in another state than the code expects, would break
it. `ServerIInv` therefore ties four things to `state_`. `LifeOf` says for each state
whether the connection is in the table, registered with epoll and announced. `TasksFit`
says the same of every functor a loop has queued or is running: a `connectEstablished`
finds `kConnecting`, an erasure a closed connection that is still in the table, a
`connectDestroyed` one that is no longer there. `TasksOnce` says that none of these is
queued twice, and `Rounds` that what `epoll_wait` reported is still registered, because
only the own loop takes a channel out, one per callback. `PoolFirst` says that nobody
connects before the io loops run, so `getNextLoop` finds one and `next_` stays inside.

### Buffer and framing (`FramingProofs`)

For every size of the prepend area, of the initial space and of `extrabuf`, every
stream and every way to cut it, from `SizeAssumption`, `ByteAssumption` and the
assumptions on `Framing`'s constants:

* `Appended`, `ReadFd`: the indices stay in order, nothing is written outside of
  `buf_`, and the readable bytes are the old ones with the new behind them, whether
  `makeSpace` moved or grew
* `FramingInvariant`: `Spec => []FramingIInv`
* `BuffersWellFormed`: `Spec => []FramingTypeOK`
* `FramingCorrect`: `Spec => []CutsDoNotMatter`

The lemmas about `Buffer` translate each operation into one on the sequence
`Content(b)`: `Retrieve` takes off the front, `Resize` and `MoveForward` change
nothing, `Write` adds behind. The framing proofs use only these, never `buf_`.
`CutsDoNotMatter` is not inductive for http: that the answer comes exactly when the
blank line has arrived needs to know, also inside the callback, that nothing was
consumed before the answer and that a blank line once arrived stays where it is
(`HttpConsumes`, `BlankLineStays`).

### The chat (`ChatServerProofs`)

For any number of connections, loops, rooms and nicks, from `EmptyAssumption` (no
room has the empty name) and `LinesAssumption`:

* `ChatInductive`: `SafeSpec => []ChatIInv`
* `ChatTypesKept`: `SafeSpec => []ChatTypeOK`
* `RoomsAgree`: `SafeSpec => []RoomsMatchSessions`
* `WhoSeesOneMoment`: `SafeSpec => []WhoIsSnapshot`
* `ChatDelivery`: `SafeSpec => [](ChatIInv /\ DeliveryInv)`
* `ChatRoomsRefinement`: `SafeSpec => CR!SafeSpec`, the safety half of
  `ImplementsChatRooms`

`ChatIInv` adds what the lock gives: `mutex_` is held by exactly the threads that
walk a room (in `ChatTypeOK`), by one at a time (`OneHolder`), so whoever finds it
free may change rooms and nicks; a name still to be copied is a member's
(`TodoInRoom`); and a thread about to `leave()` has a closed connection of its own
(`LeavingOwn`), so nobody else moves it in between. `LockMoves`, `RoomsMoves`,
`WhoMoves` and `LeavingMoves` prove each of these for any change of one thread's
activity; the lemma of each action names the activity and cites them.

The refinement needs the order in which lines travel, `DeliveryInv`. No line is numbered
ahead of its speaker (`LinesSpoken`), so a new one was never heard. A thread speaks for
its own connections only, and what lies in its `pending` was spoken on other threads
(`OwnSpeakers`): hence a line sent directly overtakes none of the same speaker, although
it jumps the queue. In `pending` one speaker's lines to one member are in order
(`PendingInOrder`), and what a broadcast is sending is behind all of them
(`BroadcastIsLast`), so a functor always carries the next line. A posted send is a
stutter: the member was owed the line and still is.

### A connection (`TcpConnectionProofs`)

For any messages, message length, send buffer and input, from `SizeAssumption` and
`InputAssumption`:

* `ConnInductive`: `SafeSpec => []ConnIInv`
* `StreamKept`: `Spec => []StreamIntact`
* `ConnTypeCorrect`: `Spec => []ConnTypeOK`
* `AsksWhileBuffered`: `Spec => []WritingIffBuffered`
* `FinIsLast`: `Spec => []FinAfterFlush`
* `ConnRefinesByteStream`: `SafeSpec => BS!SafeSpec`, the safety half of
  `ImplementsByteStream`

The stream alone is not inductive. `sendInLoop` may append to what was accepted only
because nothing has gone out behind it: `ClosingTold` says that `state_` has left
`kConnected` before a half close is so much as posted and before the channel is given
up, and `EofIsLast` that an end-of-file the peer has read was behind everything.
`WritingIffBuffered` is what lets `sendInLoop` write past `outputBuffer_`, and lets
`shutdownInLoop` take "not writing" for "nothing left". `SendKeeps` proves this once for
both ways a message is taken; `Quiet` covers the nine steps that touch neither bytes,
functors nor closing.

### Timers and the idle chain (`IdleKickProofs`)

For any timers, delays, bound on time and idle timeout, from `DelayAssumption` and
`IdleAssumption`:

* `IdleInductive`: `SafeSpec => []IdleIInv`
* `TopCovered`: `SafeSpec => []TimerfdCoversTop`
* `TimersTypeCorrect`: `SafeSpec => []TimerTypeOK`
* `DueOrder`: `SafeSpec => []RunInDueOrder`
* `ClientFollowed`: `SafeSpec => []IdleCovered`
* `AlarmOnceNotEarly`: `SafeSpec => AL!SafeSpec`, the safety half of `ImplementsAlarm`

A timer that is set has exactly one record, in the heap, in `handleRead`'s vector or in
a posted functor, and the record tells the time it was set for. `RecordSet`,
`RecordQueued`, `RecordMoved`, `RecordsTaken` and `RecordCalled` prove that for the five
ways records change. `AddCovers` is the one fact about the timerfd: whichever call sets
it last, it points at the earliest timer or at once. Two facts close the induction:
nothing is in the vector outside the round that took it, and what is in it is expired
(`OnlyExpiredInHand`). The second is why no timer a callback adds gets ahead of the
vector, and why none is early. That the heap has a top (`TopIsEarliest`) rests on `<`
being well founded, that the expired ones can be lined up (`LateOnes`) on the heap being
finite.

### The logger (`AsyncLoggerProofs`)

For any lines, buffer size and number of starts, from `SizeAssumption` and
`StartsAssumption`:

* `LoggerInductive`: `SafeSpec => []LoggerIInv`
* `LoggerTypeCorrect`: `SafeSpec => []LoggerTypeOK`
* `LogStaysIntact`: `SafeSpec => []LogIntact`
* `StopFlushes`: `SafeSpec => []StoppedMeansFlushed`, for a back end that had its last
  round; after a failed `fopen` there is none
* `LogFileRefinement`: `SafeSpec => LF!SafeSpec`, the safety half of `ImplementsLogFile`

The file followed by all buffers in flight is the log. Said with a concatenation over a
sequence of buffers that would be a fold, and what a fold yields takes induction over
data. `Intact` says it with a function instead: `cut[i]` is where the i-th buffer ends in
the log, and buffer i holds the stretch between two cuts. A swap, a written buffer or an
appended line each changes this function in one place (`Stretch*` in `SequenceLemmas`
are the facts about stretches). `StoppedMeansFlushed` is not inductive: `RoundInHand`
adds that buffers are out only during a round, and that in the round that begins after
`stop()` nothing new can be appended. `StopperWaits` keeps `stop()` and the back end in
step, a failed `fopen` included.

### Not proved

Model-checked only, with fairness: `QuitStops`, `WakeupsDrain`, `StartReturns`,
`JoinAfterQuitReturns`, `InputDrained`, `HangupNoticed`, `SilentIsKicked`, `StopReturns`,
and the liveness halves of the six `Implements...` properties. Liveness rests on `ENABLED`
and on well-founded induction, which the provers used here do not handle. Every invariant
and every other action property of a passing run is a theorem. The three violations of
section 6 are counterexamples TLC finds; nothing is proved of `TcpServerTeardown` and
`TcpConnectionTail` beyond what they extend. What the provers cannot do either is
induction over data, so `Intact` and `CutsDoNotMatter` are stated in forms that each step
changes in one place.

## 6. Where the code and its comments part

* **A lost quit** (`lost_quit`). `loop()` begins with `quit_ = false`
  (`net/EventLoop.cc:39`). `startLoop()` returns before the io thread is in
  `loop()`; a destructor that runs then sets `quit_`, wakes the loop, and the
  assignment erases it: `join()` never returns. `net/EventLoopThread.h:14`
  promises a quit and a join. `JoinAfterQuitReturns` is what does hold.
* **Teardown** (`server_teardown`). `~TcpServer` drops `connections_` before the
  io threads are joined (`net/TcpServer.cc:19`). A connection only the table
  holds is freed on the base thread while its io thread has its `Channel*`; the
  tie cannot help, being part of the object freed. `net/TcpConnection.h:3-4`
  promises that it pins the object. The shipped server never destroys
  its `TcpServer` while it runs.
* **Send, then shutdown, from another thread** (`send_then_shutdown`). `shutdown()`
  sets `kDisconnecting` at once, `send()` was only posted, and `sendInLoop` drops
  whatever is no longer `kConnected` (`net/TcpConnection.cc:79`).
  `net/TcpConnection.h:6,37-38` call both safe from any thread and promise the
  half close after the flush. On the owner's thread the order is kept; the chat
  calls it only there.

Observed and kept in the models, without a claim against it: clients that were
kicked or sent `/quit` stay in their room until they close and may still speak;
speakers on different loops have no common order (`ChatRooms` promises only each
speaker's own).

## 7. Not modelled

* `Socket`, `InetAddress`: system-call wrappers; their effect is the kernel's part
  of `TcpServer` and `TcpConnection`.
* `Logging.h`: formatting and output.
* Of `examples/` and `bench/`: the `main`s, the page's text, htmlEscape, the load
  generator's workers and its statistics.
* The text of replies to a command's own sender, of broadcasts and of `/who`'s list.
* EPollPoller's fd-to-channel map, which nothing reads.
* A limit on `outputBuffer_`: the code has none, so no property can say that it is
  kept (`net/TcpConnection.cc:95`).
* Connections beyond the event array in `TcpServer`: the array is in `EventLoop`.

## 8. Plan

Done, in this order: `EventLoop` and `TaskQueue`, its proofs, `EventLoopThread`,
`TcpServer`, `TcpConnection`, `AsyncLogger`, `TimerQueue`/`IdleKick`, `ChatServer`;
then `Buffer` and `Framing` with their proofs, the event array, the pool's start and
joins, nicks and `/who`, and the proofs of the chat, the connection and the timers; then
the proofs about `EventLoopThread`, `TcpServer` and `AsyncLogger` and the chat's
refinement of `ChatRooms`.

Next: theorems that compose modules. `TcpServer` uses of a loop what `EventLoop` proves of
it (functors in order, once), and `ChatServer` takes connections as announced; both are
stated in section 2 and checked module by module, but no theorem says so of the
composition.
