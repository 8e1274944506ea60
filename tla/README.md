# Verification of the Toast engine core

TLA+ models of the concurrent and distributed parts of this repository: the
engine's thread pool, its asynchronous logger, its event system, the main loop
with its window and application layers, the log server the logger talks to, and
Kenzo, the terminal client of that server. TLC checks the models on small
instances; TLAPS proves the main safety properties for every value of the
constants.

## 1. Inventory

| component | state | operations | who calls it, and how it interacts |
|---|---|---|---|
| **ThreadPool** `engine/src/toast/thread_pool.{hpp,cpp}` | job queue, `active_jobs` (atomic), `should_stop`, one mutex, two condition variables, worker threads | `queueJob` (static, any thread), `threadLoop` (workers), `waitIdle`, `destroy`, `~ThreadPool`, `busy` (deprecated, reads only) | the logger queues its drains; jobs may queue jobs |
| **Logger** `logger.{hpp,cpp}`, `log.hpp`, `ffi/log.h` | `log_queue` under a mutex, `drain_pending` (atomic), the socket, a static `instance` | `log` (any thread), `drain` (a pool job), `create`/`initNetworkRetry`, `stop`/`flushSync`/`~Logger` | pushes jobs into the thread pool, writes frames to the log server |
| **Event queue** `events/event.cpp`, `event.inl` | two pools with a vector of events each, `index`, `pool_mutex` | `event::send` (any thread), `event::pollEvents` (main thread) | callbacks run inside `pollEvents` and may send |
| **Event dispatch** `events/event.{hpp,inl}`, `listener.{hpp,inl,cpp}` | per type a multimap of callbacks, a cached order and a flag; a global deletion queue; per listener its handles and `enabled` | `Listener::subscribe`, `unsubscribe`, `enabled`, `~Listener`; `Event<T>::notify` | called between polls and from callbacks |
| **Engine loop, C API** `engine.cpp`, `application.hpp`, `ffi/engine.h` | owner of pool, logger and window; `active_application` | `tick`, `pushApplicationLayer`, `toast_create`, `toast_tick`, `toast_should_close`, `toast_destroy`, the window functions | pumps the window, polls the events, ticks the application; the application and callbacks call back into it |
| **SDL window** `window/{base_window,sdl_window,window_events}.*` | SDL's window and queue, `should_close`, a listener | construction, `pollEvents`, the callbacks that close it | translates SDL's events into engine events and sends them |
| **Log server** `tools/log_server/src/{server,storage,main}.rs` | the vector of logs under an RwLock, a broadcast channel of 1000, `engine_connected` | accept and serve an engine, `add_logs`, `save_csv`; accept and serve TUIs | reads frames from engines, sends frames to TUIs |
| **Kenzo** `tools/kenzo/src/{app,ui}.rs` | connection state, receiver channel and stop signal; logs, filters, search matches, selection | `run`, `connect`, `reconnect`, `disconnect`, the tasks they spawn; key handlers, `load_csv`, `process_log`, `update_filtered_logs`, `draw` | a client of the log server |
| Kenzo's terminal set-up, wire format, editor, player, game, tests, build | – | layout, serialization, an empty shell, a host loop | see section 7 |

What is hard here: notifications sent after an unlock and a counter updated
without the lock (pool); a hand-over of one drain slot between threads, and a
shutdown beside a running drain (logger); a producer and a consumer that swap
buffers (event queue); unsubscribing and destroying while a cached list is
walked without a lock (dispatch); input that must be seen in the frame it was
pumped in, layers pushed from inside the functions of other layers, requests
that outlive their window (main loop); a snapshot followed by a subscription,
and a channel that overwrites (log server); tasks that outlive their session,
and indices into lists that change under them (Kenzo). `PROJECT.json` lists each
of these at its line under `hazards`, with the properties that would catch it
going wrong.

What makes each component correct:

* **ThreadPool**: jobs start in FIFO order, each exactly once, none after the
  stop; no lost wake-up of a worker or of `waitIdle`; `waitIdle` returns only
  when everything queued has finished, and does return; teardown terminates.
* **Logger**: one drain at a time; no message stranded in the queue; each
  message in one place at any moment, so that none is lost in silence or sent
  twice; order kept; every message attempted; `stop` terminates and waits for
  what it must.
* **Event queue**: the walked pool is never written to; every event dispatched
  once, in order, by a later poll than the one it was sent in.
* **Dispatch**: a walk never meets a freed callback; a valid cache equals the
  map; priority order; each callback freed exactly once, in the end.
* **Engine loop and window**: what the window sends is dispatched before the
  application ticks; one layer at a time; a window closes only when it, or the
  program, was asked to.
* **Log server**: storage equals what was written, in order; the CSV of an
  exited server is complete unless an engine's connection failed; a TUI sees the
  storage in order and misses nothing but what is stated below.
* **Kenzo**: a session shows its own batches in order; abandoned tasks end; a
  server that comes back is found; rows and matches are always those of the
  filters and the search; an unlocked scroll follows the latest row.

## 2. Modules

| module | models | composes |
|---|---|---|
| `WorkQueue` | what the pool promises: accept, start, finish, close | – |
| `ThreadPool` | the pool, its clients and its owner | `WorkQueue` by `INSTANCE ... WITH` |
| `Logger` | producers, pool workers running drains, the owner, the peer | uses the promise of the pool: a queued drain is run later by some worker |
| `EventBus` | what the event system promises: a poll dispatches, once and in order, exactly what was sent before it began | – |
| `EventQueue` | senders, the poller, two pools | `EventBus` by `INSTANCE ... WITH` |
| `EngineLoop` | the host, the main loop, the SDL window, the application layers | extends `EventQueue`: the main thread is its poller, every send and poll is one of its steps |
| `Dispatch` | what `Event<T>` promises its subscribers: who is offered an event, and in which order | – |
| `EventDispatch` | listeners, the per-type caches, the deletion queue, the poller | `Dispatch` by `INSTANCE ... WITH`; uses the promise of `EventBus` as two sequences |
| `LogStream` | what the log server promises: a log that only grows, readers that get a prefix and then follow | – |
| `LogServer` | engines, the listener task, the storage and channel, TUI tasks | `LogStream` by `INSTANCE ... WITH` |
| `KenzoSession` | the loop of `App::run`, the connection state, the tasks and their channels, the server as the socket shows it | – |
| `KenzoView` | filters, search, selection, scroll lock, drawing | takes batches and files from the session as inputs |
| `MC...` | the constants of the instances | one per model that is run |
| `...Proofs` | theorems | extend the module they are about; `EngineLoopProofs` has those of `EventQueue` first and those of `EngineLoop` after them |

In each module a definition whose comment begins with "Slip" is not part of
the specification: it is an operation with a plausible mistake in it, kept to
show that the properties notice the mistake. `PROJECT.json` pairs each property
with such a slip.

### ThreadPool

One step is one critical section of `queue_mutex`, or one access outside of it.
A worker is in `lock` (about to take the mutex), `wait` (in the wait set of
`job_available`), `run`, `notify` (its job is inside `queueJob`, between the
push and `notify_one`), `finish` (before the decrement), `last` (it brought
`active_jobs` to 0 and has not locked yet) or `exit`. The owner is the thread
with the `unique_ptr`: `use`, inside `waitIdle` (`check`, `asleep`), `idle`
after it, inside `destroy` (`notify`, `join`, `log`), `destroyed`, `gone`. Both
condition variables may wake spuriously. `queueJob` is `ClientQueueJob` followed
by `ClientNotify`; `threadLoop` is `Sleep`, `Take`, `JobReturns`, `Decrement`,
`NotifyIdle`, `Exit`; `destroy` is `SetStop`, `NotifyAll`, `Join`, `LogDestroyed`; the destructor
is `BeginDtor`, then `waitIdle`, then `destroy`. `orderly` is a way to use the
pool: `destroy()` only after `waitIdle()`, and clients stop queueing when that
wait is over. `logger`, chosen when `destroy` begins, says whether a Logger is alive: if so, the
`TOAST_INFO` that ends `destroy` may find its drain slot free and queue a drain
on the pool that has just been stopped. `OrderlyLosesNothing` says that this one
job is all an orderly teardown can leave behind, and `OrderlyCallsReturn` that
without it the calls return. In `Engine` no Logger is alive then: `EnginePimpl`
declares the pool before the logger, so that the logger is destroyed first.
`NoLostWakeup` is the three wake-ups together: of the workers, of
`waitIdle`, and of everyone by the stop.

### Logger

`log` is `ReadInstance`, `Push`, `Claim` (the atomic exchange), `Submit` (the
call of `queueJob`); `drain` is `StartDrain`, `Collect`, `WriteSucceeds` or
`WriteFails`, `Release`, `Recheck`; `~Logger` is `BeginStop`, `SpinEnds`,
`FlushCollect`, `FlushSend`, `CloseSocket`, `ClearInstance`. The peer may leave
at any time, every connection attempt may fail, and a critical message aborts.
A write may fail on any socket: on a broken one because the peer has left, on an
open one because of the send timeout of one second, before or after a part of the
frame went out. In the second case the socket is `torn`: it is still open and the
next batch is written behind the partial frame, where the peer cannot read it, so
that such a batch counts as failed whether its write throws or not.
`quiet` says, for a whole behaviour, whether other threads stop logging before
the destructor starts; both cases are explored, and the properties that need it
say so. Steps that would use a freed logger are left out of the behaviours (they
are undefined) and are what `StopWaitsForBackgroundWork` is about. `EachLogOnce`
accounts for every message: queued, in the hands of one thread, sent once, lost
with a failed write, or dropped without a connection.

### EventBus, EventQueue, Dispatch and EventDispatch

`EventBus` has four actions: `Send`, `BeginPoll` (the poll takes everything that
waits), `Dispatch`, `EndPoll`. `EventQueue` has the code's: `send` is `Lock`,
`Allocate` (the pointer is in the queue before the event is constructed, as in
the code), `Construct`; `pollEvents` is `BeginPoll`, `Swap`, `Notify`/`Destroy`
per event, `Reset`. Under the mapping `Allocate` is the bus's `Send`, `Swap` its
`BeginPoll`, `Destroy` its `Dispatch` and `Reset` its `EndPoll`. The poller is a
sender as well, between polls and from callbacks.

`EventDispatch` opens up `Notify`: `StartNotify` rebuilds the cache under the
mutex, then `Invoke` and `Return` walk it while callbacks (phase `running`)
unsubscribe, disable and destroy listeners, and other threads subscribe and
send. An unsubscribe by name and a destructor take out several callbacks, each
under the mutex of its type: `leaving` are those the loop has still before it,
and other threads come in between. A callback of a destroyed listener reads an
object that no longer exists: the model lets that read give either value.

`Dispatch` is what all this amounts to for a user of events. It has no multimap, no
cache and no deletion queue: the set `subs` of those subscribed, and the set `due`
of those the event under way is still to be offered to, which is fixed when its
dispatch begins (`Start`) and loses the first of its members by priority and age
with every `Offer`, until one consumes the event (`Consume`) or none is left
(`End`). Under the mapping `due` is what `processing` holds from the position on,
and `subs` what the multimaps hold together. An `Offer` leaves open whether the
callback runs, which depends on its listener's `enabled`.

### EngineLoop

`at` is where the main thread is: in the `host` between ticks, or in one of the
three parts of a tick, `pump` (`SDLWindow::pollEvents`), `poll`
(`event::pollEvents`) and `app` (`IApplication::tick`). `calls` is the stack of
the application's functions under way: `pushApplicationLayer` calls `destroy` of
the old layer and `begin` of the new one, and `begin`, `tick` and every callback
may push again. `PumpSends` begins a send of the poller, which `SendGoesOn` ends
with the event that `Translation` gives for SDL's; `PumpDrops` is an event for
another window or of no interest. `SendBegins` is a send of the application's
code, or of another thread at any time. A window may be replaced by the
application or the host (`OpenWindow`) while events for the old one wait in SDL's
queue or in the engine's.

Three things in the code show in this model as they are. `toast_should_close`
always answers 0, so `ShouldClose` is FALSE and `closed` is never reached.
`~Engine` does nothing, so `HostDestroys` changes nothing but the host. A tick
without a window calls through a null pointer in a release build (`NDEBUG`) and
skips the pump in a debug build. `DestroyMayPush` says whether an application
pushes a layer from inside `destroy`. If it does, `pushApplicationLayer` goes on
with a layer that is no longer the active one, and the pairing of `begin` and
`destroy` breaks; nothing in the repository does so or speaks of it, so the
property is stated without it.

### LogStream and LogServer

`Accept`, `ReadBatch`, `StoreLog`, `EngineGone`, `ConnectionFails`, `SaveCsv` are
the listener task;
`TakeSnapshot`, `SendSnapshot`, `Subscribe`, `Forward`, `Lag`, `SendFails` are a
TUI's task. `add_logs` holds the write lock for a batch, so `TakeSnapshot` is not
enabled inside one, but `Subscribe` and `Forward` are.
`handle_engine_connection` is left by the end of the stream, when all
is read (`EngineGone`), or by another read error or a frame that does not decode
(`ConnectionFails`): then the batches on the wire are lost, and `broken` keeps the
engine's name. After either the flag is reset and the CSV saved. The channel keeps the
newest `Capacity` messages; a slower receiver is told so and goes on with the
oldest one kept. Both values of `--infinite` are explored.

`LogStream` has no engines' connections, batches, locks or tasks: `Store` adds the
next log of some source, `Replay` gives a reader a prefix of the log, `Follow`
notes where it joins, and `Deliver` gives it the next later log, passing over one
only if it lies further back than the channel keeps. Under the mapping `StoreLog` is
`Store`, `SendSnapshot` is `Replay`, `Subscribe` is `Follow`, `Forward` is
`Deliver`, `SendFails` is `Leave`; the rest, `Lag` included, the readers do not see.
The gap between `Replay` and `Follow` is in the abstraction because it is in the
code; run `log_server_gap` holds it against the comment that promises otherwise.

### KenzoSession and KenzoView

One pass of `App::run` is `TryRecv`... `DrainEnds`, one key, `Check`. `Dial` is
`connect` and `reconnect` (they differ in the state they set), which begin with
`disconnect`. A task is in `connect` (TCP), `announce` (the empty batch), `read`
(in `select!`) or `forward` (a batch in its hands, waiting for room); it goes on
after its session has dropped it, until it hears the oneshot or its `send` fails.
Its slot can be used again when it has ended: sessions are not bounded, only how
many tasks live at once. The fields of the menu and the wording of the address
are left out; a file can be read or not. `wanted` is what the user last asked for.

`KenzoView` keeps the phases of the pass as well, because a key acts on what was
drawn before the last batches came in. It has one action per key of the connected
screen; the session shows through `Receive`, `LoadCsv` and `SessionChanges`. Logs
are records of severity and sink; which logs a search finds is the constant
`Found`, of which only is assumed that a longer search finds less. `Refresh` is
`update_filtered_logs`: each of its two loops collects, in order (`Collect`), the
indices that pass the filters (`Passing`) or that the search finds (`Matching`).
`ViewCoherent` says the same without a loop: the list has these indices and rises. Severities and
sinks, and the two lists for them, are treated alike through `Dims`. A panic sets `panicked`,
after which nothing happens. There are two: `p` indexes past the end of the
matches (`PrevMatch`), and `highlight_text` slices a cell's text at offsets it
found in the lowercase form, which may have another length (`HighlightPanics`).
For which logs a search may do that is the constant `Slips`. `Clamp` is
what the terminal library does to a selection it draws; it is not done when the terminal
leaves no room.

## 3. Runs

| run | constants | checks |
|---|---|---|
| `pool` | 3 workers, 2 clients, 4 jobs; any teardown and orderly ones | types, no lost wake-up, `waitIdle` is honest, refinement of `WorkQueue`, queued jobs start, an orderly teardown runs every job queued before its stop and ends, unless it stranded the drain of its own log call |
| `pool_hang` | 2 workers, 2 jobs, any teardown | counterexample: the destructor hangs after `destroy()` with a job queued |
| `logger` | 2 producers, 2 workers, 3 messages, 2 attempts, writes that fail on any socket | slot token, nothing stranded, each message in one place, order, every message attempted, `stop` ends |
| `logger_stop` | 2 messages | counterexample: the logger is freed beside a drain that still uses it |
| `engine` | the main thread and another one that sends, 3 events, 1 of SDL's, 2 windows, 2 layers pushed twice | the pools never meet, refinement of `EventBus` (which says that everything is dispatched once, in order, and not in the poll it was sent in), input in its frame, layers in step, windows close only on request, everything is served |
| `dispatch` | 2 types, 2 listeners, 2 priorities, 2 callbacks ever made | no freed callback in a walk, cache coherence, one life per callback, refinement of `Dispatch` (which says who is offered an event and in which order), everything unsubscribed is freed |
| `dispatch_dead` | 1 type | counterexample: a callback of a destroyed listener is called |
| `log_server` | 2 engines with 3 logs each in batches of 1 or 2, 1 TUI, channel of 2; connections end or fail | storage order, saved sessions, what a TUI can miss, refinement of `LogStream`, engines are served, TUIs catch up |
| `log_server_gap` | 1 engine, channel of 1024 | counterexample: a log between snapshot and subscription |
| `kenzo_session` | 2 tasks, channel of 1, 2 batches per connection, 1 connect by the user beyond the automatic ones | session order, abandoned tasks end, the server is found |
| `kenzo_view` | 2 kinds of log, at most 3 logs, searches of at most 2 letters, the second of which slips in one kind of log | rows and matches, auto-scroll |
| `kenzo_panic` | as `kenzo_view`, but no search slips (`Slips` is empty) | counterexample: `p` after the matches were shortened |

The bounds and why they are enough. Three workers are the fewest where one can
sleep, one run and one be between decrement and lock while jobs queue jobs; four
jobs let a worker come round to a second one. In `logger` three messages give a
batch on the wire, one queued behind it, and one pushed between release and
recheck, with two workers to hold an old and a new drain. In `engine` one event
is the window's and two are left for callbacks, the application and the other
thread, so that a pump, a callback and a foreign send meet in both pools; the
second window and the second layer are what replaces the first while something
for it is under way. In `dispatch` two callbacks give every case of a walk (what
is unsubscribed is before, at or after the position) and of a loop that
unsubscribes two, and the number of events is not bounded, only how many wait at
once. The channel of two is smaller than what one engine writes, so lag happens;
the second engine exercises the backlog, the reset of the flag and a storage that
is not empty at the start of a session. In `kenzo_session` a channel of one makes
tasks wait for room while their session ends, and the slots are used again
without limit, so that the server may come and go for ever. Two kinds of log that
differ in severity and sink, and a search that finds both or one of them, make
every filter and search change the rows in `kenzo_view`; an index that is too
large needs three matches of which one is left.

The bounds of the models are the constants named `...Limit` and `MaxAttempts` is
the code's own `max_attempts`. `MCLogServer.cfg` and `MCLogServerGap.cfg` switch
the deadlock check off because the server process really ends, or waits for ever
for an engine; in `ThreadPool`, `Logger` and `EngineLoop` the end is the explicit
step `Terminated`.

## 4. Fairness

* ThreadPool: a thread inside `queueJob`, a worker that can go on, and a teardown
  that has started go on (weak fairness); jobs return. Wake-ups need not be
  spurious, nobody has to queue a job or begin a teardown. This is what an
  operating-system scheduler and a mutex give.
* Logger: weak fairness of each thread inside `log`, `drain`, `create`, `stop`; a
  pool worker is eventually free for a drain, which is `QueuedJobsStart` of the
  pool. That a write ends is what the send timeout is for (the comment at
  `logger.cpp:222`); asio is not in the repository, so this is taken at its word.
* EngineLoop: the host calls `toast_tick` again and again, callbacks and the
  application's functions return, and a thread inside `send` goes on. A mutex that
  is fair to the main thread is not assumed: the number of sends is finite
  (`EventLimit`), so `pool_mutex` is free in the end. Nobody has to send, push a
  layer or open a window.
* EventDispatch: the main loop polls for ever (`Engine::tick`), callbacks return,
  and a loop that unsubscribes goes on.
* KenzoSession: the loop goes round, since every wait in it has a time limit, and
  tokio runs every task that can go on, a TCP connect included. `FindsServer`
  assumes of the server what it says, that it stays up from some time on. The user
  owes nothing, but does not connect again for ever (`DialLimit`).
* LogServer: tokio polls every task that can go on. Nobody has to connect, write or
  stay. `TuiCatchesUp` speaks of a TUI that stays, and of one that reads what it is
  sent: `write_all` may block for ever on one that does not.

## 5. What is proved

All theorems hold for arbitrary constants that satisfy the named assumption of
the module they are about (`PoolAssumption`, `LoggerAssumption`,
`QueueAssumption`, `EngineAssumption`, `DispatchAssumption`, `ServerAssumption`,
`SessionAssumption`, `ViewAssumption`): any number of threads, workers, messages, events,
callbacks, engines, TUIs, tasks, logs and searches, and any capacity.

* `WorkQueueProofs`: `WorkQueueKeepsItsPromise`: FIFO and exactly once, from the
  invariant that what waits is the tail of the numbering and what has left is in
  exactly one slot or finished.
* `ThreadPoolProofs`: `PoolCounts` is the base. `TypeOK` alone is inductive except
  for `active_jobs - 1`, which needs `ActiveCount` to be a natural number, so the
  two are proved together, with lemmas on cardinalities; `PoolTypes` is the first
  of them alone. `PoolImplementsWorkQueue`
  maps each step to a step or a stutter (`Take` to `Start`, `JobReturns` to
  `Finish`, `SetStop` to `Close`) and `PoolKeepsPromise` brings the promise back to
  the pool. `StopIsHeard`, `IdleIsHeard`, `NoJobIsForgotten` are the three
  wake-ups, the last counting notifications still to come against queued jobs;
  `NobodySleepsThroughIt` is the three together (`NoLostWakeup`).
  `WaitIdleIsHonest` is an action property that follows from the promise and the
  exact counter; `OrderlyTeardown` (`OrderlyLosesNothing`) from both: when the stop
  is set every job has been run, and the only job that can join the queue later is
  the drain of `destroy`'s own log call.
* `LoggerProofs`: `LoggerTypes`; `OneDrainAtATime`, a token argument: the number
  of holders of the slot changes together with `drain_pending`;
  `NoLogIsStranded`, which rests on it. `MessagesKeepOrder` and `EachMessageOnce`
  come from one invariant, `LogsInv`: a worker has messages only while it writes,
  the owner only while it flushes (`InHands`); the numbers in each batch and in the
  queue rise (`Rising`); what was sent comes before what is carried, and that
  before what is queued (`Ordered`); and in a quiet shutdown nobody logs any more
  and the last drain and `flushSync` do not both have messages (`QuietStop`).
  Order is not inductive by itself: that a batch may be appended to what was sent
  needs to know that no other batch is under way, which is the token.
* `EngineLoopProofs`, part one, on `EventQueue`: `EventQueueTypes`, `PollerIsAlone` (`PoolsDontMeet`),
  `EventsInOrder` (`SentInOrder`) and `PollsDefer` (`DeferredToNextPoll`), from one
  inductive invariant: who holds `pool_mutex` is exactly who is inside `send`; a
  constructor under way is in the pool that receives; the pool not in use is
  empty; and the events of each pool are consecutive numbers that continue what
  was dispatched. `QueueImplementsBus` is the refinement of `EventBus`: what the
  bus has outstanding is the tail of the walked pool, what waits is the other one.
* `EngineLoopProofs`, part two, on `EngineLoop`: `EngineIsAQueue`: a behaviour of
  the engine is one of its queue, so everything above holds of it;
  `EngineUsesTheBus` and `EngineKeepsTheQueue` follow. On top:
  `EngineTypes`; `LayersHandOver` (`LayersInStep`, when `destroy` pushes no
  layer), from the invariant that only the innermost call is a `destroy`;
  `NoInputIsLate` (`FrameSeesItsInput`), from where a poll may be and that a poll
  which ends has dispatched everything sent before its swap; and
  `NoWindowClosesForAnother` (`ClosedOnlyByRequest`).
* `EventDispatchProofs`: `DispatchTypes`, `NobodyCallsTheFreed`, `CacheIsTheMap`,
  `PriorityRules`, `OneLifeEach`, from one invariant, `DispatchInv`. It adds three
  facts: each map holds callbacks of its own type (`FiledByType`); each
  map is sorted (`MapSorted`), of which the cache inherits its order; and what the
  walk has before it is subscribed or waits for deletion (`WalkIsKept`), which is
  why freeing between polls is enough. `EventsImplementDispatch` is the refinement
  of `Dispatch`: the map of a type holds exactly its subscribers
  (`MapIsSubscribers`), so a walk begins with all of them, the cache being coherent;
  and that the list is sorted strictly makes the next in the list the first of those
  left, and its removal from the set the step to the next position (`WalkGoesOn`).
* `LogServerProofs`: `ServerTypes`; `TuisMissOnlyTheGap`, from the invariant that
  relates each stage of a TUI's task to a snapshot, a gap and a run of the storage
  (`SeesStorage`); `ExitedServerSaved`, from: every log written by an engine
  whose connection did not fail is on the wire, in the batch being stored or in
  the storage (`NothingLost`), an engine waits,
  is served or was served and leaves nothing unread (`OneAtATime`), and the CSV of
  a server that has exited is the storage (`SavedAll`).
  `StorageKeepsAll` (`StoredAsWritten`) needs that the batches on a connection, and
  the one being stored, are all of one engine (`Owned`): then writing appends to
  the end of that engine's stream, and reading and storing move the border within
  it; a connection that fails cuts the stream at that border, and nothing is added
  to it afterwards (`WholeBegins`).
  `ServerImplementsStream` is the refinement of `LogStream`: that the log stored
  next is the next of its engine is `StoredAsWritten` read at one position
  (`NextOfItsEngine`); that a TUI is not passed over by anything still in the
  channel is the invariant `KeptUp`.
* `KenzoSessionProofs`: `SessionTypes` and `SessionKeepsOrder`
  (`SessionInOrder`). The invariant speaks of every task, not only of the
  session's: the wire of a connection holds the newest of the batches written
  (`Wires`), the session's channel and what was taken from it are numbered on and
  the wire continues them (`Session0`). The types need it: a task that forwards has
  something to forward.

* `KenzoViewProofs`: `CollectCollects`: a pass over the indices below n that
  appends those in a set returns exactly these, each once, rising. With it
  `ViewTypes`, `RowsAreWhatIsAsked` (`ViewCoherent`) and `LatestIsSelected`
  (`FollowsLatest`), for any logs, severities, sinks and searches, from one
  invariant that adds only that the lists of severities and sinks are finite. Two
  theorems are about panics. `RowsAreInBounds`: every row that `render_table` indexes
  `logs` with, and every match selected as a row, is in bounds in every state.
  `OnlyStaleMatchesAndHighlightsPanic` (an action property): the program panics only
  by `p` with a current match past the end of the matches, or by drawing a
  visible row in which the search slips. That `p` does is run `kenzo_panic`; the
  other is in section 6.

Two techniques recur. The library's induction theorems take a predicate as a
parameter, which the provers cannot instantiate. `LeastNumber` and `Induction` say
the same of a set, which they can, and follow from the fact that the order of the
natural numbers is well-founded; `SeqInduction` is the same for a sequence that
grows at its end. What a recursive function returns is then shown by unfolding it:
first that a function satisfying its equation exists (`OwnTurnsExist`,
`TurnsExist`), then that the function agrees with the one for a shorter argument.
That needs the function's own definition, so the models filter with recursive
functions (`From`, `Collect`) and not with the built-in `SelectSeq`.

The safety properties and refinements the passing runs check are all proved. Only
model-checked is liveness, since fairness and ENABLED are beyond the prover:
`QueuedJobsStart`, `OrderlyCallsReturn`, `EveryLogAttempted`, `StopEnds`,
`EverythingIsServed`, `UnsubscribedIsFreed`, `WaitingEngineIsServed`,
`TuiCatchesUp`, `AbandonedTasksEnd`, `FindsServer`; and the counterexamples of
section 6, which are what they are.

## 6. Where code and documentation part

Each is a run that must fail; the quoted lines are in `PROJECT.json`.

1. `~ThreadPool` waits for idleness before it stops the workers; after an explicit
   `destroy()` that left jobs queued, as documented, it waits for ever. With a Logger
   alive even the documented `waitIdle(); destroy();` can end so, since the
   `TOAST_INFO` at the end of `destroy` (`thread_pool.cpp:54`) may queue a drain.
2. `Logger::stop` does not wait for all background work: a drain that has released
   the slot still locks the logger's mutex.
3. A destroyed listener's callback is still called for the event being dispatched
   and reads the destroyed object.
4. A TUI misses the logs stored between its snapshot and its subscription.
5. In Kenzo, `p` can index past the end of the matches, and the program panics.

Seen while modelling, and not the subject of a run:

* `toast_should_close` always answers 0 (`engine.cpp:74-76`), though
  `ffi/engine.h:16` says "1 if the engine should close"; nobody calls
  `SDLWindow::shouldClose`.
* `~Engine` is defaulted and its implementation a raw pointer (`engine.cpp:141`):
  `toast_destroy` neither flushes the logger nor joins the pool, and the static
  `instance` goes on pointing to the engine that was destroyed.
* An SDL quit event has no window; the pump compares the bytes that are where a
  window id would be (`sdl_window.cpp:42`). The model lets it be any id.
* `TOAST_ASSERT` is compiled only with `_DEBUG`, which no build file defines: the
  call that initializes SDL inside one is not made, and a window that SDL could not
  create is used all the same, with id 0.
* Kenzo can panic while it draws (`ui.rs:297-311`): `highlight_text` finds the search
  in the lowercase form of a cell's text and slices the text itself there.
  Lowercasing may change the length of a text (`İ` grows by one byte), and then the slice
  may be out of bounds or inside a character. No document speaks of it.
* A write cut short by the send timeout (`logger.cpp:222-228`, `279-283`) leaves a
  partial frame on a socket that stays open: nobody closes it or connects again, and
  what follows cannot be read, although its writes may succeed. The server reads a
  frame out of what comes and leaves with an error when it does not decode
  (`server.rs:103`).
* A failed send prints the error and not the messages of its batch
  (`logger.cpp:281`).
* Batches that wait in Kenzo's channel when the task ends are dropped by the
  reconnect, which then appends the server's whole history to the logs shown
  (`app.rs:206`, `508`). A file loaded while a connection is being set up is mixed
  with live logs and left again when that connection ends (`app.rs:569`). Enter on
  a filter toggles the entry the list has now, not the one that was drawn, if new
  severities or sinks have come in (`app.rs:423`).

## 7. Not modelled

* Engine loop and window: profiling and the operators `new` and `delete` of a
  debug build; coordinates, key codes, text (of which the code sends the first
  byte); `toast_create_avalonia_window` and `swapFramebuffers`, which do nothing;
  a second `toast_create`, which would replace `instance`.
* Dispatch: the registration of a type on its first use and unsubscribing from a
  second thread. Both are data races on containers without a lock, whose outcomes
  the language does not bound, and `docs/event_system.md` calls only `send` safe to
  use from any thread. The same holds of the logger's socket while it reconnects.
  All are under `hazards` with a note or in the words of a hazard.
* Kenzo: the popup's menu and text input, the spinner, CSV parsing, layout, raw
  mode and the panic hook: terminal I/O and data without a bearing on the session.
* easypb and the generated message types are vendored or generated; a batch is an
  abstract value. Editor, player and dummy game hold no core logic (the player's
  loop is the host of `EngineLoop`); tests and CI are evidence, not subjects.

## 8. Plan

Done, in this order:

1. `WorkQueue`, `ThreadPool` with their proofs.
2. `Logger` with the slot-token proofs, then order and accounting.
3. `EventQueue` with its proofs, `EventDispatch` with its proofs, `EventBus` and
   the refinement.
4. `LogServer` and its proofs.
5. `KenzoSession` and its proofs, `KenzoView`.
6. `EngineLoop`, composed with the event queue, and its proofs.
7. The refinement of `LogStream` by `LogServer`, and the proofs about `KenzoView`.
8. The refinement of `Dispatch` by `EventDispatch`.

Left:

9. The pool and the logger composed, so that the drains of the logger are jobs of
   `ThreadPool`; at present the logger relies on `QueuedJobsStart`.
10. Kenzo's session as a reader of `LogStream`.
