# A TLA+ model of Sylar-Framework

Sylar-Framework is a C++ server framework: asymmetric coroutines on `ucontext`
with private or shared stacks, an event loop on `epoll` with a time wheel,
system calls hooked so that they yield instead of blocking, and on top of these
an HTTP server, a byte buffer, configuration, logging and locks. This
directory models the coroutine machinery (coroutines, time wheel, epoll table,
event loop, hooked calls), the HTTP server, the byte buffer, the configuration
with the loggers it rebuilds, and the scope locks; checks them with TLC; and
proves with TLAPS the safety of the scheduler, the time wheel, the epoll table,
the event loop, the HTTP server's connections, the byte buffer, the
configuration with its loggers, and the locks.

## 1. Inventory

| Component | State | Operations | Interacts with | What is hard | What makes it correct |
|---|---|---|---|---|---|
| `Schedule`, `Coroutine` (`coroutine.cc`) | `co_stack_`, `stack_top_`, `running_co_`; per coroutine `co_state_`, `stack_mem_`, `saved_stack_`, `dummy_` | `CreateCoroutine`, `Resume`, `Yield`, end of `CoMainFunc`, `SwapContext` | called by clients, the event loop, timers and hooked calls | nested calls, early ends, which frames are in which buffer | call and return; no frames lost; assertions hold |
| `SharedMem`, `StackMem` (`coroutine.hh`) | `idx_`, `occupy_co_` of each buffer | `AllocSharedMem`, `GetStackMem` | `SwapContext` saves and restores | more coroutines than buffers | a started coroutine's frames are in its buffer or in a good copy |
| `TimeWheel` (`timewheel.cc`) | `wheel_`, items, `current_slot`, `granularity_`, `last_trigger_` | `AddTimer`, `ExecuteTimeout`, `GetNextTimeout`, `SetGranularity` | driven by the loop; calls back coroutines that add timers | lists that change while they are walked, late passes, rounding | fires on its turn, once per repetition, not lost |
| `Epoll` (`epoll.cc`) | `reg_event_`, `loop_`; in the kernel interest and ready list | `RegisterEvent`, `CancelEvent`, `StopEventLoop` | hooked calls register, the loop reads | edge triggering, replacement, table and kernel in step | kernel matches table; closed leaves nothing |
| `Schedule::Eventloop` (`coroutine.cc`) | position in the round, the batch of events | wait, handle, run timers | `Epoll`, `TimeWheel`, `Coroutine` | arrivals between any two steps, handlers that change the table | no lost wake-up, no crash, stop works |
| hooked calls (`hook.cc`) | none of their own | `do_io` for ten calls, `sleep`, `usleep`, `close` | register, add timers, yield | registration races arrival; calls on main | waiters are woken |
| `HttpServer` (`http_server.cc`) | listener and worker threads, `running_`, an `EventData` per connection | `Start`, `Stop`, `ListenClient`, `EventLoop`, `HandleEpollEvent`, the coroutine versions | own `epoll` instances, `Coroutine` | ownership of `EventData`, edge triggered writes, stopping | each `EventData` freed once, a response is sent completely, `Stop` returns |
| `ByteArray` (`bytearray.cc`) | list of nodes, read and write cursor, `capacity_` | `Read`, `Write`, fixed and variable length integers, `SetAllBits`, `Clear` | none | node boundaries, widest values | what was written is read back |
| `Config` (`config.cc`, `config.hh`) | registered variables, values, listeners | `Lookup`, `SetValue`, `AddListener`, `DelListener`, `LoadFromYaml` | listeners call back; one of them rebuilds the loggers | order of store and notification, a load that fails half way | what listeners were told is what is stored |
| `Log` (`log.cc`) | `loggers_`, `root_`; per logger level and appenders; per formatter items | `NewLogger`, `DelLogger`, `GetLogger`, `SetRoot`, `AddAppender`, `Log`, `LogFormatter::Init` | locks, `Config` | a reload between the three evaluations of the macro's argument | loggers match the configuration, messages are not lost |
| Locks (`mutex.hh`) | pthread locks, an atomic flag; `is_locked_` of a scope | lock, unlock, scope locks | `Log` | the destructor after an explicit unlock | one holder, released by the holder |
| `Socket`, `Address` | descriptor, flags | bind, listen, accept, connect, close | system calls | flags after a failed step | flags match the descriptor |
| utilities, `endian.hh`, `singleton.hh` | none | clocks, thread ids | all | nothing | nothing to check |

## 2. Plan

Modelled: `Coroutine` with its abstract specification `CoroutineCalls` and its
proofs; `TimeWheel`; `Epoll`; `EventLoop`, which composes `Coroutine` and
`Epoll` with the hooked calls; `HttpServer` on `HttpMessage`; `ByteArray` on
`Varint`; `LogConfig`, which composes `Config`, `Log` and `LogFormatter`; `Locks`
with its abstract specification `Lock` and its proofs.

Each component has a module of proofs (section 5). Every safety property that
a run checks is also a theorem, but for three about what a parser or a decoder makes
of a text (`AnswersRight`, `PatternsParsed`, `NumbersReadBack`). Liveness stays with TLC.

## 3. The modules and the code

### Coroutine.tla

One thread. A thread changes the running coroutine only inside `Resume`,
`Yield` and the end of `CoMainFunc`, so each call is one action up to and
including `swapcontext`. Variables carry the names of the fields.

Stack contents are abstracted. `frames[m]` says whose frames buffer `m` really
holds; `saved_stack[c]` says whether `c` has no copy, an up to date one, or a
stale one (it has run since, or the copy was taken from a buffer that held
somebody else's frames). `SwapContext` keeps the code's order: record `dummy_`
of prev, take over `occupy_co_`, save the displaced coroutine, restore the next
one. `SaveStack` and `ResumeStack` are what those copies are worth.

How a process can end is in `fault`: the two assertions of `Resume`, a length
computed from a null `dummy_`, a finished context entered again (its `uc_link`
is null, so the thread exits), and `ResumeStack` copying over the stack it
executes on. Whether that last copy really hits live frames depends on stack
depths, so it is a choice between the two outcomes.

`MaxDepth` bounds how deep clients nest; `Reentrant` says whether they also
resume a coroutine that is already on `co_stack_`.

### CoroutineCalls.tla

What a client is promised: call, return that suspends, return that kills. Each
coroutine knows its caller; there is no stack and no memory. `MCCoroutine`
maps `Coroutine` to it: the caller is the one below on `co_stack_`, and a
coroutine is suspended if it is not on `co_stack_`, whatever `co_state_` says.

### TimeWheel.tla

`ExecuteTimeout` is split into the steps between which callbacks may run:
`ExecuteTimeout` (compute `dis`), `TurnSlot`, `Visit`, `CallbackReturns`,
`EndOfList`, `LastTrigger`. `AddTimer` and `SetGranularity` are enabled between
passes and, with `NestedAdds`, in a callback. Time is relative: `lag` is the time since
`last_trigger_` and an item's `age` the time since `register_time_`. `obs` is
history for the properties: turns until the first firing, number of firings,
lag when the timer was added.

### Epoll.tla

`reg_event` is the table; `interest`, `data`, `rdlist`, `ready` and `open` are
the kernel, modelled from how the code uses it: an edge triggered instance
reports a descriptor once after each arrival and once after each `epoll_ctl`
that finds it ready. A registration is `[type, func, co]`: the directions
waited for, those with a callback, the coroutine of each. The action
`CancelAndClose` is the whole hooked `close`. Not modelled: the overload of
`RegisterEvent` that takes an `EventCtx`, which nothing calls, and error
events without a direction.

### EventLoop.tla

`INSTANCE`s of `Coroutine` and `Epoll` plus the loop and the hooked calls. Only
the running coroutine's steps are enabled, while `Peer` and `StopEventLoop`
happen at any time, in particular between the system call that returns
`EAGAIN`, the registration, and the switch. `Uses`, `Closes`, `Sleepers` and
`Registers` say what the coroutines and main do. A descriptor that was closed is
not opened again.

Of the time wheel the loop keeps what decides about control. A pass of
`ExecuteTimeout` turns `turns` slots, a number that is fixed when it starts. In the list
of each slot any of the pending timers may be due (`due`); they fire one after
the other, and each that has fired is erased. A timer that is added waits
for a later slot, with one exception: the lists are walked after `current_slot` has
moved on, so a sleep of `slots_ - 1` ticks (999 ms with the wheel of `Epoll`), made by
a coroutine that the walk has resumed, goes to the end of the list being walked and
is due in it. `FullTurn` names the coroutines that may sleep so. Nothing bounds how
often that happens in one pass: the model has the pass that never ends.
`cut` is history: the events that have resumed a coroutine in a sleep.

### HttpMessage.tla and HttpServer.tla

A text is a sequence of tokens (start line, header lines, pieces of a body,
line ends). `FromString` follows the code on any prefix of a request, because
the server parses whatever one `recv` returned: a text without the empty line
has no headers, and the rest of it, which comes later, is parsed as a request
of its own. `HandleRequestData` gives the status, whether there is a body, and
`keep_alive_`. `StatusOf` is the order of the three `catch` clauses:
`invalid_argument` is 400, any other class derived from `logic_error` (the
`out_of_range` of `std::stoi` too) 505, the rest 500.

`HttpServer` has a listener, workers with an epoll set each, clients, and the
kernel between them. `reg` is what is registered (worker, event, `data.ptr`),
`rdlist` the edge triggered ready list, `batch` the events a worker has got
and not handled. `heap` holds the `EventData`, of which `data.ptr` names one.
One event is one step: other workers and the clients move between the events of
a batch. With coroutines the handler gets a new coroutine for each event and
none is ever resumed a second time, so its first `Yield` ends the step. The
hook is off, as in `tests/httpserver.cc`. A send takes what fits into `Room`
parts; a client reads all there is. `answers` is a history: what each request was
answered with, and in `left` the `EventData` of the request, which `HandleRead`
replaces and never deletes. `Start` may fail; handlers are registered
before or after it. `Stop` joins threads that nothing ends and changes nothing.

### Varint.tla and ByteArray.tla

`Varint` has the integer encodings as functions, in two's complement of a given
width: fixed, zigzag, and the variable length code the way the loop really
computes it (`Garbage` is a byte of the buffer that is never assigned).
`ByteArray` is the block list: `chain` the blocks, each the bytes written to it,
`wp` and `rp` the two pointers. `rp` can be null, or a block that
`ExtendCapacity` has cut off the chain. `ByteOf` is the byte at a position of the
blocks laid end to end, which is how `Read` and `BitsStream` see them. The client
writes items and reads them back with the matching operations; three histories
remember what is due: `written` and `reads` the items, `data` the bytes the array was
given. `Parts` are the two calls of `Write` that write a string, the length and the
characters (the second is of no bytes for numbers, which `Write` ignores), and `Pieces` the
calls of `Read` that read it; `ExtendCapacity` gets the size of one call, so one call or
two makes a difference of a spare block. An item is `Faithful` if its calls of `Read` take
what its calls of `Write` have written: fixed-length integers, and numbers and
string lengths whose code is one byte. After an item that is not, the reader is
not at an item any more, and the model reads no further.

The length of a string is a 64 bit number in the code and one of the item's `width` in the
model. The lengths in the runs are far below both. What the string constructor throws
for an absurd length is, as the exception of `Read`, `crash = "range"`.

### Config.tla, Log.tla, LogFormatter.tla, LogConfig.tla

`Config` is one variable as a record with pure operations, listeners that
observe, throw or set the value again, and what `LoadFromYaml` does with a node.
`GetListener` of a key that is not there leaves an empty `std::function` under it
(`config.hh:368`), which throws when the next `SetValue` calls it.
Listener keys are `1 .. MaxKey`, in the order of the `std::map`; `Called` is the
variable after the first n of them.
`Log` has the logger objects, the manager's map and root, and the macro as three
steps, one for each evaluation of its argument, and the write. A file appender whose
file cannot be opened stays in its logger and drops what it is given (`Outcomes`).
`LogFormatter` is the
pattern parser as a recursive function, next to patterns put together from
pieces as the reference. `LogConfig` composes them: a thread loads documents,
one node at a time; a change of `"logs"` runs the listener of `LogConfInit` one
call at a time and stores the value last; other threads log in between. `at` is
where that listener is: in which of its loops (`pc`), at which element (`i`) and
appender (`j`) of the new value. `AppenderThrows`: `new LogAppenderToFile` creates the
directory of its file and throws if that fails (`config.cc:106`, `log.cc:85`); the exception
leaves the listener, `SetValue` before the store, and `LoadFromYaml`. Two histories
say what that leads to: `torn`, the latest change of `"logs"` was left so, and
`strays`, the names of loggers that such a change had already made. A thread's message is
`calm` as long as no reload has run since it began. YAML is
external: a document is the list of its nodes with what the conversion yields or
that it throws.

### Locks.tla and Lock.tla

`Locks` is `ScopeLockImpl` on `CASLock`, one atomic operation or assignment per
step. `Lock` is a lock: `holders` is empty or one thread, and that thread
releases. The refinement mapping takes as holders the threads between the
test-and-set that succeeded and the clear, whatever `is_locked_` says at the time.

## 4. What TLC checks

| Run | Instance | Shows |
|---|---|---|
| `coroutine` | 4 coroutines, private or 2 shared buffers, depth 4 | `FramesPreserved`; the execute stack is well formed; `SaveStack` always has a `dummy_`; `ImplementsCalls`; no fault on a switch to or from main |
| `timewheel_oneshot` | 2 timers, 3 slots, timeouts of 0 to 7 ticks, lag up to 2 | first firing on exactly its turn, early by at most the lag, every timer fires |
| `timewheel_repeat` | 2 timers, 3 slots, granularity 1 or 2, repetition 2 or endless, callbacks add timers | no item is lost, duplicated or kept when it has no firings left; a pass ends unless callbacks add to the list being walked without end |
| `epoll_table` | 1 descriptor, 2 coroutines, all sequences of calls | kernel and table agree, a closed descriptor leaves nothing |
| `loop_own` | 2 coroutines and main, 2 descriptors with one user each; a coroutine reads, writes, closes and sleeps; main reads and sleeps before the loop and registers a callback and a coroutine | no wake-up lost; waiters woken and a stop obeyed unless a sleeper keeps the pass from ending; the thread dies only by what main did; a sleep is cut short only after an event of the sleeper's own descriptor |
| `http` | 2 clients, 2 workers, 2 descriptors, both modes, a send buffer of one part | `PointersValid`, `EpollCtlNeverFails`, `ResponsesIntact`, `AnswersRight`, `OnlyRequestsLeak`; `PlainServed` with plain threads |
| `bytearray` | blocks of 3 bytes, a fixed integer, a varint and strings of 0, 3 and 4, up to 9 bytes | items are read back across all operations; the two ways a read fails; the bit stream; the numbers are those that were written |
| `logconf` | 2 loggers, 4 documents, 2 listeners, one logging thread | after a load that succeeds the loggers match the configuration; messages are lost only during or after a reload that was left, and never through the root; listeners agree with the value; patterns are parsed as written |
| `locks` | 3 threads | scope locks implement the abstract lock |

The bounds. Four coroutines on two buffers is the least that lets two buffers
each have a waiting coroutine at once; depth 4 has a caller, a callee and a
callee's callee above main, which is where an early end differs from a yield.
Three slots and up to 7 ticks give less than one, exactly one and more than two
revolutions and both wrap-arounds. A lag of 2 makes a pass turn more than one
slot. In `timewheel_repeat` a timeout of 2 is `slots_ - 1` ticks, which a
callback adds to the very list being walked, and 6 gives repetitions that are
spliced to another list or, with two rounds, to the end of their own. One descriptor suffices for `Epoll` because no operation relates two;
`EventLoop` has two because a batch does. `MaxOps = 1` bounds the calls a
coroutine makes between two switches, so that a coroutine that never blocks
does not keep the thread: the code has no such bound and no fairness among
coroutines either. `MaxTimers = 2` lets a coroutine sleep again while the timer of a
sleep that was cut short is still pending, which is the second way a sleep is cut short.
`MaxTurns = 2` is the number of slots a pass turns; the firings in a slot are not
bounded. In `loop_own` a coroutine that closes its descriptor has no other one, as
a handler of a connection does.

In `http` one client asks twice on a connection it keeps, with a text the network
may cut before its body; the other one asks once and closes or
resets at any point, so that its descriptor is freed under the workers. The five texts
are answered by 200, 400, 405 and, for two reasons, 505. A
send buffer of one part makes each response with a body a partial write. `MaxData`
is the number of `EventData` one descriptor can see in that instance; it is
never the reason why a step is not enabled. In `bytearray` a block of three
bytes is the least that items of 1, 2, 4 and 5 bytes, two of them in two calls, reach, end
and cross in every way, with and without a spare block behind; the client reads only
what it wrote. Numbers have 16 bits; other widths take the same path with other
constants.
In `logconf` two documents that change both variables in either order, one that
fails between two changes and one with a bad path meet every branch of the
load; any file appender of theirs may throw. Two listeners (`MaxKey = 2`) give the kinds
in both orders. One logging thread is enough because messages do not interact, and one level
between those of the configurations. `MaxLoggers = 4` and `MaxAppenders = 3` stop new
loads, not the one under way; they leave room for a load that fails, one
that succeeds on its leftovers, and one after that.

Fairness. `TimeWheel`: time passes and the loop keeps calling
`ExecuteTimeout`, which `Eventloop` does in each round. `EventLoop`: weak
fairness of the thread, one flow of control that is never suspended for ever.
Nothing is assumed there of timers, of peers or of whoever stops the loop. `HttpServer`: each thread keeps
running, a client that has begun a request sends the rest, and reads what comes;
nobody has to ask, close or reset.

`CHECK_DEADLOCK FALSE` is set where the model ends with the process or with its
bound: after a fault nothing moves.

### Divergences shown by a run

| Run | What the code does | What is said |
|---|---|---|
| `loop_reader_writer` | waiting to write a descriptor replaces the registration of the coroutine that waits to read it (`epoll.cc:53`) | README.md:115 |
| `http_coroutines` | `HandleWriteEvent` does not arm `EPOLLOUT` again after a send (`http_server.cc:311`), so once a send has taken what was left of a response, the connection is neither kept alive nor closed | README.md:24, both modes |
| `bytearray_numbers` | `EncodeVarint` stores every group of seven bits in the same byte (`bytearray.cc:300`): 64 is read back as -1, and a string of 64 characters cannot be read back | bytearray.hh:227 "write string with arbitrary length", :177-212 varints of each width |

### Other divergences

Found while modelling, with other constants or by reading; no run is kept for
them. A property that fails in another instance of the modules is named.

Coroutines and loop:

- `CoMainFunc` leaves its caller READY (`coroutine.cc:241`): a caller whose nested
  child has finished aborts at `coroutine.cc:215` on its next `Resume`, although
  README.md:108 promises nesting "with no limitation on the depth".
- A nested switch within one shared buffer restores over the stack it executes on
  (`coroutine.cc:66`).
- A descriptor closed by an earlier handler of a batch is looked up again and
  its null context used (`coroutine.cc:92`): `DiesOnlyByMain` when coroutines close
  each other's descriptors.
- `CancelEvent` of one of two directions leaves a pointer in `epoll_data` that
  the loop reads as a descriptor (`epoll.cc:108`).
- A second coroutine that waits for the same direction of a descriptor is not
  registered and not woken (`epoll.cc:51`): `WaiterWoken` with two readers.
- `sleep` on main adds its timer before `Yield` throws (`hook.cc:97`), and a
  `read` on main leaves main registered (`hook.cc:61`); when the timer or the
  event comes, `Resume` on main fails its assertion. `DiesOnlyByMain` says that the
  thread dies in no other way.
- An event of a descriptor that a coroutine did I/O on before resumes it in a later
  `sleep`, because `do_io` cancels nothing (`hook.cc:61`). The timer of that sleep is left
  behind, and cuts the next one short in turn: `SleepCutOnlyByOwnFd`. A sleep is also
  short by the lag of the wheel and by the next item.
- A coroutine that loops over `usleep(999000)`, `slots_ - 1` ticks, is put into the list
  being walked each time the walk resumes it (`timewheel.cc:22`, `:33`): it does not
  sleep, `ExecuteTimeout` does not return, no other coroutine is woken and the stop flag
  is not read again. `WaiterWoken` and `StopEndsLoop` fail without the disjunct
  `NeverLeavesWalk`.
- The hooked `writev` calls `write_f` (`hook.cc`), so it writes the `iovec` array itself.

Time wheel:

- After a splice the walk restarts and counts earlier items down twice
  (`timewheel.cc:54`): they fire a revolution early.
- A timer added while the loop lags fires early by the lag (`timewheel.cc:22`). The
  passing bound is `EarlyByLagAtMost`.
- A callback that adds a timer of `slots_ - 1` ticks adds it to the list being
  walked (`timewheel.cc:33`): it fires at once, and a callback that does so each
  time never lets the pass end. `PassEnds` says that this is the only way, in its
  instance; with rounds of at least `slots_ - 1` and more timers than rounds,
  repetitions spliced to the end of their own list can keep a pass there as well.
- A repeating timer adds rounds instead of ticks (`timewheel.cc:51`): an interval
  below one revolution repeats once per revolution.
- `last_trigger_ = now` drops the remainder (`timewheel.cc:64`): with a
  granularity above the loop's period the wheel need never turn.
  `EventuallyFires` with `Granularities = {2}`.
- `GetNextTimeout` returns 0 also when a timer is due now or all are overdue
  (`timewheel.cc:77`), where timewheel.hh:69 says "zero means timewheel is empty".

HTTP:

- `Stop` never sets `running_` and so never returns (`http_server.cc:76`), although
  `tests/httpserver.cc` offers `[quit]`.
- Each request read leaks its `EventData` (`http_server.cc:161`); `OnlyRequestsLeak`
  says that nothing else does.
- Handlers registered after `Start`, as in the test, change a map that the workers
  read without a lock. The model makes the registration one atomic step.
- A response is followed by a line end that `Content-Length` does not count
  (`http_message.cc:140`), `HttpRequest::ToString` writes headers without a
  colon (`http_message.cc:124`), and a response above 4096 bytes does not fit
  into `buf_` (`http_server.cc:365`).

Byte array:

- A read that ends with the last block leaves `read_ptr_` null (or on a spare block
  that the next write cuts off): what is written afterwards cannot be read.
- `SetAllBits` of what `GetAllBits` returned loads the unset bytes of a block that was
  not full or spare and had one behind it: what is written afterwards comes
  behind them. `FailsOnlyDrainedOrPadded` says that these two are the only ways.
- `write_ptr_` is on a full block after an exact fill, where bytearray.hh:339 says
  "always point to Node that has empty space"; `Clear` does not reset `capacity_`;
  `GetBuffer` returns zero lengths for new blocks; `GetAllBits` pads spare blocks
  with unset bytes.
- endian.hh inverts the two byte orders when `BYTE_ORDER` is defined; it is
  the identity here because it is included first.

Configuration and log:

- A nested `SetValue` of a listener is overwritten by the outer one
  (`config.hh:359`), and a throwing listener leaves the others told and the value old:
  `ObserversAgree` excludes both.
- `GetListener` of an unknown key leaves an empty callback (`config.hh:368`): every change
  after it throws `bad_function_call`, once the listeners with smaller keys were told.
- A file appender whose constructor throws (`config.cc:106`) leaves the manager without
  the old loggers while the variable still has the old value. To load that value again
  then does nothing (`config.hh:352`), and a load that succeeds adds appenders to the
  loggers left behind, which then write each message twice. `LoggersMatchConfig` and
  `LostOnlyInReload` say so with `torn` and `strays`; without them they fail.
- The same exception in `LogAppenderToFile::Log` (`log.cc:99`) comes out of the destructor of
  the wrapper and ends the process. The model leaves it out: it has no
  state to relate it to.
- An upper case scalar key of a known variable makes `LoadFromYaml` call a null
  pointer (`config.cc:37`); the model ends there (`status = "null"`).
- `LogFormatter::Init` drops the text after the last item: `PatternsParsed`.
- A reload reopens log files and truncates them (`log.cc:91`); `DelAppender`
  increments an erased iterator (`log.cc:120`).
- `root_` and `max_level_` are read without a lock while a reload writes them.
- `ReadScopeLockImpl` calls `mu_.Lock()`, which `RWMutex` does not have
  (`mutex.hh:108`).
- `Socket::Accept` replaces the descriptor that the constructor has just opened
  and never closes it (`socket.cc:111`).

## 5. What is proved

A theorem holds for every value of the constants that satisfies the named
`ASSUME` of the module it is about. Some have one more hypothesis, a named
definition about the clients; the run that checks the same property satisfies
it, but for `loop_own`, in which main makes hooked calls too.

| Module | Theorem | Property | Hypothesis |
|---|---|---|---|
| `CoroutineProofs` | `TypeCorrect`, `StackAlwaysWellFormed`, `SharedStacksLoseNothing`, `SaveStackAlwaysHasDummy` | `TypeOK`, `StackShape`, `FramesPreserved`, `SaveStackHasDummy` | |
| | `FlatStepsAreSafe`, `SchedulerImplementsCalls` | `FlatStepsNeverFault`, `ImplementsCalls` | `NoReentry` |
| `TimeWheelProofs` | `TypeCorrect`, `PendingExactlyWhileOwed` | `TypeOK`, `PendingWhileOwed` | |
| | `FiresOnItsTurn` | `FirstFiringOnItsTurn` | `OneShot` |
| | `EarlyByNoMoreThanLag` | `EarlyByLagAtMost` | `Steady` |
| `EpollProofs` | `TypeCorrect`, `KernelAlwaysMatchesTable`, `ClosedAlwaysLeavesNothing` | `TypeOK`, `KernelMatchesTable`, `ClosedLeavesNothing` | |
| `EventLoopProofs` | `TypeCorrect` | `TypeOK` | |
| | `WakeupNeverLost`, `LoopLives`, `SleepCutOnlyByLeftover` | `WakeupNotLost`, `DiesOnlyByMain`, `SleepCutOnlyByOwnFd` | `Own` |
| `HttpServerProofs` | `TypeCorrect`, `PointersAlwaysValid`, `EpollCtlAlwaysSucceeds`, `ResponsesAlwaysIntact`, `OnlyRequestsEverLeak` | `TypeOK`, `PointersValid`, `EpollCtlNeverFails`, `ResponsesIntact`, `OnlyRequestsLeak` | |
| `ByteArrayProofs` | `BlocksWellFormed`, `ReadsReturnWrites`, `ReadsFailOnlyHurt`, `StreamStartsWithData` | `TypeOK`, `ReadsBack`, `FailsOnlyDrainedOrPadded`, `StreamHoldsData` | `ItemsFaithful` |
| | `ShortItemsFaithful` | which items satisfy `ItemsFaithful` | |
| | `ZigZagAlwaysExact`, `WriteVKeepsSevenBits` | the reason for `NumbersReadBack` and its violation | |
| `LogConfigProofs` | `LoggersAreConfigured`, `NothingLostWithoutReload`, `ObserversAreTold` | `LoggersMatchConfig`, `LostOnlyInReload`, `ObserversAgree` | |
| | `RootAlwaysSpeaks` | `RootSpeaks` | `RootsUsed` |
| `LocksProofs` | `ScopesImplementLock` | `ImplementsLock` | |

### Coroutines

`CoroutineProofs.tla`, for every set of coroutines, every positive number of
shared buffers, every depth and every client, re-entrant ones included:

- `TypeCorrect`: `TypeOK`, so no occupant of a shared buffer is ever main;
- `StackAlwaysWellFormed`: `StackShape` and `OnlyTopIsRunning`;
- `SharedStacksLoseNothing`: `FramesPreserved`;
- `SaveStackAlwaysHasDummy`: the null branch of `SaveStack` is dead code.

The only assumption is `ConstantsAssumption`: main and the null pointer are not
coroutines of `Co`, there is at least one buffer.

The argument. None of the properties is inductive alone. `FramesPreserved` says
that a suspended coroutine has its frames in the buffer or in a copy; to keep
that over a switch one has to know that the occupant recorded in `occupy_co_`
is the coroutine whose frames are really there, that it uses that buffer, and
that it has run (so that `dummy_` is set or is being set now). `MemInv` adds
these facts. `StackInv` adds to the stack properties that neighbours on
`co_stack_` differ (so a switch never goes from a coroutine to itself, which
would save and restore nothing) and that nobody on it is uncreated. The
inductive invariant is `IInv == TypeOK /\ StackInv /\ MemInv /\ fault #
"bad_alloc"`. The lemma `SwapMemory` shows once, for any two different
coroutines, what `SwapContext` does to the stack memory; `ResumeSwapIInv` and
`PopIInv` (for `Yield` and `CoMainFunc` alike) use it. `NextIInv` has a case
per operation, and the theorems follow by propositional temporal logic.

The same module, for clients that do not resume what is already on
`co_stack_` (`NoReentry`; a re-entered coroutine has two callers and the
abstract one has one, so the refinement fails without it):

- `FlatStepsAreSafe`: no switch to or from main faults, whatever nesting came
  before;
- `SchedulerImplementsCalls`: `Spec => ImplementsCalls`.

The argument adds `NInv` to `IInv`: a coroutine is on `co_stack_` once and is
not finished while it is there. With it the caller of the refinement mapping,
which is chosen by position, is a function of the stack (`BelowAt`, `BelowOff`); a
push gives one coroutine a caller and a pop takes one away (`Popped`, for `Yield`
and the end alike), and each step maps to `Create`, `Call`, `Return` or, at a
fault, a stutter.

### Time wheel

`TimeWheelProofs.tla`. The inductive invariant for the first two theorems is
`WInv`: an item is in one place of one list (`Once`), the iterator is in the list
that is walked (`Iterator`), and `repeat_count_` is what is left of the times
asked for, one more while the callback runs (`Counted`). `PendingWhileOwed` says
nothing of `repeat_count_`, so `Counted` is what relates the list to the
firings. Nothing is assumed of callbacks: they may add timers to the
list being walked.

`FiresOnItsTurn` needs `OneShot`: timers asked for once and not added in a
callback. This is not for convenience: after a splice, and for a timer added to
the list being walked, the property is false (section 4). The invariant
`DueTurns` equates the turns a timer has to wait with the distance of its slot plus
its rounds, with an exception for items ahead of the iterator.

`EarlyByNoMoreThanLag` needs `Steady`: in addition one granularity (changing it
moves the meaning of the ticks already counted) and timeouts that the capped ages can
reach. `Paid` says that the wheel has turned no further than the time that has passed
since the timer was added, plus the lag at that time; products of the
granularity with a number of turns are kept as one term that each turn changes by
`granularity`.

### Epoll table

`EpollProofs.tla`. The inductive invariant is the conjunction of the three
properties: a cancellation on a closed descriptor is harmless because the table has
nothing for it. The lemma to notice is `ComplementIsRest`: `CancelEvent` hands
the complement of its argument to `epoll_ctl`, and that is what remains of
the registration because there are two directions only.

### Event loop

`EventLoopProofs.tla` composes the scheduler, the table and the loop. The theorems of
`CoroutineProofs` and `EpollProofs` are about those modules' own `Next` and do not
carry over to a loop that calls their operations under its own guards;
the lemmas `ResumeSwapFlat`, `YieldSwapFlat`, `CoMainFuncFlat`, `RegisterTypes` and
`CloseTypes` say what each operation does here.

`Base` holds for every client: types, and the execute stack is main alone or main
and one coroutine (`Flat`). For the other theorems the clients
have to be such that each descriptor has one user, a coroutine that closes has
no other descriptor, and main does not block (`Own`). `WakeupNotLost` fails for two readers of
a descriptor, and the loop dies when coroutines close each other's (section 4). When main
makes no hooked call the thread does not die at all, and that is what `LoopLives` says, more than
`DiesOnlyByMain`.
`OInv` says then: the table holds the users of the descriptors and the
kernel what the table holds (`Registrations`); a call that failed and is about to
register has missed nothing that epoll's list does not have (`CallsInv`); a
coroutine that waits is registered, and if its descriptor is ready, the event is
on the list, in the batch, or with the handler (`Waiting`); the events of a
batch are of different, registered descriptors (`Round`). The step that matters
is `RegisterAndYield`: an arrival between `EAGAIN` and `epoll_ctl` is on no list,
and `epoll_ctl` puts it there.

For `SleepCutOnlyByOwnFd`, `SInv` says that a coroutine that no event has ever resumed in
a sleep has no timer but the one of the sleep it is in, so that when a timer resumes it none is
left. That the timers due in a list are among those pending is part of `Base`.

### HTTP server

`HttpServerProofs.tla`, for any clients, requests, workers and buffer sizes, in both
modes. `Ownership`: a descriptor is registered exactly while it is open; its
`data.ptr` and that of an event not yet handled are the same live object, which
belongs to that descriptor; a batch has at most one event of a descriptor. That is
why another worker's `accept` of a reused descriptor cannot meet an
old event. `Delivery` relates the object to the connection: what is behind the
cursor is what is owed and was not sent, and an object armed for reading owes
nothing. Each way a handler ends has a lemma (`DropIInv`, `ModifyIInv`,
`YieldIInv`). What `HandleRequestData` returns is used only as a status, a flag
and a list of parts.

`OnlyRequestsEverLeak` adds `Account`, which is inductive relative to that invariant:
the live objects that are no registration's `data.ptr` are those that an answer
has left behind, and no object was left behind by two answers. It is the only way an
object can become nobody's: a close deletes the object it drops, a partial send
keeps it, and the answer to a request takes a new one.

### Byte array

`ByteArrayProofs.tla`, for every `base_size_`, every set of items that satisfies
`ItemsFaithful`, and any sequence of `Write`, `Read`, `Clear`, `SetAllBits` and
`GetBuffer`. None of the properties is inductive: `result` is what one read made
of blocks that many calls have filled, grown and cut. The invariant `BInv` has three parts:

- the blocks before `write_ptr_`'s are full, those behind it empty, and its own is
  empty only if it is the first (`Filled`); `capacity_` counts at least the blocks of
  the chain (`Shape`); the blocks hold `data` in order and without gap (`Flat`);
- there are marks that cut `data` into the bytes of the items (`Marks`), and the
  reader is at the mark of the next item, unless it has passed the end of a
  full last block: then it is lost (null, or on a block that was cut off) or on a
  spare block with nothing left to read (`Reader`);
- what the properties say of reads (`Sound`); bytes that were never set can be loaded
  only from a stream that contains them.

`Start(i)` is where block i starts. It turns the products and quotients of the block size into one term
that grows by `Base`, and that is all that the proofs about blocks know of
it (`Place`, `PlaceOf`, `RoundUpIs`). On it rest a lemma for each operation: what
`ExtendCapacity` adds and cuts off (`ExtendKeeps`), that `Write` appends to the data
(`WriteKeeps`), that one `Read` and two in a row return the bytes at the reader's place and
leave it behind them (`ReadGood`, `ReadBoth`) or fail (`BothFail`), and what `BitsStream` is
(`BitsIs`). The second disjunct of the reader's case is why the property has to name
the drained reader: a write after it calls `ExtendCapacity`, which cuts the
spare block off.

`ItemsFaithful` is about the client, not about the array. `ShortItemsFaithful` shows what
it allows: every fixed-length integer, every signed number whose zigzag code has seven
bits, every string of up to 63 characters.

### Integer encodings

`ByteArrayProofs.tla`, for every value of 8, 16 and 32 bits; the argument is the same
for 64, but the provers do not evaluate `2^64`. Zigzag is exact
(`ZigZagAlwaysExact`), and what `WriteV` writes is the code itself if and only
if it has seven bits; otherwise nothing, or bytes that were never set
(`WriteVKeepsSevenBits`).

### Configuration and log

`LogConfigProofs.tla`, for any documents, names, levels, listener keys and logging
threads. `DocsAssumption` says that a document's value of `"logs"` has each name once, as
the elements of a `std::set<LoggerConf>` do.

The inductive invariant is `LInv`. `Progress` says what the manager has at every
position of the listener: the old loggers it has not come to yet; then none;
then the new ones up to where it is, the last of them with its appenders up to where
it is; besides these always `strays`, and after a load that was left nothing else. `Made` says
what a logger was made of: its level, and its appenders exactly, unless it was one of
`strays` and has earlier ones too. `AtOK` and `Named` make these positions meaningful: they are within the value, and a
map entry leads to a logger of that name. `CalmInv` relates a thread inside the macro
to the reload: while nothing has disturbed it, its logger is the one of the
configuration. `RInv` adds for `RootAlwaysSpeaks` that the root, and every object a thread
got as the root, has an appender; it needs `RootsUsed` (every root of a document has
an appender that is used), without which a configured root is silent. `VarOK` is
the invariant of the scalar variable, proved through each call of a listener.

The used appenders of a logger and the listeners called in order are
recursive functions over positions. What they yield is proved by minimal counterexample
(`Least`), which needs no induction theorem with an operator parameter.

### Locks

`LocksProofs.tla`, for every set of threads and without assumptions:

- `ScopesImplementLock`: `Spec => ImplementsLock`, so at most one thread is inside
  and only that thread gives the lock back.

The argument. Mutual exclusion is not inductive: that a clear by thread t empties
`Holders` needs that the flag is set while there is a holder and that
there is at most one, and a thread between the clear and the reset of
`is_locked_` must not count as one. The invariant of the lemmas `InitInv` and
`NextInv` says both; `StepRefines` maps each step to `Acquire`, `Release` or
a stutter.

### Only model-checked

- Liveness (`EventuallyFires`, `PassEnds`, `WaiterWoken`, `StopEndsLoop`,
  `PlainServed`) and `ENABLED`, which are out of the prover's reach.
- `NumbersReadBack`: that zigzag is exact and what the encoder writes are theorems, and so is
  that the bytes come back; the decoder's minimum over the bytes is left to TLC.
- `PatternsParsed`: patterns are parsed by a recursive function over the text.
- `AnswersRight`, which says of each text what the parser makes of it; for arbitrary
  texts a theorem could only repeat the definition of `HandleRequestData`.

## 6. Not modelled

`Address` wraps `sockaddr` and `getaddrinfo`; `Socket` makes one system call per
operation and remembers its success; both log and return. Clocks, thread ids,
back traces and the singleton template have no protocol. YAML and the
`LexicalCast` conversions, HTTP reason phrases and pages, and the text of log items
are formatting. `Semaphore` and the read-write locks are pthread calls that
nothing in src/ uses.

Within the modelled parts: lifetimes of shared pointers, allocation
failure, stack sizes and stack overflow, the limit on the events of one
`epoll_wait` (the rest stays on the ready list), `EINTR`, the hook switch
turned off in the event loop, the data races on `loop_`, `root_`,
`max_level_` and `request_handlers_`, closing of the epoll descriptor,
`GetNextTimeout` (it changes nothing; the loop model waits for any time), the
size of `buf_`, and `SIGPIPE`, which ends the process when a reset comes between
`epoll_wait` and a `send`.

## 7. Mutants

Operators commented as mutants stand before the definition they alter. Each
is a plausible slip in that code (a lost save, a rounding, a missing else), and
each property of a passing run is violated by one of them, so that no property
holds by the shape of the model.
