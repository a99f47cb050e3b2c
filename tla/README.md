# Arduino_Threads in TLA+

Arduino_Threads runs several sketches as threads of mbed-os and gives them three
things to share: queues of values (`Sink`/`Source`, `Shared`), the buses (`Wire`,
`SPI`) and the serial port. This directory holds TLA+ models of that code, the
TLC configurations that check them, and proofs checked by TLAPS. Source paths
below are relative to the library's `src/` directory, those of examples to its root.

## The system

| Component | State | Operations | Interacts with | What makes it correct |
|---|---|---|---|---|
| `CircularBuffer` (`threading/CircularBuffer.hpp`) | `_data`, `_head`, `_tail`, `_num_elems` | `store`, `read`, `isFull`, `isEmpty` | owned by a `SinkBlocking`, under its mutex | it is a bounded queue for every size |
| `SinkBlocking` (`threading/Sink.hpp`) | a ring, a mutex, two condition variables | `inject`, `pop` | called by the sketches that push (through a `Source`) and by the sketch that pops | first in first out, no lost wakeup, no store into a full or read from an empty ring, waiting calls are served |
| `SinkNonBlocking` (`threading/Sink.hpp`) | the last value, a mutex | `inject`, `pop` | as above | `inject` returns |
| `Source` (`threading/Source.hpp`) | the list of connected sinks | `connectTo`, `push` | calls `inject` of each sink, waits in front of a full one | each sink sees every value once, in order |
| `Shared` (`threading/Shared.hpp`) | the last value, a mailbox of blocks | `push`, `pop`, `peek` | any sketch, no lock around the sequence of mailbox calls | blocks are accounted for, values keep their order, the newest survive, `peek` is never behind `pop` |
| Sketch threads (`Arduino_Threads.cpp`) | the thread, its flags, its loop delay, the global flags | `start`, `terminate`, `sendEvent`, `broadcastEvent`, `setLoopDelay`, `threadFunc` | flags set by any sketch | loops start and stop at the flags they were given |
| Dispatchers (`io/wire`, `io/spi`) | the instance and its static mutex, the mailbox of transactions, a worker thread | `instance`, `dispatch`, `destroy`, `threadFunc` | device calls of the sketches put transactions in, the worker takes them out | each accepted request is carried out once, in order, or dropped by a `destroy`; every call returns |
| `IoResponse` (`io/IoTransaction.h`) | done flag, mutex, condition variable | `done` (worker), `wait` (sketch) | connects the worker with the caller | no completion is missed |
| Wire and SPI transfers (`process...IoRequest`) | buffers, the bus | one request after the other | the Arduino bus libraries | bytes and counts are right, the bus is released, devices do not disturb each other |
| Bus devices (`BusDevice`, `WireBusDevice`, `SpiBusDevice`, `util`) | a config | construction, `transfer`, `read`, `write`, `writeThenRead`, `transferAndWait` | turn arguments into a request and a config for the dispatcher | the bus does what the caller asked for; requests on the caller's stack outlive their use |
| `SerialDispatcher` (`io/serial`) | list of threads with their rings, event flags, a worker | `begin`, `end`, `write`, `block`, `unblock`, `prefix`, `suffix` and their global forms, `available`, `peek`, `read`, `flush` | the worker empties rings without the mutex and calls back into the sketches' prefix and suffix functions | bytes are sent once and in order, blocked sections stay together, every reader sees every byte, messages are wrapped as their sketch asked |
| Examples (`examples/Threadsafe_IO/Serial_*`) | what each sketch has received | `setup`, `loop` | the serial port, from three or four threads | messages are whole, readers do not take bytes from one another |
| Macros | none that changes | declarations | | |

The behaviours that are hard to test are the interleavings of threads that share
mailboxes, rings and flags, waits that depend on a notification, queues at their
limit, and objects on a caller's stack that a worker uses. `PROJECT.json` lists
them under `hazards`, each at its line.

## The modules

`CircularBuffer` is the ring as a record and operators on it. `Contents` is the
sequence of its elements, the link to the abstract queue.

`SinkBlocking` models `inject()` and `pop()` statement by statement: the actions
`InjectLock`, `InjectTest` (the condition of the `while`), `InjectWait` and
`InjectWake` (the two halves of the condition variable's `wait()`), `InjectStore`,
`InjectNotify` and `InjectUnlock`, and the same seven for `pop()`. The mutex is the
variable `owner`, the wait lists are sets of threads, `pc` says where each thread
is. `BoundedFifo` is what a sink promises: a queue whose calls take effect at one
instant. `SinkBlocking` is shown to implement it under the refinement mapping
`Fifo`, in which the element moves at `InjectStore` and `PopRead`.

`SinkNonBlocking` has the recursive mutex of mbed (`owner` and `count`), since a
thread that pops twice locks it twice.

`Source` composes sources with their sinks. Since `SinkBlocking` implements
`BoundedFifo`, a sink is a bounded sequence here, and `Inject` is enabled while
it has room. `at[p]` is the place in `_sink_list` that a push has reached.

`Shared` has one action for each mailbox call of `push()` and `pop()`. A
mailbox is a pool of blocks (`free`) and a queue; a block that a thread has
taken and not yet freed is in neither.

`SketchThread` models `start()`, `terminate()`, `sendEvent()`, `broadcastEvent()`,
`setLoopDelay()` and the steps of `threadFunc()`. A flag word is a set of flags; a
`wait_all()` clears what it waited for, as mbed's does by default. Setting a flag
releases waiting threads in the same call, which is why nothing else runs until the
waits that can return have returned (`Settled`). `news` keeps which of its start flags
were broadcast since a sketch last passed its wait; the code has no such variable.
`SendEvent` is a call on a thread that runs: `sendEvent()` does not test for it, but has
no `_thread` before `start()` and nobody to receive the event after the end.

`IoDispatcher` is the request path that `WireDispatcher` and `SpiDispatcher`
have in common, from a device call to the return of `wait()`: the static mutex,
the creation of the instance (which spins until the worker runs), `try_alloc()`
and `put()`, the worker's loop, and `done()` and `wait()` on each response with
its own mutex and condition variable; and the end of a dispatcher: `destroy()` sets
`_terminate_thread`, joins the worker and deletes the object, so that a later call
makes a new one with an empty mailbox. A client that uses a null response (`null`)
or the reference to a deleted dispatcher (`dangling`) has undefined behaviour and
leaves the model. `IoService` is the abstract specification: requests are submitted,
carried out one at a time in that order, and collected once complete; when the bus
is given up, what is pending is dropped. What the worker does on the bus is one step
here.

`WireProcess` and `SpiProcess` detail that step: `processWireIoRequest()` and
`processSpiIoRequest()`, byte by byte, on models of the Wire and SPI libraries
derived from how they are called: the transmit buffer of the Wire library has `TxLimit`
bytes and refuses the rest, which the worker counts as written nevertheless; a device
outside `ChipSelect` was constructed with null functions for select and deselect, and
nothing is selected for it. `BusDevice` composes them with the calls of the
devices: it follows the constructor arguments and their defaults (`WireArg`,
`SpiConfig`), and what `read()`, `write()` and `writeThenRead()` make of their own
arguments (`WireCallConfig`, `SpiCallConfig`), to the bytes on the wires. One call
follows the other, in any order, on any device, which is what `IoDispatcher` shows
the worker to see.

`SerialDispatcher` models the list of entries, one for each thread that called
`begin()`, with a transmit ring and, for readers, a pointer to a receive ring.
The calls hold `_mutex` throughout and are single steps, except `write()`, which
stores byte by byte (`WriteCall`, `StoreByte`, `WriteReturn`), and the first
`begin()`, which spins until the worker runs. The worker takes no lock, but has
real-time priority: `SketchesRun` says when the others get to run, which is
while it waits for a flag, for the port, or in a callback. So it may find a ring
in the middle of a `write()`, and a `write()` may find the ring emptied, but a
ring is emptied in one go. `Compact` is what `std::remove_if()` without `erase()`
does to the list: `Place` says where an entry of another thread goes, and an entry that
was moved but not overwritten has lost its prefix and suffix functions (`MovedFrom`).
Copies of an entry share its receive ring. A message is a
record of its text and of whose prefix and suffix it got (`Chosen`). `EndUnused` is
`end()` before any `begin()`, which joins a thread that was never started and so
never returns, with `_mutex` held. `SerialPort` is the abstract specification: bytes of
a thread are accepted one by one, and leave in messages that hold all accepted from
one thread since its last message, unless the thread holds them back. Its variables are
mapped to what has been stored for each thread (`accepted`), that less what is in the
thread's ring (`taken`), the blocked threads (`held`), the worker's message (`hand`)
and what the port got (`out`). It promises this until it is closed, which an `end()`
maps to.

`SerialSketches` runs the sketches of the Serial examples on `SerialDispatcher`: each
sketch is the sequence of its calls (`Setup`, `Loop`), `line` is the next one, and
`SketchStep` conjoins it with the action of the dispatcher. The run has three projects: the main sketch of
Serial_GlobalPrefixSuffix with the GPS thread of Serial_ProtocolWrapping and with a thread
of Serial_Writer, and the main sketch of Serial_Reader with one of its threads. (The
repository keeps the first two apart; together they exercise the precedence of a thread's
own functions.) `SketchesSpec` says what they do, `SketchesFairSpec` adds the fairness.

`MC...` modules give names to the constants that a configuration cannot write
down (functions on model values). The `...Proofs` modules extend the module they are
named after with its inductive invariant and theorems.

Definitions marked "Mutant" are variants of the action that follows them, each
with a plausible mistake in it. They are not part of any specification; each
shows, when put in the place of the action, that a property notices the mistake.

## What the runs check

| Run | Configuration | Shows |
|---|---|---|
| `sink` | two producers, two consumers, two values, ring of 2 | `MutualExclusion`, `NoLostWakeup`, `TestStillTrue`, and the refinement of `BoundedFifo` with its progress (`RefinesFifo`, `FifoProgress`) |
| `source` | two threads pushing into one source or one each, two sinks of sizes 1 and 2, up to three connections, two pushes each | every sink sees every value, once per connection, in the order of the pushes (`EverySinkSeesEveryValue`); values arrive (`EveryValueArrives`) |
| `shared` | two pushers with three pushes each, two poppers, two blocks | `BlocksAccounted`, `OrderKept` (with `peek()`), `NewestKept` |
| `sketch_flags` | three sketches: one with two start flags, one with one flag to start and stop, one without flags and with a delay that changes; four broadcasts, three starts | `EventsKept`: no broadcast of a start flag is lost or left over, across starts and terminations; `StartsOnItsFlags`: a sketch starts looping once all its flags were broadcast; `LoopsForever`: sketches without flags loop for ever |
| `io_dispatcher` | two clients with two and one requests, two blocks, any number of `destroy()` | blocks, mutexes, completions, lifetime of requests, the refinement of `IoService`, and which calls and which `destroy()` return |
| `bus_device` | two Wire devices (one constructed with restart and stop false, one with defaults), two SPI devices (own fill symbol; default one and no select function), up to three bytes to write, two of which the transmit buffer of the Wire library holds, and two to read, every call with every argument | `RequestCarriedOut`, `FullDuplex`: each call does what its caller asked for; `OnlyItsDevice`, `BusReleased`: nothing is left for the next call; `CallsComplete` |
| `serial` | two threads, rings of two and one bytes, four calls or arriving bytes after `begin()`, one of the threads may call `end()` and `begin()` again | `UsersRegistered`, `NothingLost`, `BlockedTogether`, `EveryReaderSees`, the refinement of `SerialPort` (`RefinesPort`), `RingsEmptied`, `CallsReturn` |
| `serial_sketches` | the three projects of `SerialSketches`, four messages, one byte that arrives | `MessagesWhole`, `Wrapped`, `EveryReaderGets` |

Four runs end in a violation. Each is a disagreement between the code and a
statement about it, quoted in `PROJECT.json`:

| Run | Violated | What the code does |
|---|---|---|
| `sink_nonblocking` | `InjectReturns` | `SinkNonBlocking::pop()` returns before its `unlock()`; the next `inject()` waits for ever |
| `shared_lost` | `PushInserts` | a `push()` and a `pop()` interleave so that the value is dropped (`try_alloc()` finds no block) or the push waits in `try_get_for()` for somebody else's value |
| `sketch_start` | `StartTogether` | `wait_all()` clears the start flag it has waited for: of two sketches that wait for one flag "to synchronize" their loops, one starts and the other waits on |
| `sketch_stop` | `StopsWhenFlagsSet` | the test of the stop flags is inverted: the sketch ends while they are not all set |

Some properties state what does hold where more might be expected:

* `EventsKept` and `StartsOnItsFlags` are stated for a sketch that shares its start flags
  with no other (`Owns`): `wait_all()` clears them, so that of several sketches that
  share one only one starts (`StartTogether`).
* `RequestCarriedOut`: of the bytes to write those are sent that fit into the transmit
  buffer of the library; `bytes_written` counts them all.
* `NullOnlyWhenFull`, because `dispatch()` returns a null response while all blocks
  are in use, and `read()`, `write()`, `writeThenRead()` and `transferAndWait()` then
  wait through a null pointer.
* `DestroyReturns` and `CallsReturn` of `IoDispatcher`. `destroy()` joins a worker that
  looks at `_terminate_thread` only between two transactions: if it sleeps in
  `try_get_for(forever)`, `destroy()` hangs, and with it, since it holds `_mutex`, every
  later call (`Hung`). If the worker is busy, `destroy()` returns after the current
  transaction, and what is queued behind it is forgotten together with its waiting
  callers (`Forgotten`). A caller between `instance()` and `dispatch()` is left with
  a dangling reference.
* `BusReleased`: `write()` passes its `stop` to the worker as `restart`, which counts only
  when a read follows: no write keeps the bus, whatever its caller passed. A read keeps
  it if told so, until the next transfer that does not.
* `CallsComplete` of `BusDevice` names the one way in which a bus call does not
  complete: a Wire device that does not answer, for which the worker spins without
  a timeout, and with the highest priority, so that nothing else runs.
* `UsersRegistered`: the comments in `end()` say that it removes "the thread data from the
  thread data list" and, "if no thread consumers are left", ends the port (lines 80-82
  and 91-93 of `SerialDispatcher.cpp`). It does neither after a `begin()`:
  `std::remove_if()` without `erase()` leaves the list as long as it was, with the entry
  of the thread still in it, if it was the last one, or else another entry doubled. What
  remains true is that no thread that uses the port loses its entry to the `end()` of
  another one.
* `RefinesPort`, `BlockedTogether`, `EveryReaderSees` and `RingsEmptied` are stated for
  ports on which nobody has called `end()`: after that a doubled entry may be sent twice
  and its ring fed twice.
* `RingsEmptied`: the thread whose flag lies outside `ALL_EVENT_FLAGS` (the 32nd
  entry) is served only when another thread sets its flag; `FlagBits` is 1 in `serial`, so
  that the second thread is such a one. Alone it would wait for ever.
* `BlockedTogether` and `MessagesWhole`: a blocked section leaves in one message, but
  not in one of its own. Two sections of a thread that the worker had no time to
  send between them, because the port is slower than the sketch, leave together,
  with one prefix and one suffix; and when they do not fit into the ring, the end of the
  second one is dropped.

### Bounds

Threads are two of a kind, enough for two to compete on one side while
the other side works: the third thread of a kind would do what one of the two
does. Rings and mailboxes have two cells, so that they are empty, partly full,
full and wrapped around; a sink of size 1 (the default) is in `source`. The
bounds `MaxPushes`, `MaxLinks`, `MaxBroadcasts`, `MaxStarts`, `MaxCount`,
`MaxWrite`, `MaxRead`, `MaxSections` and `MaxArrive` are guards in the models: three pushes into two blocks
discard a value, three connections to two sinks include a sink connected twice,
four broadcasts set two start flags before a start and again after it, or one of them
twice, two bytes are enough to see
the order, and a third one does not fit into a transmit buffer of two. `QueueSize` is 32 in the dispatchers and 16 by default in `Shared`;
two blocks and three requests let the mailbox fill up. In `serial`, `MaxCalls`
counts the calls and the arriving bytes together: four of them hold a blocked
section with a write in it while the other thread writes, two readers with one
byte, or a ring that two bytes overflow. `FlagBits` stands for the 31 bits of
`ALL_EVENT_FLAGS`. In `serial_sketches` a print is one byte and the ring has five:
two sections of two prints fit and may leave in one message, a third one overflows it,
and four in all let one sketch print three of them while the worker is in the port with
the first. The theorems about these sketches hold for any number of threads and bytes. `LoopDelays` gives a
sketch the delays 0 and 1, a sleep that returns at once and one that does not. The
theorems hold whatever the bounds are.

`CHECK_DEADLOCK FALSE` is set where the bounded calls are used up and the
threads rest, and where a thread may really stop (a client that met a null
response, a push that waits).

### Fairness

* `SinkBlocking`: weak fairness of each thread within a call. The scheduler runs
  ready threads of equal priority in turn. Nothing forces a thread to call, and
  which of several waiting calls is served is not promised: a thread woken by
  `notify_all()` may find the slot taken again and again.
* `Source`: weak fairness of pushes that can go on and of the sketches that
  pop. `EveryValueArrives` is stated for threads that share no sink with another
  one (`Alone`), for the reason just given.
* `IoDispatcher`: weak fairness of the worker (it has the highest priority) and
  of each client within a call, strong fairness for taking the static mutex,
  which the RTOS hands to the waiting threads of one priority in turn. Nobody has to
  call `wait()` or `destroy()`.
* `SketchThread`: weak fairness of each thread; `setup()` and `loop()` return.
* `Shared` (`shared_lost`): weak fairness of each thread; poppers pop for ever.
* `SinkNonBlocking`: strong fairness for the mutex.
* `BusDevice`: weak fairness of the worker that carries out the call.
* `SerialDispatcher`: weak fairness of the worker and of a call that has begun; the
  port takes what it is given and the callbacks return.
* `SerialSketches`: the same, and strong fairness of the next call of each sketch, which
  waits for `_mutex` among sketches of its own priority.

## What is proved

The first part of `SinkBlockingProofs`, on the ring, for any size of at least one and
any values:
`EmptyBufferContents`, `StoreAppends` and `ReadRemovesHead` say that the ring, seen
through `Contents`, is a queue, and that `WellFormed` is kept. The wrap-around is
expressed by `Slot(t, k)`, the cell `k` places after `t`, and `NextIndexIsSlot` links
it to the code's `%`.

The rest of `SinkBlockingProofs`, for any sets of threads, any values and any size:

* `Invariance`: `Spec => []Inv`. `Inv` is the conjunction of `TypeOK` (with
  `WellFormed`), `MutualExclusion`, `WaitersWait` (the threads on a wait list sit in its
  `wait()`), `ValueCarried` (a call that carries a value carries a stored
  one), `TestStillTrue` and `NoLostWakeup`. None of the last three is inductive
  alone: that a test is still true when it is acted upon needs mutual exclusion, and
  that nobody sleeps while there is something to do needs both, because a
  thread enters the wait list on the strength of its test.
* `TypeCorrectness`, `MutexCorrect`, `WakeupsDelivered`, `TestsStayTrue` and
  `PopReturnsStored` are its parts.
* `Refinement`: `Spec => RefinesFifo`, each step of the code a step of the abstract
  queue or none, from `Inv` and the lemmas about the ring.

The assumptions are those on the constants: `NoValue` is not a value, `NoThread`
is not a thread, the size is a positive number. The proof does not even need
the producers and the consumers to be different threads.

`SourceProofs`, for any sources, sinks, capacities, threads and connections: `SinksSeeAll`,
`Spec => []EverySinkSeesEveryValue`. The invariant counts (`OnePerConnection`): a sink
has as many copies of a value as there are connections that `for_each` has passed
(`Served`). It needs that no value is in a sink before its push begins (`NoneEarly`),
without which a new push would find copies of its value already there, that a push
stays within its list (`Reached`), and that the list does not grow once something is
pushed (`NotYet`: connections are made in `setup()`). `InjectReceived` and
`InjectServed` say that one `inject()` adds one copy and one served connection.

`SharedProofs`, for any threads and any number of blocks: `NoBlockLeaks`,
`ValuesInOrder`, `NewestStay`. `BlocksHeld` counts the threads that have a block in
their hands; for the order, values that are inserted must be newer than those already
there, so `AllInOrder` also says that a push under way has a value newer than any in
the queue (`Begun`), and that `peek()` shows it or another thread's (`LatestPushed`).
`NewestKept` speaks of threads at rest only: `LonePushOf` says what the queue holds at
each statement of `push()`.

`SketchThreadProofs`, for any sketches, flags and delays: `TypeCorrectness`
(`Spec => []TypeOK`, which no run checks) and `NoEventMissed` (`Spec => []EventsKept`). The invariant is `TypeOK /\ EventsKept`: what a wait or a stop
of another sketch clears is, by `Owns`, none of the sketch's flags.

`IoDispatcherProofs`, for any clients, requests and size of the mailbox:

* `Invariance`. To the properties of the run, `Inv` adds whose request a caller works on
  (`OwnRequest`), that `wait()` acts on a test made under the mutex (`DoneSeen`), that a
  transaction is in one place at a time and not done before the worker says so
  (`OneTransaction`), and that there is a worker exactly while there is a dispatcher
  (`WorkerExists`). `RequestOutlivesTransaction` rests on `DoneSeen` and `OneTransaction`:
  a caller returns only when its request is done, and then the worker has let go of it.
* `MutexCorrect`, `RequestsLive`, `CompletionsDelivered` and `NoBlockLeaks` are its parts.
  `NullMeansFull` follows by counting: each queued or held block is a different
  request under way.
* `Refinement`: `Spec => RefinesService`. A `destroy()` maps to the loss of what is
  pending, every other step to a step of the service or to none.
* `DestroyHangsForGood`: a `destroy()` that finds the worker asleep with nothing queued
  hangs, whatever the other callers do from then on. It holds `_mutex`, so by `Inv` nobody
  else is between `lock()` and `unlock()`, and only such a client could give the worker a
  request. A run reaches such a state (`CallsReturn` excepts it).

`BusDeviceProofs`, for any devices, bytes, lengths and sequence of calls:
`WireCarriedOut`, `ReleasedAfterCall`, `ByteForByte`, `SelectedAlone`, for any size of the
transmit buffer and with or without select functions. `WireInv` and
`SpiInv` say, phase by phase, what has been done of the request that the call's
arguments make; `Idle` says what a call finds whatever calls came before it, on either
bus, and carries the argument from one call to the next.

`SerialDispatcherProofs`, for any threads, sizes of the rings and numbers of calls:

* `Invariance`. `Compact` is the heart of `UsersRegistered`: an entry of a thread other than
  the one that calls `end()` moves to its place (`Place`, a bijection that keeps the
  order) and is not lost, and the entries left behind are copies without decorations
(`MoveLeaves`). `Inv` adds that the worker has
  nothing in its hand between two messages (`HandEmpty`), that a `write()` is that of a
  thread with an entry (`WritersRegistered`), that an entry holds its own thread's
  bytes (`Owned`), and that the numbers in them are those written so far
  (`AllNumbered`). Before any `end()` also: one entry for each thread, the texts in the
  order they left and ahead of the rings (`Ordered`), and a section that has left is
  over (`Sections`).
* `UsersKeepTheirEntries`, `CountedBytesKept` and `SectionsLeaveTogether` follow from it,
  and `BytesInOrder`, which says of the texts alone what the refinement says step by
  step (`StreamKept`, which no run checks).
* `PortRefinement`: `Spec => RefinesPort`. Where `Ordered` says that the numbers of a
  thread's bytes grow, the refinement needs that they have no gap: the bytes in a ring
  are the last ones stored (`Consecutive`). It also needs that the worker writes no
  message without text (`HandFull`). `PortSleeps` collects the steps the port does not
  see: those that keep the bytes, and add entries that are empty.
* `NoByteTakenAway` has an invariant of its own (`RxInv`) on top: as long as nobody has
  called `end()`, what a thread read, has in its ring, and missed are together the
  bytes from its first one to the last one that was taken from the port.
* `EndBeforeBegin`: after an `end()` before any `begin()` no call of any thread begins, goes
  on or returns, and the worker never starts. `Held` says why: a call under way holds
  `_mutex`, and the thread that joins the worker is there only if it was not started.

`SerialSketchesProofs`, for any number of threads and sections and any sizes of the rings,
in projects of which only the main sketch is the one that sets the global prefix and
suffix, or the main reader:

* `SectionsPrintedWhole` (`MessagesWhole`) and `MessagesWrapped` (`Wrapped`). Both relate what
  is in the messages to the lines the sketches have reached, so `SketchesInv` says, on top
  of `Inv`: where a sketch is while a call of its own is under way (`Lines`); that an
  entry has the decorations set so far and no bytes before all of them are set
  (`Decorated`, `GlobalsSet`), which is why no message can leave undecorated; that a ring
  holds whole sections, except the one being written, of which it holds what has been
  stored (`Filling`); and what this makes of the message in the worker's hand (`Hand`)
  and of those sent (`Sent`). A ring that was full is excepted throughout, and stays
  so (`Whole`).
* `PortKeptBySketches` and `SketchesPortRefinement`: the invariants of the port and
  `RefinesPort` also hold under these sketches, which make the calls that `Next` of
  `SerialDispatcher` leaves to them.

The bounds (`MaxPushes`, `MaxCalls`, ...) are constants of which the theorems assume no
more than that they are natural numbers, the sizes of rings and mailboxes any
positive number. The other assumptions are about names (the threads that push to a
shared variable do not pop it, `Worker` is no client, a device is on one bus) and about
the types of parameters (each flag word a set of flags, each device constructed with
the arguments its constructor takes).

Left to TLC:

* Liveness (`FifoProgress`, `EveryValueArrives`, `StartsOnItsFlags`, `LoopsForever`, `ServiceProgress`,
  `CallsReturn`, `DestroyReturns`, `CallsComplete`, `RingsEmptied`, `EveryReaderGets`):
  it rests on fairness, and so on `ENABLED`, which the installed provers do not
  handle.
* The four runs that end in a violation: what they show is a behaviour, not a theorem.
* What `FoldSet` computes in `Links`, the bound on the number of connections: no
  theorem uses it.

## What is not modelled

* What a prefix or suffix function returns: the models keep whose function it was.
  `flush()`, which asks the port to flush. Zero bytes: the worker writes messages
  through `c_str()`, so the rest of a message behind one is not sent; the models' bytes
  are not zero. The rings inside `SerialDispatcher` are the Arduino core's, and
  their steps are indivisible in the model: that a `store_char()` may be
  preempted in the middle of its update of the count, which a `read_char()` of the worker
  changes too, is out of it.
* What happens after undefined behaviour (a dangling dispatcher, a null response,
  `spi()` on a Wire device), the reference counts of `SharedPtr<IoResponse>`, the
  compiler's view of the plain `bool` flags.
* Errors on the bus other than a device that does not answer a read:
  `endTransmission()`'s result is ignored by the code, and so by the model.
* `connectTo()` while another thread pushes, `peek()` during a `push()` of a value
  larger than a word: data races outside the intended use, which the models'
  atomic steps cannot show.
* `terminate()` of a thread that holds a lock or waits on a condition.
* Stack sizes, baud rates, clock rates, the length of a delay: no property depends
  on them.
* The macros that declare sketches, sinks and sources. The examples other than the
  Serial ones: their sketches make the calls that `BusDevice`, `IoDispatcher`, `Source`
  and `Shared` enumerate.
* mbed-os and the Arduino core, which are modelled from how they are used: mutexes,
  condition variables, mailboxes and event flags are atomic objects.

## Plan

1. Done: sinks, sources, shared variables, sketch threads, the dispatchers with their
   whole life, both transfer routines under the calls of the devices, the serial port
   with its decorations and the sketches of its examples.
2. Proved: every safety property that a passing run checks, and the three refinements.
3. Open: the sketches of the other examples on `BusDevice` and `IoDispatcher`, and the
   steps inside the Arduino core's ring.
