# TLA+ models of jive

jive is a C++17 library of utilities. A few parts keep state that several
threads, callbacks or peers change; they come first here and have modules of
their own with proofs. The other parts are small objects and functions without
state, which one run checks together. Paths below are relative to the repository.

## 1. Inventory

| component | state | operations | how it interacts | hard behaviour | what makes it correct |
|---|---|---|---|---|---|
| thread pool `jive/thread_pool.{h,cpp}` | `Queue`: `isRunning_`, `jobs_`, `sentryPool_`, `activeCount_`; `Sentry_`: `isDone_`, `inProgress_`, `exceptionPtr_`; `ThreadPool`: `threads_`, `loadFactor_` | `AddJob`, `Sentry::Wait`, `~Sentry`, `SetLoadFactor`, `~ThreadPool`; workers run `Thread::Run_` | callers and workers share the queue and the recycled sentries; `SetLoadFactor` joins workers that may call back | condition variables, recycled objects, stop and restart with work in the queue, tasks that call the pool | each job is run once, in order; `Wait` tells the caller about its own job; nobody sleeps for ever |
| circular buffer `jive/circular_buffer.h`, `jive/circular_index.h` | `readIndex_`, `writeIndex_`, elements | `Write`, `Peek`, `Read`, `Remove`, `AsPointer`, `Reset` | the socket client reads through one | wrap-around, full against empty | a FIFO of bytes |
| socket client `jive/socket/client.h` | socket, read buffer | `Read`, `Write`, `Peek`, `DiscardBuffer` | a peer and the kernel's stream | time-outs, disconnection, short reads | bytes are delivered in order, once |
| socket `jive/socket/socket.h`, `address.h`, `error.h` | handle, blocking mode | `Connect`, `Accept`, `Bind`, `Listen`, `Send`, `Receive`, `Close`, move | operating system | error paths, time-outs | each handle closed once, mode restored |
| huffman coder `jive/huffman.{h,cpp}` | frequency tree, codes, the expander's place in stream and tree | `Compress`, `Expander`, `Expand` | `Expander` reads what `Compress` wrote | one symbol, codes longer than a byte, ends of pieces, exceptions | round trip, shortest prefix-free codes |
| paragraph formatter `jive/format_paragraph.{h,cpp}` | queue of words, current line, its length, lines | `FormatParagraph` | none | words longer than a line, `size_t` below zero, newlines | ends, loses no word, keeps the width |
| time values `jive/time_value.{h,cpp}` | a count of nanoseconds; `MonotonicSystemClock`: an offset | `GetNow`, conversions, comparison | steady and system clock, `timeval`, ISO 8601 | a system clock that is set, rounding, times before 1970 | time does not go back; conversions stand for the time |
| paths `jive/path.{h,cpp}` | file system | `MakeUniqueSystemName`, `MakeDirectory`, `MakeFifo`, tests, `Directory`, `Split` | other processes | check then act | what is told was so |
| insertion map `jive/insertion_map.h` | one `std::map` ordered by the position of insertion, the next position | `insert`, `operator[]`, `at`, `count`, iteration | none | the map cannot tell equal keys apart | the order of insertion, no key twice |
| scope flags `jive/scope_flag.h`, `cleanup.h` | a flag or a count | enter, leave, copy | threads share a `CountFlag` | check then decrement, nesting | the flag tells whether a scope is open |
| transactions `jive/transaction.h` | vector of operations with what undoes them | perform, `Commit`, destructor | functions that throw or use the transaction | exceptions between the steps, a vector that moves its elements | all or nothing, undone in reverse |
| moving averages `jive/averaging_window.h`, `integer_window.h` | window, running sum, index | `AddElement`, `Reset`, average and extremes | none | overflow, a window not full yet | the sum is the window's |
| byte order and raw buffers `jive/endian_tools.h`, `buffer.h` | `Buffer`: block and counts | convert values and ranges; allocate, move, free | two hosts; `operator new` | ranges that overlap, objects moved from | a number travels; a block has one owner |
| numbers and versions `jive/to_integer.h`, `overflow.h`, `multiply_rounded.h`, `version.h`, `numeric_string_compare.{h,cpp}` | none | convert, check, round, compare | the C library's `strtoll` | limits of types, signs, leading zeros | the number or an exception; comparisons are orders |
| text and binary formatting `jive/strings.h`, `formatter.h`, `hex_formatter.h`, `preserve_format.h`, `binary_io.h` | a stream and its format | split, join, `Formatter`, `HexFormatter`, write and read objects | streams | lengths at a limit, a format left changed, a stream that ends early | nothing is lost or invented |
| thread priority `jive/thread_priority.{h,cpp}` | the system's | `SetFifoPriority` | operating system | the sign of the offset | each offset in the range is accepted |
| everything else | none, or one value | properties, templates, logging, time checks, test helpers | none | none | see `PROJECT.json` for each and why it is left out |

The hazards of every component, each at its line, are in `PROJECT.json`.

Interactions. Callers and tasks call the thread pool and wait for it; its worker
threads call the callers' tasks. The client reads a socket through an `AsPointer`
on its circular buffer; the other end of the socket is a peer that sends and
disconnects as it likes. The threads of a program share `CountFlag`s, and the
system clock and the file system are shared with everybody. The other components
share nothing.

## 2. Modules

| module | models | composed with |
|---|---|---|
| `JobService` | the abstract thread pool: submitted, taken, performed, told | - |
| `ThreadPool` | `thread_pool.{h,cpp}` | implements `JobService` |
| `ThreadPoolProofs` | theorems about `ThreadPool` | extends it |
| `Fifo` | the abstract buffer: a queue with a capacity | - |
| `CircularBuffer` | `circular_buffer.h`, `circular_index.h` | implements `Fifo` |
| `CircularBufferProofs` | theorems about `CircularBuffer` | extends it |
| `Client` | the reading side of `socket/client.h`, and `Flush` | instantiates `CircularBuffer`, with a peer and the kernel |
| `ClientProofs` | theorems about `Client` | extends it, instantiates `CircularBufferProofs` |
| `ClientWrite` | the writing side of `socket/client.h`, and `Send` | - |
| `Socket` | the life of the objects and descriptors of `socket/socket.h` | - |
| `SocketProofs` | theorems about `Socket` | extends it |
| `Transaction` | `transaction.h` | - |
| `ScopeFlags` | `scope_flag.h` | - |
| `OrderedMap` | the abstract map: a sequence of entries | - |
| `InsertionMap` | `insertion_map.h` | implements `OrderedMap` |
| `AveragingWindow` | `averaging_window.h`, `integer_window.h` | - |
| `Buffer` | `buffer.h` | - |
| `Strings`, `PathNames` | functions of `strings.h`, and of `path.cpp` on names | `PathNames` uses `Strings` |
| `Paths` | the functions of `path.cpp` that use the file system | extends `PathNames` |
| `FormatParagraph` | `format_paragraph.cpp` | - |
| `Huffman` | `huffman.{h,cpp}` | - |
| `TimeValue` | `time_value.{h,cpp}` | extends `FloatingPoint` |
| `BinaryIo` | `binary_io.h` | - |
| `Numbers` | `to_integer.h`, `version.h`, `numeric_string_compare.cpp`, reading an address | uses `Strings` |
| `FloatingPoint` | `power.h`, and rounding to a mantissa | - |
| `Conversions` | `overflow.h`, `multiply_rounded.h` | extends `FloatingPoint` |
| `EndianTools` | `endian_tools.h` | - |
| `Formatting` | `formatter.h`, `hex_formatter.h`, `preserve_format.h` | - |
| `ThreadPriority` | `thread_priority.cpp` | - |
| `MCThreadPool`, `MCCircularBuffer`, `MCClient`, `MCSocket` | the instances that TLC checks | extend the modules |
| `Utilities` | `Transaction`, `ScopeFlags`, `InsertionMap`, `AveragingWindow`, `Buffer`, `Paths`, `ClientWrite` and `FormatParagraph` with constants of their own, and what is said of them | instantiates them |
| `ValueUtilities` | the same for `TimeValue`, `BinaryIo`, `Conversions`, `EndianTools` and `Formatting` | instantiates them |
| `CoderUtilities` | the same for `Huffman` | instantiates it |
| `SequenceProofs` | lemmas on numbers, recursive functions and sequences, and a theorem about `Strings` | instantiates `Strings` |
| `UtilityProofs`, `ValueProofs`, `HuffmanProofs` | theorems about the objects of the three | extend them and `SequenceProofs` |
| `MCUtilities` | the three, and instances of `Strings`, `Numbers` and `ThreadPriority` | extends them |

### ThreadPool

One variable per member: `isRunning`, `jobs`, `sentryPool`, `activeCount` are
`Queue`'s, `isDone`, `inProgress`, `exceptionPtr` are `Sentry_`'s and indexed by
its address, `threads` and `loadFactor` are `ThreadPool`'s. A condition variable
is its wait set (`idleWorkers` for `jobsCondition_`, `waiters` for the sentries'):
`notify` takes threads out of it, and a thread that is out evaluates its predicate
again. `pc[w]` is the place of worker `w` in `Thread::Run_`, `entry[w]` its local
`job`. `pool.pc` is the place of the thread in `SetLoadFactor` or the destructor.

Every critical section of `Queue::mutex_` and of `Sentry_::mutex_` is one action:

- callers: `AddJob` (`Queue::AddJob` with `Sentry_::Reset`), `Wait` and `Wake`
  (`Sentry_::Wait` up to and after it slept), `DestroyHandle` (`ReturnSentry_`);
- workers: `CheckRunning`, `RequestJob`, `Claim`, `TaskEnds`, `Signal`,
  `ReportJobDone`, the steps of `Run_`;
- tasks: `AddNested` adds a job of its own to the pool, `QueryPool` calls a getter
  that needs `ThreadPool::mutex_`;
- `SetLoadFactor`, `StopQueue`, `JoinThread`, `ResizeThreads`, `StartQueue`,
  `SpawnThread`, and `DestroyPool`, which uses the first three of these.

`handle`, `call` and `caught` are what the callers see; `status` is the only
history variable.

### CircularBuffer

`writeIndex`, `readIndex` and `elements` are the members, `pointer` is an
`AsPointer` with what was stored at its address, `last` is the last call with what
it returned. Each member function is an action. `Plus`, `Minus` and `Wrap` are the
operators of `CircularIndex`, which work modulo `N`. Nothing refers to what
`elements` holds between the write index and the read index, so that the memory
starts out as `NoValue`. `MayFill` tells callers that may ask for all the space
`GetAvailable()` promises from those that leave one place free. The latter are the
callers to whom the buffer is a FIFO.

### Client

`readBuffer_` is an instance of `CircularBuffer`, so that an action of `Client` is
an action of the buffer with what the client does around it. `call.pc` is the
place in `FillReadBuffer_` and `DrainSocket_`: between the `AsPointer`'s
constructor, `recv`, `SetWriteCount` and the destructor the peer can act, as can
the timeout. The peer and the kernel are external: a stream of numbered bytes, of
which `recv` returns any first part up to what it was asked for, 0 when the peer
has closed, and nothing at a time-out. `consumed` is a history variable.
`Read(void *, size_t)` and `Socket::Flush` take from the same stream without the
buffer.

### ClientWrite

`stream` is what `send` accepted, of which the peer has not read the last `unread`
bytes; the kernel has `Room` for so many. `call.sentCount` is the local of
`Write(const void *, size_t)`, and each turn of its loop an action: `send` takes
some bytes, has no room until the time-out (`SendBlocks`), fails (`SendFails`), or
is interrupted by a signal. A broken pipe can end the program, as nobody handles
SIGPIPE. `Write<T>` is one `send` whose answer it does not look at.

### Socket

`handle[o]` and `address[o]` are `handle_` and `connectedAddress_` of the object at
`o`, and `live` is where objects are constructed. Constructor, move constructor,
move assignment, `Close`, destructor, `Bind` and `Listen` are one action each: they
make at most one system call, and an object is used by one thread at a time.
`Accept` and `Connect` take time. `call[o].pc` is the place in them: "accept" (in
`accept()`), "wrap" (it returned `got`, and the result is not constructed yet),
"connect", "poll" and "restore" (before `RemoveFlag`). In between other objects
are made and closed.

The kernel is external: `kernel[h]` is the state of a descriptor, its O_NONBLOCK
flag, the address it is bound or connected to, and the number of clients waiting for
it to accept. A closed descriptor is given out again. A connection that was begun
ends (`ConnectionEnds`) whether or not `Connect` still waits for it. `connect`
returns 0, EINPROGRESS or any other error that the descriptor's state admits.
`tries`, `told` and `accepts` are history variables.

### The utilities

They share no state. `Utilities`, `ValueUtilities` and `CoderUtilities` declare the
constants and variables of the objects, whose theorems are proved for every value of
these constants. `part` says which of them a behaviour is about, so that their state
spaces add up instead of multiplying. Part "functions" has one step, which chooses a function and its
arguments (`input`) from the sets in `Input`.

- `Transaction`: `stack` is the vector with the function that undoes each
  operation, `capacity` the vector's. `doing` is the stack of operations under way,
  as a function that does an operation may use the transaction. `Store` moves the
  elements when the vector is full. `DoThrows` is the operation's own failure.
  `StoreThrows`, `CopyThrows` and `GrowthThrows` are memory that is missing for the
  vector and copies of functions that throw: of the new one before it is kept, and of
  an element's while the vector grows. `broken` tells that one of these lost a
  function or called it early. `PopBack` is the destructor, one element at a time. `effects` and
  `kept` are what the operations did and what was committed.
- `ScopeFlags`: one `ScopeFlag`'s plain flag, and `CountFlag`s whose `count` is
  atomic and modulo `Range_T`. A `ScopedCountFlag`'s destructor reads (`Leave`) and
  then decrements (`Decrement`). `Assign` copies a flag.
- `InsertionMap`: `map_` from positions to entries and `insertionIndex_`. The
  refinement hides the positions.
- `AveragingWindow`: the members, and `recent`, the values since the last `Reset`.
- `Buffer`: the members at each place for an object, the blocks allocated, and
  `corrupted`, set by a second `delete`. A moved-to object has any `byteCount_`.
  Sizes are `size_t`, modulo `SIZE_MAX + 1`.
- `Paths`: `files` is the directory tree, `call[c]` the call that a process is in
  with the place between two system calls. `Others` creates and removes what it
  likes. `seen` is the history that the property compares with.
- `FormatParagraph`: one action for each turn of the loop (`Break`, `AddWord`) and
  the rest (`Call`, `Finish`). Lengths are `size_t`, modulo `SIZE_MAX + 1`; when
  `Memory` lines were pushed the next one throws.
- `Huffman`: `Compress` builds the tree by the code's order on nodes and writes
  size, leaves and codes. The deque, which the code sorts after each change, is a set
  of nodes, and its first element the least (`First`); a node is the sequence of its
  leaves with the turns to them. `Open` reads them; `Expand`, `ExpandValue`, `EndExpand`
  and `Catch` are a call and its loop, with the bits read so far kept between calls.
- `TimeValue`: `steady` and `system` are the clocks, `GetNow` reads one and adds
  `monotonicOffset_`, which is zero before the static object is constructed. The
  construction reads the clocks one after the other. Conversions are operators.
  Counts of seconds and microseconds go through a double (`Counted`).
- `BinaryIo`: `written` objects as bytes in `stream`, of which `EndWriting` keeps
  any first part. `good` is the stream's state, the writer's and then the reader's;
  with a `ReadFunction` a short read throws instead. `Characters` are those that
  `WriteString` writes when it gives their number as an `int`. `Skip` moves beyond
  the end of a file, does not move in a string, and reads through a function.
- `FloatingPoint`: a number is a count of a unit that is a power of two, and the
  nearest that a mantissa of `Digits` bits has (`Nearest`, `NearestQuotient`).
- `Formatting`: a stream is its text with base, fill, width, adjustment and showbase;
  each output is filled to the width, which it resets (`Filled`).

Characters are strings of length one or small numbers, bytes and types have a few
bits, floating-point numbers are counts of sixteenths with five digits, or a NaN.

## 3. Properties and runs

Every run is a `.cfg`; `PROJECT.json` lists what each checks.

| run | instance | shows |
|---|---|---|
| `pool_safety` | 2 workers, 3 jobs, 3 sentries (2 in the pool at first), load factors below, at and above the clamps, 2 resizes, destructor | the safety invariants, for callers that wait before they drop a handle; refinement of `JobService` |
| `pool_progress` | 2 workers, 2 jobs, 3 sentries, 1 resize, fairness | refinement of `JobService` with its fairness; the sentries stay bounded |
| `pool_calls` | 2 workers, 2 jobs, tasks that call the pool or wait for a job of their own, 1 resize, destructor, fairness | jobs, waits and resizes end, unless the threads are `Stuck` for ever in one of the deadlocks that tasks can bring about |
| `pool_discard` | 2 workers, 2 jobs, handles dropped at any time, fairness | what still holds: the count of active workers, and that every waiter wakes |
| `pool_discard_wait` | the same | violation, see section 6 |
| `buffer_fifo` | 3 places, 2 values, requests of 0 to 4 | refinement of `Fifo`, pointers kept |
| `client_stream` | 3 places, objects of 1 and 2, 6 bytes, time-outs, fairness | the stream is intact, the client leaves one place of the buffer free, every read ends |
| `client_full` | 2 places, objects of 1 and 2 | violation, see section 6 |
| `socket_life` | 2 objects, 3 descriptors, 2 addresses, 1 waiting client | each open descriptor is in one object or was lost by `Accept`, once each; a `Connect` that returns tells the truth |
| `utilities` | all parts of `MCUtilities` | one property for each object (`RollsBack`, `FlagsTellScopes`, `ImplementsOrderedMap`, `WindowIsRecent`, `BlocksOwned`, `CallsTellTheTruth`, `TextFormatted`, `RoundTrip` and `Shortest`, `NeverBack`, `ReadsWhatWasWritten`, and for the writing client `WritesKept`, that what `Write(const void *, size_t)` tells is what was sent, in order and once, and `EveryWriteEnds`); for the functions `TextsKept` (nothing is lost or invented by taking texts apart or putting them together) and `NumbersKept` (a conversion tells the number or refuses, and comparisons are orders) |
| `priority`, `paragraph` | part "functions"; part "formatParagraph" | violations, see section 6 |

Bounds, and why they are enough:

- Two workers and three jobs give a worker that sleeps while another works, a job
  behind another, and a sentry that is recycled while two others are in use. The
  first allocation beyond the pool happens with the third job. In `pool_progress`
  two jobs leave a third sentry for the allocation that `SentriesBounded` says never
  happens.
- `MaxResizes` counts calls of `SetLoadFactor` that change the number of threads;
  two allow a shrink after a growth and a restart after both. A job may be added
  again under its identity when its handle is gone, so that the behaviours are
  infinite although the number of jobs at a time is bounded.
- `MaxNested` bounds the tasks that hold a job of their own. One is enough for a
  free worker to be there and, after the resize to one thread, for none.
- A buffer of three places has every relation of the two indexes: equal, adjacent
  both ways, wrapped and not. Requests of four are larger than the buffer.
- In the client six bytes are two rounds of the buffer, so that objects lie across
  its end in both ways; two sizes make a small object follow a large one.
- Writing client: two calls of 0, 1, 2 or 4 bytes, room for 3. Four bytes do not
  fit, so that a write goes on after a short `send`, and the second call finds what
  the first left of the room.
- Two sockets are a listener and what it accepts, the two sides of a move, or two
  owners of one number in turn. Three descriptors are both of theirs and one that
  `Accept` loses; when it has lost them all, the constructor of its result fails.
  Two addresses tell a `Connect` that took over the connection of an earlier one.

- Transactions: three operations make the vector grow and fill it, and one of
  them can be nested, fail, and be followed by another.
- Scope flags: three threads, two flags, counts modulo 4 and two scopes nested; two
  threads race on one count while the third leaves or copies. The build with checks.
- Insertion map: three keys, two values, positions up to 4, so that each order of
  insertion and every attempt to insert a key again occurs.
- Averaging window: three elements of {0, 1, 2, 5} modulo 8: sums fit, overflow, and
  fit again; histories longer than the window.
- Buffer: two objects and two blocks, two bytes an element, aligned to four, and a
  `size_t` of a byte: counts of 0 and 1, the largest that fits (126), one whose padding
  wraps (127) and one whose product does (129); each way to move an object to the
  other or to itself.
- Paths: two processes, one name, suffixes up to 1, one change by others. One change
  between two system calls is what falsifies a check; the suffix shows the loop.
- Paragraph: up to three words of size 0 to 3 on lines of 3 with indents 0, 1 and 4,
  the last wider than the line. Longer texts only repeat the turns.
- Huffman: every text of at most seven of four letters, in pieces of 2 and 7; bytes
  of two bits make codes longer than a byte, sizes above 6 are refused.
- Time: seconds of 30 ticks, microseconds of 6, the system clock set by up to 2. Times
  up to 90 in a mantissa of five bits: those up to a second are exact, and those behind
  it lose up to two digits, as nanoseconds do beyond 2^53.
- Binary streams: two objects out of numbers and texts, the longest longer than a
  count can tell, cut at every byte. An `int` has eight values, so that the four
  characters of the longest are lost in the cast; texts that are longer still than all
  ints, which the property excepts, are left to the theorem.
- Functions: texts of at most five characters from alphabets with each class of
  character the function distinguishes, integral types of up to four bits with
  every value, scales up to one and a half by sixteenths, and each format of a stream
  with and without a width (`Input` in `MCUtilities`). These functions decide by comparing
  neighbours, limits and signs, which such inputs meet in every combination.

`CHECK_DEADLOCK FALSE` is set where the pool may be destroyed: nothing happens
afterwards. It is also set in `socket_life`, where `Accept` can lose every
descriptor, after which no socket can be made, and in `utilities`, where a call
ends, and SIGPIPE may end the program.

Symmetry is used for jobs and sentries, and for descriptors and addresses, in runs
without liveness properties, since all are interchangeable identities.

## 4. Fairness

`FairSpec` of `ThreadPool`: the operating system runs every thread that can run,
so each step of a worker and of a thread in `SetLoadFactor` is weakly fair. A
notified waiter runs (`Wake`). A task ends after finitely many calls of its own
(strong fairness of `TaskEnds`, which is disabled while the task is inside a
call). A task waits for the job it added and drops its handle. Other callers need
not do anything: they need not wait, and jobs may be added for ever. The liveness
properties are stated up to `<>[]Stuck`, the deadlocks of tasks that call the pool
they run in; no task of `pool_progress` does, so `Stuck` is false there.

`FairSpec` of `Client`: the client's thread runs, as weak fairness of its steps
inside a call. The peer need not send or close. A time-out is one of the
client's steps: with `SetReceiveTimeOut` the kernel ends a `recv` that has nothing.

`FairSpec` of `ClientWrite`: the same. A time-out set with `SetSendTimeOut` ends a
`send` that has no room; signals and the peer may do nothing.

The other modules state no fairness. That `FormatParagraph` ends is checked as a
bound on its lines, since each turn takes a word or pushes a line.

## 5. Proofs

All theorems are for every number of workers, jobs, sentries, places, and values,
from the assumptions that the modules state about their constants.

Type correctness is proved for the pool, the buffer, the client and the socket
(`TypeCorrect`, `BufferTyped`, `ClientTyped`, `SocketTyped`); only `pool_safety` also
checks it.

`ThreadPoolProofs`: `TypeCorrect`. The type invariant contains what arithmetic
needs: that a joining thread's position is within `threads_`, and that the number
of threads is between 1 and the concurrency (the clamps of `SetLoadFactor`).

For callers that keep a handle until `Wait` is over (`~MayDiscard`): the invariants the callers see are not inductive, since they say
nothing of who else may touch a sentry. `Ownership` adds that. The pool's sentries
are distinct and nobody's; a queued job's sentry is its caller's and as `Reset`
left it; a running job's sentry is its caller's and not done; a done sentry means
that its job ended; a job is in one place only. Each step keeps it
(`StepOwnership`, by one lemma for each action that disturbs it): `AddJob` takes a
sentry out of the pool or a fresh one, `RequestJob` moves an entry from the queue to
a worker, `Signal` relates `isDone_` to the job's status, and `DestroyHandle` gives
back a sentry that no unfinished job refers to, which is where the assumption is
used. `WaitCorrect`, `NoneSkipped`, `SignalsArrive` and `SentriesSafe` follow.

Whatever callers do, `WakeupsArrive` is inductive by itself.
`ActiveCountCorrect` is a count of workers at some places of `Run_`: three lemmas on
the cardinality of that set, when it stays, gains or loses one worker, give one
step for each action. `ResizeIsQuiet` needs `Joined`, the loop invariant of
`PauseThreads_`: the workers before the position of the loop, and those beyond
`threads_`, are off.

`SentriesNeverMore` holds, whatever callers do, if the jobs that have a
handle at a time are finitely many: a sentry is allocated when the pool of them is
empty, and then all that there are have handles, so that pool and handles together
never exceed what the `Queue` allocated or the number of jobs. `PoolServesJobs`, for
callers that keep their handles, is the refinement of `JobService`: its variables are
`Pending` (the tasks in the queue), `Active`, `Result` and `Told`. Besides `Ownership`
it needs `Forgotten`, that nothing is left of a job without a handle, so that it may be
submitted anew. Each action is a step of `JobService` or a stutter: `AddJob` submits,
`RequestJob` takes, `TaskEnds` completes, the return of `Wait` tells, and
`DestroyHandle` forgets. Everything else, a resize among it, stutters.

`CircularBufferProofs`, for callers that leave a place free (`~MayFill`):
`BufferOK` (types, `PointerKept`, `Written`) is inductive, since what `AsPointer`
lends lies between the write index and the read index or the end.
`BufferIsFifo` is the refinement of `Fifo` under `queue <- Contents`: lemmas on the
indexes (`Plus` and `Minus` modulo `N`) give the size after an operation, lemmas on
`Contents` its elements, and each action maps to an action of `Fifo` or to a
stutter.

`ClientProofs`, for objects smaller than the buffer (`SmallObjects`; section 6 says
what happens to one as large): `ClientOK` adds to `StreamIntact` the buffer's own
invariant and `CallOK`, what each place of `FillReadBuffer_` and `DrainSocket_` knows:
how much is asked for and is not there yet, and where the pointer that `recv` writes
through points. Every step of the client is steps of its `CircularBuffer` that leave a
place free, so that `ClientFifo` follows from `BufferIsFifo`: what is proved of the
buffer holds of the one inside the client. `AsksForSomething` says that `recv` is not called for
zero bytes, whose answer would read as a disconnection.

`SocketProofs`: `SocketTyped`, and `HandlesAreOwned` by `HandlesOwned` together with
`CallsOwned`. The latter says that an object in a call keeps its descriptor, and
that an `Accept` has its result's place and the descriptor that `accept` returned
to itself. Without it the descriptor under way could be closed or given out. For
`ConnectTellsTheTruth` the invariant is `ConnectHistory`: what each place of
`Connect` has found out about its descriptor and done to it, and that a descriptor
on which `Connect` was never called blocks. `ConnectedAsTold` alone is not inductive, since it
says nothing of a call that has not returned. Ownership carries both proofs: a step
of one object changes no other object's descriptor (`OneChanges`). `AcceptLosesOne` counts:
the set of descriptors nobody owns stays as it is in every step but the two ends
of `Accept`, where it gains one.

`UtilityProofs`, `ValueProofs` and `HuffmanProofs`, the objects with a state. Each has an
invariant of its own, and an assumption on the constants that the run `utilities`
checks of its instance:

- `ClockNeverBack` (`SystemAhead`: the static clock is constructed when the system
  clock is past the uptime). Without it the offset could be negative, and what
  `GetNow` told before the construction be later than what it tells after.
- `BlocksAreOwned` (`BufferSizes`). `AlignedIsEnough`: rounding up to the alignment
  never yields less, while the result fits into a `size_t`. Sizes that wrap are in the
  theorem: each block still has one owner, but need not hold the elements.
- `CallsAreTrue` (`SuffixesEnd`). `CallerOK` says what a call knows between two system
  calls: that each suffix tried so far was taken at a moment since its start, and that
  `errno` came from what was there then. `Bystanders`: steps of others add to what a
  call has seen and take nothing away.
- `FlagsAreRight` (`ScopeSizes`, and `~NDEBUG`). The count is the number of open scopes,
  a cardinality, so that a thread between its check and its decrement keeps the count
  above zero, as its scope is still open. That there are fewer scopes than `T` counts is
  a guard of `Enter`. Release builds leave out `ScopeFlag`'s check, and a `ScopeFlag`
  within another clears the flag of the outer: they are not part of the theorem.
- `UndoneInOrder` (`NothingElse`: a committed entry is none that undoes something). The
  stack is a part of entries that undo nothing, committed or moved from, below a part
  that is, element by element, what is in effect beyond what was kept, as long as no
  function was lost or called early (`broken`). Beyond that what is left on the stack
  is in effect and no function is there twice.
- `SentInOrder` (`WriteSizes`). `InProgress` ties the running call's `sentCount` to the
  last bytes of the stream and to the number of bytes it has there. `StreamGrows` is the
  one lemma on what a `send` of some bytes does to all of that.
- `MapIsOrdered` (`DefaultIsValue`). Positions only grow and ranks have no gaps, so that
  a new entry is the last of `Entries` and the others keep their ranks
  (`StoredAtTheEnd`), and an assignment changes one entry in its place
  (`AssignedInPlace`). That makes each call one of `OrderedMap`.
- `WindowAlwaysRecent` (`WindowSizes`). The ring from `index_` around is `recent`, and
  `sum_` is the total of `recent` modulo the range of `T`. The lemmas on `Total` relate
  the fold to a function of partial sums, from which follows that a total changes by the
  value that comes less the one that goes.
- `ParagraphKeepsText` (`TextSizes`: the text is in memory, with a byte behind each word,
  and there is memory for a line for each word and one more). `FillingOK` relates the
  running total to the words of the line, and keeps the sums of `size_t` from wrapping,
  as each word has its share of `SIZE_MAX`. While every word fits into a line,
  `ParagraphOK` has no more lines than words on them, which is what bounds the memory.
- `StreamReadsBack` (`StreamSizes`). The reader's place is where as many objects end as
  it has read (`Ends`), while all of them were whole, so that what it takes are the bytes
  of the next object; behind the end of the stream every read throws or leaves an
  `istream` that is not good. A string that loses its characters makes the writer's
  `ostream` bad, which takes nothing more: it is the last one there is, cut off. A
  string with more characters than there are ints may pass for a short one
  (`SomeWraps`): behind one the property says nothing. `CountTells`: the bytes of a count, digits to the base
  `Range_uint8`, give the count back.
- `EveryTextExpands` (`HuffmanSizes`: characters are numbers of a byte, and a text has
  fewer different ones than a byte counts, as the number of leaves is written as a
  byte). In each node of the forest no code is a part of another: of two leaves the
  turns differ at a place that both have (`Apart`, `CodesOK`), and no leaf is deeper
  than there are leaves, so that a code's length fits into a byte too. Merging keeps
  that (`MergedOK`), and as the order on nodes has a least one (`FirstOf`), the tree has
  the letters of the text and no others (`TreeOK`). What is written is put together
  piece by piece, and each piece is found at its place (`JoinsPlaced`): the reader that
  has read `n` nodes stands where the next begins (`ReadsOn`), and the Expander that has
  expanded `n` characters stands where the code of the next begins (`Reading`). Only that
  code then leads to a leaf (`NextLetter`). `HuffmanOK` adds to this that what is left of
  a call and what was expanded make what was asked for.

The functions without a state are proved for every argument, not for those that TLC
takes:

- `ConvertibleIsRight`: whatever the widths and signs of two types, the round trip and
  the comparison of signs find exactly the values the target does not have. A cast
  changes a value by a multiple of the type's size (`CastWraps`), and two values that
  both types hold apart from that cannot differ by one (`FarApart`).
- `RoundedOrRefused` (`FloatingTypes`): the product is rounded to the mantissa, which
  loses at most half of its last digit (`LastDigitIs`, `NearProduct`), and then to an
  integer. The bound that is compared with is exact while the mantissa is as long as the
  target (`TypeIsShort`, `MantissaHas`).
- `TimesAreKept` (`TimeUnits`: a second is a whole number of microseconds). A time before
  1970 is the negative of one after it (`TimeConverted`), as division cuts towards zero.
  It is about the exact conversions; of the counts that go through a double TLC checks
  `KeepsCounts`.
- `FormatterKeepsText`: the second `vsnprintf` has room for all, and the first has for
  `FastFormatter` when there is room for the null character.
- `NumbersArrive`, for a memory of values of one size: after `i` steps of the loop the
  first `i` values were turned and the rest of the memory is as it was (`SwapsRange`),
  and a value that is turned twice is itself.
- `JoinRestoresSplit`, in `SequenceProofs`: what `Split` makes from a place on, joined, is
  the text from there (`Pieces`), from the last place backwards. `FirstToken` says what
  is before, at and behind the first token.

Folds and cardinalities call for induction, which the prover does not do over an
operator. The lemmas do it by the least counterexample: `LeastElement` (each non-empty
set of naturals has one, from the well-foundedness of `<`) is applied to the set of
places where the claim fails. A recursive function is defined by what it must be, so that
its existence is a lemma of its own: of a function of the naturals up to `N` (`Recursion`),
of `Power` (`PowersExist`), of `Split` (`SplitsExist`) and of the folds (`TotalIsSum`,
`FlattenJoins`, `JoinStrings`).

Only model-checked: all liveness (`ImplementsFairJobService`, `EveryJobEnds`,
`EveryWaitEnds`, `EveryResizeEnds`, `EveryReadEnds`, `EveryWriteEnds`), which is beyond
the proof system; what callers see that drop handles (`pool_discard`), but for the
theorems above that hold whatever callers do; and of the run `utilities` the
property `Shortest`, which compares sums over all codes of all lengths, and of the
functions (`TextsKept`, `NumbersKept`, `KeepsCounts` among them) all but `JoinRestores`, `FormatsText`, `FindsOverflow`,
`RoundsOrThrows`, `KeepsTime` and `NumbersTravel`, which the theorems above are about.

## 6. Where code and comments or tests disagree

- `pool_discard_wait`: a `Sentry` destroyed or overwritten
  before its job is done returns its `Sentry_` to the pool while the job refers to
  it (`thread_pool.h:193-201`). The next `AddJob` gives it to another job. One of
  the two is then dropped without having run, and `Wait` can return before the
  caller's task ran or rethrow the other task's exception. The comment at
  `thread_pool.cpp:114` says of the failed claim that someone else claimed this
  job, and the tests take `Wait` to mean that the job is done.
- `client_full`: `Read<T>` accepts an object as large as the buffer
  (`client.h:43-45`); the buffer cannot hold it, its bytes are lost, and the
  client waits for them again. The cause is in the buffer: the comment at
  `circular_buffer.h:177-180` says that the count is less than the free space, the
  check admits a count that equals it, and the buffer then looks empty.
- `priority`: `thread_priority.h:27-28` says that negative offsets lower the
  priority. `thread_priority.cpp:41` subtracts the offset from the highest
  priority, and the system refuses the result.
- `paragraph`: `format_paragraph.h:4` says of every string that it is converted to
  lines that fit. A word longer than the line makes the loop push empty lines until
  memory runs out (`format_paragraph.cpp:83-91`).

Two more contradict a comment. No run shows them as a violation; the models have
them, and the comments of the properties except them:

- `transaction.h:4-5` says that an undo function is stored "to roll back any operations
  in the event of failure". `std::function`s are copied throughout, by the move
  constructor too: when the copy at line 31 throws, what
  `doOperation` just did stays in effect with nothing to undo it, and when the copying
  constructor at 36-42 throws while the vector grows, the elements copied so far are
  destroyed and undone although the transaction lives (`CopyThrows`, `GrowthThrows`).
- `formatter.h:13` says of `FastFormatter` "Skips runtime checks. May segfault", and
  117-118 "No checks are done on the length of the formatted string"; debug builds
  check the length and throw (154-164), and `vsnprintf` never writes beyond the room.
  The check lets a text of exactly `charCount` characters pass, which then loses its
  last one to the null character (`FastFormatter`).

Some behaviours contradict no line of the repository but are odd enough that the
properties have to except them, where their comments say so:

- `Buffer`'s size wraps `size_t` for a count that is too large (`buffer.h:47-52`): the
  block is too small for `elementCount_` elements.
- `GetAsMicroseconds` and `GetAsSeconds` divide a double (`time_value.h:117, 142`). From
  2^53 nanoseconds on, a hundred and four days after 1970, they can differ by one from
  the `timeval` of the same time.
- `MultiplyRounded` rounds to the mantissa and then to an integer: 0.7 * 5 in double is
  3.5 and yields 4, although the double 0.7 is less than seven tenths. A NaN passes the check for
  overflow and its cast is undefined (`overflow.h:49`, `multiply_rounded.h:48`).
- `WriteString` gives the number of characters as an `int` (`binary_io_impl.h:206-208`):
  of 2^31 or more it writes the count and no characters and leaves the stream bad, and
  of 2^32 or more, with a wider count, the characters beyond are lost.
- `FastFormatter` returns a message as if it were the text when `vsnprintf` fails
  (`formatter.h:147-150`).
- `Trim`'s default set lacks the form feed and the vertical tab, at which
  `SplitOnWhiteSpace` splits (`strings.h:70`, `strings_impl.h:31`).
- `hex_formatter.h` sets base and fill of its stream and resets them, but what else a
  caller set takes part: a pending width fills the first output, `std::showbase` puts
  0x before each byte but zero, and a left-aligned stream pads a byte of one digit on the
  right, so that it reads as another byte. `HexReadsBack` says for which formats what can
  still be read.
- `Write<T>` does not look at what `send` accepted (`client.h:37`).
- `MakeUniqueSystemName` makes names of the root directory relative
  (`path.cpp:177-180`).
- A Huffman tree of 256 symbols wraps the byte that counts them (`huffman.h:237`),
  and compressing the empty text reads an empty queue.
- A time within half a microsecond of the next second becomes a `timeval` of
  1000000 microseconds (`time_value.cpp:169`).
- `HostIsBigEndian` compares with 0x1000 and is never true (`endian_tools.h:91`).
- `ToInteger` to `long long` passes a saturated value; release builds take some
  negative texts for unsigned numbers.
- `CheckConvertible` from a floating-point type with a mantissa shorter than the
  target accepts one value too many (`overflow.h:37`).
- `NumericStringCompare` throws for a run of digits that is no `int`.
- `Buffer`'s move constructor leaves `byteCount_` unwritten.
- `binary_io`'s message says "limited to 256" where the limit is 255.

## 7. What is not modelled

`PROJECT.json` gives the reason for each component. Of the modelled ones these
parts are left out: in the pool, `GetThreadPool`'s unlocked creation and a call of
`SetLoadFactor` by a task, which makes a thread join itself; in the buffer, the
printing of raw memory (`PrintContents`), and of `CircularIndex` what the buffer
does not use (a wrap count chosen at run time, decrement); of the socket, the options,
`WaitForConnection`, which only asks, and of `address.h` what the operating system
converts. `fcntl`, `close`, `listen` and `bind`
that fail leave everything as it was and are not actions.

Of the utilities: `MakeDirectories`, which is `std::filesystem`'s, and all
branches for Windows; the parsing and layout of dates (`Iso8601`'s rounding is
modelled); `CleanUp`, which calls a function in its destructor; signed or
floating-point windows, whose overflow is undefined or does not wrap, and the
rounding of `IntegerWindow`; `ToInteger` to bases other than ten, `to_float.h` and
`precise_string.h`, which are the C++ library's conversions; colours, `to_stream.h`,
`static_join.h`, `auto_format.h` and `describe_type.h`, which are layout and
compile-time computation; `span.h` and `id_bytes.h`, thin views of memory. Of the
pool, `GetPressure` and the getters of counts only read.

Not modelled at all: `property.h`, the template utilities (types only), logging,
time checks and test helpers (output), and the programs under `examples/`, which
call what is modelled.

What callers are taken to respect, without the code asking for it: they use
`Read(void *, size_t)` and `Flush` only when nothing is left in `readBuffer_`
(`StartRead`, `StartFlush` of `Client`; the code then reorders bytes), and assign to a
`CountFlag` only while no scope refers to it (`Assign` of `ScopeFlags`; the code then
resets the count under them, and the scopes' ends throw). Binary streams can be
sought: `Skip` on one that cannot only sets its state.

Abstractions: a task is its outcome, an exception is the job that threw it, a load
factor is an integer number of `LoadScale`-ths, a byte is its place in the stream.
An error of `recv` other than a time-out leaves the client as a time-out does.

## 8. Plan

What would come next, in this order:

1. `SplitsWords` and `SplitRestores`, along the lines of `JoinRestoresSplit`.
2. `OrdersNumerically`, from an order on the runs of digits and of others.
3. `Shortest`, by exchanging the two rarest letters with two at the deepest place.

