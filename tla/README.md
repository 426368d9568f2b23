# A TLA+ model of RaftLib's streams and of the runtime around them

RaftLib runs a graph of *kernels*, each on a thread of its own, connected by typed *streams* (FIFOs).
The streams take no lock: a producer and a consumer share a ring buffer, and a third thread may replace
that buffer by a larger one while both use it.  This directory holds TLA+ modules of that machinery, the
TLC configurations that check them, and TLAPS proofs about them.  One group of modules is about a stream: with one buffer, with a buffer that is
replaced, and in a graph of kernels that run to their end.  The other follows an application from the operators that write its graph to the end of `exe()`.

Paths below are relative to the repository, so `raftinc/fifo.hpp` is `src/raftinc/fifo.hpp`.

## 1. The system

### Parts, state, operations

| part | state it keeps | operations |
|---|---|---|
| ports and kernels (`raftinc/port.hpp`, `kernel.hpp`) | for each side of a kernel its ports by name: type, the port at the other end, the size asked for, the stream; the ports enabled by `[]` | `addPort`, `addInPlacePorts`, `getPortInfo`, `getPortInfoFor`, `operator[]`, `clone` |
| pairs (`src/kpair.cpp`) | a chain of pairs per expression, with marks for split and join | `>>`, `<=`, `>=` |
| pointer (`src/pointer.cpp`) | index and wrap count of one end of a queue | `inc`, `incBy` (two stores each), `val`, `wrapIndicator` |
| ring buffer on the heap (`raftinc/ringbufferheap*.tcc`) | two pointers, array of items, array of signals, `is_valid`, `allocate_called`, `n_allocated` | `push`, `insert`, `allocate`, `allocate_range`, `send`, `send_range`, `deallocate`; `pop`, `pop_range`, `peek`, `peek_range`, `unpeek`, `recycle`; `size`, `space_avail`, `invalidate`, `is_invalid` |
| data manager (`raftinc/datamanager.tcc`, `bufferdata.tcc`) | the current buffer, the flags of the two kernels, `checking_size`, `resizing` | `enterBuffer`, `exitBuffer`, `notResizing`, `resize`, `copyFrom`, `set` |
| allocators (`src/dynalloc.cpp`, `stdalloc.cpp`) | for each stream a count of how often it was found full | make the first buffers; every 3 ms look at each stream and double one that was nearly full often enough |
| schedulers (`src/schedule.cpp`, `simpleschedule.cpp`, `poolschedule.cpp`) | for each kernel a thread, `finished`, `term`; the pointers each kernel received and sent | `kernelRun`, `invalidateOutputPorts`, `fifo_gc`, `start`, `handleSchedule`, `scheduleKernel` |
| map (`raftinc/map.hpp`, `src/map.cpp`, `mapbase.cpp`) | the graph, the sets of source, destination, all and own kernels, the flags `exit_alloc` and `exit_para` | `link`, `+=` (continue, split, join, join of copies), `exe` |
| parallelism monitor (`src/basicparallel.cpp`) | the list of kernels that may be duplicated | looks for such kernels while the application runs |
| graph tools (`src/graphtools.cpp`) | queue and kernels seen of a traversal | breadth-first traversals that lock the ports they cross |
| partitioning (`src/partition_*.cpp`), dot output (`src/makedot.cpp`) | the core of each kernel; a file | once each, at the beginning of `exe` |
| kernels of the library, statistics, shared memory | | see `PROJECT.json` |

### How the parts interact

* An expression such as `g <= s >> print` builds pairs; `map +=` walks along them, links a port to a port, and clones
  kernels where a split or a join needs more of them.  Any of these calls may throw, and the application may catch
  that and go on with the graph as it then is.
* A kernel calls the operations of its input and output FIFOs from its own thread.  Each call looks the
  current buffer up in the data manager, between an `enterBuffer` and an `exitBuffer`.
* The allocator's thread calls `resize` on a FIFO from outside.  It sets `resizing`, looks at the flags
  of both kernels and at the counter of `size()`, and goes back if anyone is inside or if the items do
  not lie in one piece behind the read pointer (`rpt < wpt`).
* The scheduler calls `run()` of a kernel while its inputs hold data, `invalidate` on its outputs when it
  stops or when its inputs are closed and drained.  The end of a stream therefore travels through the
  graph from the sources.
* `map::exe` starts the allocator, the scheduler and the parallelism monitor in that order, and joins the
  scheduler, the allocator and the monitor, telling the last two to stop by a flag.  The allocator and the monitor share
  the lock of the set of source kernels, from which both traverse the graph.

### What is hard here

Everything below is listed with its line in `PROJECT.json` under `hazards`.

* `size()` reads four shared fields one after the other while the other thread changes them, and
  `Pointer::inc` publishes an item by two stores, index and wrap count.  In between, a full queue looks
  empty to the consumer and an empty one looks full to the producer.
* References handed out by `allocate_range` and `peek_range` stay in use while the other side goes round.
* The consumer finds the queue empty, and then finds it closed, in two loads.
* A resize may begin and end between any two steps of a call; `invalidate`, the statistics and the load of
  `thread_access` are not covered by the flags.
* Waiting is by spinning; a request that can never be met spins for ever.
* A kernel that stops early, the order of `exe`'s joins, and the lock that the monitors share.
* An addition that throws half way leaves a part of its streams and copies behind; what `+=` returns, and which kernels the
  map deletes, has to fit the graph that is there.
* Splits, joins and chains can be nested in one expression, and the pairs that describe it are changed while they are walked.

## 2. The modules

| module | models | lines of code |
|---|---|---|
| `Pointer` | `Pointer`: the record of index and wrap count, the two halves of `inc`/`incBy`, the two constructors | `src/pointer.cpp`, `raftinc/pointer.hpp` |
| `FifoChannel` | what the interface promises: a bounded queue that can be closed.  Abstract: one action per *effect*.  `ResizableSpec` is one whose buffer may be replaced (`Replace`) | `raftinc/fifo.hpp` |
| `RingBufferHeap` | one stream with a buffer that is not replaced, plain item types | `raftinc/ringbufferheap.tcc` 32–473, `ringbufferheap_abstract.tcc`, `ringbufferheap_lessabstract.tcc` |
| `RingBufferHeap_proofs` | the inductive invariant of `RingBufferHeap`, the theorems, and that it implements `FifoChannel` | – |
| `ItemNumbers` | lemmas on the contents of a stream as item numbers, for both refinements | – |
| `DataManager` | one stream whose buffer the allocator replaces | `raftinc/datamanager.tcc`, `bufferdata.tcc`, `database.tcc`, `fifoabstract.tcc` |
| `DataManager_proofs` | types and exclusion of `DataManager` | – |
| `DataManager_stream` | the stream that `DataManager` keeps, in order, and that it implements `FifoChannel` | – |
| `Schedule` | a graph of kernels run to its end by either scheduler | `src/schedule.cpp`, `simpleschedule.cpp`, `poolschedule.cpp` |
| `MCSchedule` | the graph that TLC checks: a source that feeds two ports of a sink, one directly and one through a third kernel | – |
| `Schedule_proofs` | the inductive invariant of `Schedule` and the theorems, for every graph | – |
| `Port` | ports and kernels as values, adding and finding ports, cloning | `raftinc/port.hpp`, `port_info.hpp`, `kernel.hpp`, `src/kernel.cpp` |
| `KPair` | the operators `>>`, `<=`, `>=` and `[]`, and the chains of pairs they build | `src/kpair.cpp`, `raftinc/kpair.hpp` |
| `MapBase` | `link` and `join` of two ports, the sets of kernels, `clone` | `raftinc/mapbase.hpp`, `src/mapbase.cpp` |
| `Map` | `operator +=` and the four ways to go on along a chain; an application's `main()` | `src/map.cpp`, `raftinc/map.hpp` |
| `Map_proofs` | what every operation keeps of the graph, for every application | – |
| `GraphTools` | the two breadth-first traversals, one output port per step | `src/graphtools.cpp` |
| `MapExe` | `exe()` and its threads; extends `Map` and `GraphTools` | `raftinc/map.hpp`, `src/allocate.cpp`, `dynalloc.cpp`, `stdalloc.cpp`, `simpleschedule.cpp`, `basicparallel.cpp`, `makedot.cpp`, `partition_*.cpp` |
| `MapExe_proofs` | the inductive invariant of the threads of `exe()`, for every graph | – |
| `MapExe_streams` | the inductive invariant of the graph and its streams during `exe()`, and the theorems about both | – |
| `Applications` | the applications of the test suite and the examples, as data for `Map` | `testsuite/*.cpp`, `examples/` |
| `MCMapExe` | the applications that TLC runs and the template arguments of their `exe()` | – |

Operators marked as a mutant are wrong versions of the definition that follows them.
They are not part of any specification; they exist to show that the properties can fail.

### RingBufferHeap

State: `write_pt`, `read_pt`, `store`, `signal`, `is_valid` are the fields of `Buffer::Data`;
`allocate_called` and `n_allocated` those of the producer's data.  `pc`, `op`, `n`, `left`, `ret`, `sz`
are the control state and the locals of the two threads.  `sent`, `taken`, `got`, `error` are history:
how much has been published and removed, what the consumer last read, and how it ended.

Grain: each load and store of a field that the *other* thread also uses is one step.  `size()` is the
four actions `ReadWrapWrite`, `ReadWrapRead`, `ReadWpt`, `ReadRpt`, the last of which also returns or
jumps back to `TOP`.  `inc` is `IncWrite` and `IncWriteWrap` (`IncRead`, `IncReadWrap`).  A push is
`Produce`, `size()`, `PushStore`, `PushSignal`, the increment; `insert` repeats that `left` times.
`allocate`/`allocate_range` end in the state `"held"`, where the kernel owns references; `Fill` is the
kernel's write through them; `Send`, `SendRange` and `Deallocate` end the call.  On the other side
`LocalPop`, `LocalRecycle`, `LocalPeek`, then `LookAt` (a read through a reference), `Unpeek`,
`RecyclePeeked`.  A consumer that sees too few items goes through `TooFew`, `ReadIsValid`, a second
`size()`, and then `ThrowClosed`, `RecycleReturns`, `ThrowNoMoreData` or back to the loop; `peek_range` loads the flag anew
before each of its two exceptions.

Data: item *k* is the number *k*, and the signal sent with it is *k* too, 0 standing for `raft::none` or
an untouched slot.  That is enough to tell lost, repeated, reordered and overwritten items apart.

Memory: the model is sequentially consistent.  The fields of `Pointer` are plain integers in the code,
so its accesses are data races in C++; what is shown here holds for a compiler and a processor that keep the
order of these loads and stores as x86 does for loads among themselves and stores among themselves.

### DataManager

State: `heap` holds the buffers, numbered in the order of their creation, each with its `max_cap` (a resize makes one of twice the
capacity) and with the flags inside as in `Buffer::Data::thread_access`.  The arrays of every buffer are written out to the bound `MaxCap`; no
slot beyond a buffer's own capacity is used.  `buffer`,
`thread_access`, `resizing`, `checking_size` are the data manager's fields.  `ta` is the pointer
that `set_helper` received, `bp` the buffer that a held reference points into; a local that is not looked at again is reset, which keeps the state space small.

Grain: what happens *inside* the buffer is one step per call, since `RingBufferHeap` already
interleaves it; what is refined is everything that the resizer races with: the load of `thread_access`,
the store of the flag, the look at `resizing`, both changes of the counter, each of the resizer's looks,
the copy, the two stores of `set`, and the deletion.  A store into a deleted buffer has no effect in the model
(in C++ it is undefined); `NoOutstandingReference` says that it happens.

Callers: the two kernels, and the scheduler, which asks for the size of an input (`kernelHasInputData`) and whether it is closed
(`kernelHasNoInputPorts`) from outside any call of the kernel.  The scheduler looks at the inputs of a kernel on the kernel's own thread, so these are calls of thread `C`
made while it is in no other call: `size()` (`Call` with `"size"`) counts itself in and out without a flag, and `is_invalid()` (`IsInvalid`) neither
counts itself nor sets one.

Refinement: the stream of `FifoChannel` is read off the *current* buffer, its items, its capacity and its `is_valid`.  The first store of `set` is then the step `Replace`: the items stay, the
capacity grows, and a stream that had been closed may be open again, since `invalidate()` may have stored into the old buffer after the copy was made (violation 5 below).
Signals are not part of the channel; what a resize does to them is violation 4.

Here sequential consistency matters: the protocol is a store followed by a load on both sides (flag,
then `resizing`; `resizing`, then flags), which a processor with store buffers may reorder unless there is a
fence, and there is none on either side.  `resize_safety` is about the order of steps as written, not
about what such a processor makes of it.

### Schedule

State: for each stream the number of its items and `is_valid`; for each kernel where its thread is (`pc`, the
`port` that a loop has come to, whether this is the second call of `kernelHasInputData`) and `finished`; for the
scheduler's thread where `start()` is, the element of `thread_map` it has come to, `keep_going` and `term`.  The kind of
scheduler and `any_port`/`all_port` of each kernel are chosen in `Init` and never change.

Grain: each look at one port is a step (`KernelHasInputData`, `KernelHasNoInputPorts`), and so is each port closed
(`InvalidateOutputPorts`) and each thread that `start()` looks at (`ScanSimple`, `ScanPool`) or joins (`Join`).  `Decide` says where
`kernelRun` goes on: after the first look to `run()` or to the look for closed ports, after the second to
closing the outputs or back to the loop.  A kernel whose `run()` returned `raft::stop` closes its outputs, is finished, and *still*
goes through the second half of `kernelRun`, as in the code.

Data: a stream is a count, and its calls are one step each, since `RingBufferHeap` is about what they do.  One thing
of `RingBufferHeap` matters here and is kept: between the two stores of `Pointer::inc` (label `"publish"`) a full stream
may look empty to its reader (`Sizes`).  What `run()` does is user code, marked external: it takes an item from each input (`all_port`)
or from one that has some (`any_port`), sends one to each output in turn, and returns `raft::stop` at the call that
`StopAfter` gives, or never.

### Port, KPair, MapBase, Map

State: `graph` is the heap as the code of the map sees it: `kernels` (a kernel is known by its place, which stands for its
address), `pairs` (the `kpair`s of the expression being evaluated), `keeper` (`source_kernels`, `dst_kernels`, `all_kernels` and
`internally_created_kernels`), `kernel_count` (the static counter behind the ids) and `thrown`, the exception in flight.  `prog` is the
application, chosen in `Init`; `pc`, `stmt` and `step` are where its `main()` is; `add` holds the locals of `operator +=` and `ret` the
`kernel_pair_t` of the last one.

Grain: building a graph is sequential, so what may throw is a step of its own: an operator of an expression (`EvalOperator`), a direct `link` (`LinkDirectly`), and
in `operator +=` each turn of its innermost loops.  Between `AddBegin` and `AddEnd` the loops over groups, over the kernels of a group and over the ports of a
kernel take a step per turn, and `add.group`, `add.kernel` and `add.port` say where they are: `ContGroup`, `ContKernel` for `inline_cont`; `SplitKernel`,
`SplitPort` for `inline_split`; `JoinGroup`, `JoinPort` for `inline_join` and its `joinfunc`; `DupJoinBegin`, `DupJoinPort` for `inline_dup_join`; the actions `...Done` end
a loop, and `AddCont`, `AddSplit`, `AddJoin`, `AddDupJoin` the turn of the outer one along the pairs.  The
helpers take the world and return the world that the call leaves behind, *also* when it throws: `updateKernels` comes before the ports
are looked up, for example, so a failed `link` has added its kernels to the map.  `Catch` goes on after the
statement, `Terminate` does not; a program that catches and one that does not are both covered.  `OutOfBounds` stands for the read beyond
the end of a group in `joinfunc`, which is undefined in C++, so nothing but `Terminate` follows it.

Data: port names are strings, as in the default build (`STRING_NAMES`), and the ports of a kernel are in the order of their names; a type is a name.
A kernel says whether its class implements `clone`, whether `make` built it, and whether its `run()` may return `raft::stop`.

### GraphTools and MapExe

State: `fifos` are the streams that were made (capacity, whether over an existing array), `closed` those whose current buffer is invalid and `deleted` those that are gone, `lock` the lock of the set of source kernels,
`walk` the traversal that each thread is in, `mem` the allocator's thread with its counters `size_map`, `sched`, `thread` and `loc`
`simple_schedule` and the threads of the kernels, `para` the parallelism monitor, `exit` the two flags, and `dot` the edges written to the file.
`pc` goes on as the place of `main()` inside `exe`.

Grain: each thread's step is one output port of a traversal, one thread started or joined, one acquisition or release of the lock, one look at a flag.  A kernel stays at
the front of the queue until its last port is through (`Leave`), while the code holds the lock of its ports.  `StartThread` and `StoreLoc` are apart, since the thread of a
kernel runs before the core it is to be pinned to has been stored.  What happens in a kernel's turn and in a stream are `Schedule` and
`RingBufferHeap`/`DataManager`.  A kernel here is started, running, finished and ended.  `Stop` is its last turn: `run()` returned `raft::stop`, or every stream that it reads
says that it is closed (`closed`); it closes the streams that it writes.  `Block` is a kernel that waits for ever in a `push`: the kernel at the other end may leave the stream unread for good, having
finished, waiting for ever itself, or waiting for more from another of its streams that is closed.  Whether the monitor finds a stream blocked is a choice; its counters, their collision when two streams
share a key (`collide`), the threshold and the doubling are the code's.  A resize is three steps, between which the kernels go on: `MonitorVisit` begins it, `CopyFrom` copies the buffer with its
`is_valid` (or `ResizeEnds` gives up, since the stream is closed or the application is over), and `SetBuffer` puts the copy in its place.  A close between the last two is lost, as in `DataManager`, and the reader does not finish.

An exception on a thread other than `main()`'s ends the process (`"terminated"`), as does a kernel whose stream was never made; `DotEnd` may end it on purpose (`GEN_DOT_EXIT`).

## 3. What is checked

`tlc -config <cfg> <module>`.  A passing run checks everything named; a run marked *violation* shows that
the code does not do what one of its own comments says, and TLC prints the behaviour.

| run | cfg | question | bounds |
|---|---|---|---|
| `ring_safety` | `RingBufferHeap.cfg` | are `Capacity`, `SizeIsConservative`, `SlotExclusion`, `InOrder`, `NothingLeftBehind` invariant, and is the buffer a FIFO channel (`ImplementsChannel`)? | 2 slots, ranges up to 2, 5 items, all calls |
| `ring_liveness` | `RingBufferHeap_live.cfg` | does every item sent get taken, does every waiting producer get its space, is the close noticed? | 2 slots, ranges up to 2, 4 items, consumer pops |
| `allocate_range_returns` | `RingBufferHeap_range.cfg` | *violation*: does `allocate_range` return when it asks for more than the capacity? | 2 slots, a range of 3 |
| `resize_safety` | `DataManager.cfg` | does the flag protocol exclude (`ResizeExcludes`), do held references stay current, does the consumer read in order, and are the items of the stream unchanged by a resize, wherever the pointers are (`InOrder`, `ImplementsChannel`)? | 3 slots, one resize to 6, up to 4 items, ranges of 2 and 3, calls that pass and calls that keep references on both sides, and the scheduler's `size()` and `is_invalid()` |
| `resize_references` | `DataManager_refs.cfg` | *violation*: has nobody a reference to the old buffer when it is deleted? | 4 slots, one resize, 3 items |
| `resize_statistics` | `DataManager_stats.cfg` | *violation*: are the statistics still valid after a resize? | same |
| `resize_signals` | `DataManager_signals.cfg` | *violation*: does a signal arrive with its item across a resize? | same, items of 4 bytes and signals of 16 |
| `resize_close` | `DataManager_close.cfg` | *violation*: is a close that falls into a resize noticed? | same |
| `schedule_ends` | `MCSchedule.cfg` | is `run()` called on data that are there (`PromisedDataIsThere`), does a kernel that finishes miss nothing (`NothingMissed`), does `simple_schedule` join everyone, do closed streams only drain, does the application end (`ApplicationEnds`)? | 3 kernels, 3 streams of 2, the source stops at its third call; both schedulers, every choice of `any_port`/`all_port` |
| `pool_outlives` | `MCSchedule_pool.cfg` | *violation*: are all kernels done with their streams when `pool_schedule::start()` returns? | streams of 1; the kernel in the middle stops by itself |
| `application` | `MCMapExe.cfg` | building: do the ends of a stream name each other after every success and every exception (`EdgesAreMutual`), is a connected port never reconnected (`EdgesAreStable`), does the map delete just the kernels made for it (`MapOwnsItsKernels`), does `+=` return the kernels it ends at and the sizes that the tests demand (`AddReturnsTheEnds`, `ReturnedSizes`)?  running: does `exe` start with a connected graph (`ExeStartsConnected`), does the dot file show each stream that a source reaches, once (`DotShowsTheGraph`), has each edge that a source reaches a live stream that just its two ends hold when kernels are scheduled, and has no other edge one (`StreamsReady`), does a stream keep the size its port held when it was made (`StreamSizes`), is no stream freed under a user (`StreamsOutliveTheirUsers`), nor before all threads are over (`FreedAtRest`), does `exe` return, unless a kernel waits for ever at a stream that is not read any more or a resize has lost a close (`ExeReturns`)? | 33 applications of up to 7 kernels with the copies; 2 ports where the tests split into more; 2 cores; streams of 64, doubled once |
| `written_streams` | `MCMapExe_written.cfg` | *violation*: is every kernel and stream that an addition writes in the graph? | the 16 programs of the test suite that build their graph without an error |

**Why the bounds suffice.**  With two slots the queue is full, empty and in between; five items go round the ring
more than twice, so both wrap counts move and every case of `size()` (equal indices with equal, greater
and, for a moment, smaller wrap counts; read index before and after the write index) occurs, as do
ranges that cross the end of the array.  What TLC shows here for two slots the proofs show for every number.
For the resizer, one resize is enough to race with every step of both kernels (what a second one adds is said in section 4).  With two slots a resize could only
happen with one item in the first slot, so `resize_safety` has three, where the items of a resize
may start at a later slot and the writer may have gone round before.  Every call of `RingBufferHeap` enters and leaves the buffer in one of the ways of
`push`, `allocate_range`, `pop`, `peek` and `recycle`, which are the calls of that run, with the two of the scheduler.  A range of two can be held beside an item, so that the buffer could be
replaced under it; a range of three after a push makes the producer wait, go round and fill the queue at once.  `MaxSent` only bounds the history counters.  The graph of `MCSchedule` has a kernel with two inputs, one with two outputs and two paths of different lengths
between them, so the ports of one look change at different times; three items through streams of two make a stream full, empty and blocked.

The 33 applications of `MCMapExe` are 21 of the test suite and the examples (tests that build the same graph are given once), and twelve for corners that no test reaches:
two producers for one port, a split to a kernel that cannot be copied, joins wider and narrower than their split, a split of a split, too many brackets, a cycle, a graph
without a source, a cycle beside a source, a map run twice, a stream linked again after it was run, a fixed size beside one that grows.  Splits and joins are over two ports, which gives one original and one copy; the nested split has
copies of copies.  `Dynallocate`, `ForEach` and `FixedChain` run with `dynalloc` and `basic_parallel`, the defaults of `exe`, with one or two streams, so that growing, an external array and a fixed size
each meet the monitor; `Chain` and `ExeTwice` have the second thread at the lock but no growth; the others run with `stdalloc`, since what differs between them is the graph.  One doubling
(`MaxCapacity`) takes the counter through its threshold and back to zero.

Deadlock is not checked in any run: a closed stream whose consumer has been told is the intended end of the stream, and a scheduler that has returned that of a graph.

**Fairness.**  The liveness runs assume weak fairness of each thread as a whole.  Under `simple_schedule`
each kernel has an operating-system thread, the waits are loops that yield, and no lock is held; nothing
stronger (for instance of one of two enabled actions of a thread) is assumed.  In `ring_liveness` the
consumer only pops: with two kernels that both wait for ranges, the sum of the ranges can exceed what
the queue can ever offer, and both wait for ever (a hazard in `PROJECT.json`).  In `schedule_ends` each kernel's thread and the scheduler's are weakly fair; for
`pool_schedule`, where kernels share threads, this relies on `raft::yield` and `qthread_yield` in every waiting loop.  In `application` each of the threads of `exe` is weakly fair; kernels have finitely many steps there, so one condition serves them all.  The
two acquisitions of the lock are strongly fair: `acquire` is a loop of try and yield, and the thread that releases the lock sleeps (3 ms, 100 µs) before it asks
again.  Of the allocator's thread only the copy of a resize is left out of its fairness: `resize()` spins until it finds nobody inside and the items in one piece, which need never happen, and it must still notice that it is to give up.  A source is assumed to stop some time.  Nothing is assumed of `main()` before it is in `exe`.  In `schedule_ends` only the
source stops by itself: a kernel that stops while its producer is blocked on a full stream blocks it for ever,
which the code does not rule out (also a hazard).  In `application` any kernel whose `run()` may return `raft::stop` does so at any time, and a producer may then block; `ExeReturns` names this case, and the close that a resize
lost, as the only two in which `exe` does not return.  `StreamsReady` is about the edges that a source reaches; a kernel that none reaches has no stream, and `BeginRun` ends the process
when its thread looks for one.  `StreamSizes` takes the size that the port holds when `exe` makes the stream: a `link` that fails has overwritten `fixed_buffer_size` before it throws (`mapbase.hpp:110`, `133`), and then it is that size.

### What the violation runs show

1. `allocate_range` beyond the capacity never returns.  `fifo.hpp:213` promises that the number allocated
   is returned.  The value stored in `force_resize` for this case is read only by `get_suggested_count`, which nothing calls.
2. `enterBuffer` and `exitBuffer` load `thread_access` and pass it to `set_helper`; if a resize completes in between, the
   flag is stored into the deleted buffer (`datamanager.tcc:166` says nobody has references to it).
3. `init()` caches the addresses of the statistics of the first buffer.  After the first resize all counting
   goes there (`bufferdata.tcc:167` says the objects are still valid), so the monitor sees no more
   blocking and a stream is in effect resized once.
4. The length of the signal array is computed from the item type (`database.tcc:46`), so for small items a
   resize loses the signals of the later slots.
5. `invalidate()` stores into whichever buffer it finds.  Between `copyFrom` and `set` this is the one about to be deleted, and the
   close is lost: the consumer waits for ever.
6. `pool_schedule::start()` waits for the kernels without outputs.  A kernel before them that returned `raft::stop` has
   closed its outputs, so they end and `start()` returns, while it goes on to look at its input ports.  `map::exe` then
   takes the scheduler for done (`map.hpp:167`).
7. A chain of several `>>` below a `<=` or a `>=` loses kernels, in three programs of the test suite.  In `g <= s >> s2 >> print`
   (`staticLongSplitChain.cpp`) the split starts at the source of the *last* pair of the chain, and `s` is not in the graph.  In `g <= s >> s2 >= jo >> print`
   (`staticSplitChainJoin.cpp`) the join replaces the `next` that led to `s >> s2`, and `s2` is not in the graph.  In `( g >> s >> s2 ) >= jo` (`staticContJoin.cpp`) only the first
   pair of the chain is copied, so the copy of `s` is joined past `s2`; `+=` then returns `s2` and the copy of `g` as its two sources.  The tests pass, since the kernels left out
   only hand their input on, and the sizes the tests look at (`ReturnedSizes`) are right.

## 4. What is proved

### RingBufferHeap

`RingBufferHeap_proofs` proves, for every capacity, every range length, every number of items and every
choice of calls, that `Spec` implies

| theorem | property |
|---|---|
| `TypeCorrect` | `[]TypeOK` |
| `CapacityRespected` | `[]Capacity` |
| `SizeConservative` | `[]SizeIsConservative` |
| `SlotsExcluded` | `[]SlotExclusion` |
| `ReadInOrder` | `[]InOrder` |
| `NothingIsLeftBehind` | `[]NothingLeftBehind` |

from `CapAssumption`, `MaxRangeAssumption` and `OpsAssumption` (positive capacity and range length, the
calls are calls of the interface), which TLC also evaluates.

**The invariant.**  None of these is inductive: that a push is not admitted into a full queue depends on
what the producer read three loads ago.  `IInv` is the conjunction of

* `TypeOK`;
* `Positions`: the write index is `sent - taken` places ahead of the read index, and the wrap counts
  differ by one exactly if going there passes the end of the array.  A pointer between its two stores is counted with
  the increment still to come (`WrapW`, `WrapR`);
* `ProducerCall`, `ConsumerCall`: which labels go with which call, and what a call has been granted;
* `ProducerKnows`, `ConsumerKnows`: for each load of `size()` already done, how the value read bounds
  the present one.  The producer's own pointer cannot move under it, and the reader's can only have moved
  forward, so what the producer computes is never too small; symmetrically for the consumer.  This is the heart of the argument, and
  the reason why the case `Momentary` (the reader a wrap ahead) has to jump back;
* `CloseKnows`: once the consumer has seen the stream closed, nothing more will be sent;
* `Contents`: the slots between the pointers hold the items `taken + 1 .. sent` in order, each with its
  signal or none, and the slots that the producer has filled hold the next ones.

**The argument** is by rely and guarantee.  `ProducerGuarantee` and `ConsumerGuarantee` say what a step of
one thread may do to the variables of the buffer; each part of the invariant that belongs to the other
thread is shown to be stable under it (`ConsumerRelies`, `ProducerRelies`), and each action is shown to
preserve the parts of its own thread (`ProducerLocal`, `ProducerWrites`, `ProducerMoves`, `ConsumerDecides...`,
`ConsumerReads`, `ConsumerMoves`).  `Invariance` combines them.  `IInv` was model-checked for three slots before it was proved.

**The refinement.**  The last part of `RingBufferHeap_proofs` proves `Refinement`: `Spec => ImplementsChannel`.  By `IInv` the items between the two pointers are
the numbers `taken + 1 .. sent` (`QueueIsNumbers`), so the stream of `FifoChannel` can be read off the two counters.  A step that moves
neither, reads nothing and closes nothing is a stutter (`Stutters`); the first store of an increment of the write pointer is `Send`, that of the
read pointer `Take` or `Remove`, a read through a reference `Look`, and so on (`ProducerRefines`, `ConsumerRefines`).  What each of these needs of the
stream (that there is room, that there is an item, that it is empty when the consumer is told so) is what the invariant knows.

### DataManager

Two modules, the second resting on the first, for every capacity, every bound, every choice of calls and all sizes of items and signals
(`InitCapAssumption`, `BoundsAssumption`, `OpsAssumption`, `SizeofAssumption`):

| theorem | what it says | of |
|---|---|---|
| `TypeCorrect` | `[]TypeOK` | `Spec` |
| `FirstResizeExcludes` | `[]ResizeExcludes` | `Spec` with `MaxResize <= 1` |
| `FirstResizeReferences` | `[]HeldReferencesAreCurrent` | the same |
| `FirstResizeInOrder` | `[]InOrder` | the same |
| `FirstResizeRefinement` | `ImplementsChannel` | the same |

**Why the first resize.**  Until then every flag is in the only buffer there is.
A *second* resize can go wrong.  A thread loads `thread_access`, a first resize comes and goes, and then the thread stores its flag through the pointer it
loaded, into the deleted buffer (violation 2 above); it finds `resizing` false and goes on inside, with no flag in the new buffer.  A second
resize that begins while it is there sees nobody, and copies under it: with `MaxResize = 2` TLC finds `ResizeExcludes` violated.
Nothing in the code waits for such a call to be over; that the allocator looks at a stream four more times, 3 ms apart, before it resizes it again makes it unlikely.

**The invariant** is built up in layers.

* `TInv`, for the types: which buffers the resizer and the manager's two pointers are at (`Places`), that `checking_size` is the number of threads in
  `size()` (`Counted`), and that a thread in a call has a flag to set (`Calling`).  Without `Counted` the counter could not be shown not to go below zero.
* `EInv`, for the exclusion: the flags tell the truth while the resizer may be looking at them, and as long as no buffer has been replaced (`FlagsTell`), and a thread that the resizer has found outside stays
  outside until it is done (`StaysOut`), since it finds `resizing` set when it comes back; the scheduler's `size()`, which has no flag, is kept out by the counter.  This is the argument of a two-sided handshake, with the looks of the resizer one after the other.
* `DInv`, for the stream: the current buffer holds the items sent and not taken, and so does the copy once it is made (`StreamKept`); what a call has been granted (`ProducerKnows`, `Written`,
  `ConsumerKnows`), which says also that the consumer has missed nothing when it is told of the end.
* `CloseKept`, for the refinement: a consumer that found the stream closed is inside until it has asked for the size again, so the switch cannot open the stream under it; and a copy is never closed before the buffer it was made from.

**The argument.**  Each action that writes a buffer has a lemma on its effect (`PushEffect`, `SendEffect`, ...), after which the records are not opened again.
`ThreadsKeepOut` and `ResizerKeepsOut` preserve `EInv`.  For the stream, `CopyHolds` is the heart: because nobody is inside and because `rpt < wpt` (`buffercondition`), a buffer of twice the
size with the same two indices, the wrap counts set back to zero and the same block of memory holds the same items.  The refinement, at the end of `DataManager_stream`, follows as for the
ring buffer; every step of the resizer is a stutter but the switch, which is `Replace` (`ResizerRefines`).  All parts of the invariant were model-checked together before they were proved.

### Schedule

`Schedule_proofs` proves, for every graph in which a stream has at most one reader and one writer (`GraphAssumption`), every
positive capacity (`CapAssumption`) and either scheduler (`SchedulersAssumption`), that `Spec` implies

| theorem | property |
|---|---|
| `TypeCorrect` | `[]TypeOK`: types, no stream above its capacity, and each loop over ports at a port that its kernel has (`PortExists`) |
| `DataIsThere` | `[]PromisedDataIsThere` |
| `NoDataMissed` | `[]NothingMissed` |
| `AllJoined` | `[]SimpleJoinsAll` |
| `ClosedDrains` | `ClosedStreamsDrain`, a property of steps |

**The invariant.**  What a kernel acts on it found out port by port, some steps ago.  `KernelInv(k)` says what kernel `k` may
believe at each label: `DataFound` (the ports passed so far hold data), `EndFound` (the ports passed so far are closed; in the second look, all are closed and
those passed are empty; why the outputs are being closed), `WriterLeaves` (a kernel that has closed an
output or has finished never comes to `run()` again), and `PortExists`.  `ThreadsJoined` is the same for the scheduler's thread: without
`keep_going`, everyone passed so far in this scan has been joined.

**The argument.**  `Frame(k)` says what a step of kernel `k` may do to the others' streams: it takes only from its inputs and only what
is there, sends only while it is not leaving, closes only its outputs and opens nothing.  `FrameKeepsOthers` shows that
this preserves `KernelInv` of every other kernel: data do not go away under their only reader, and a closed stream gets no more since
its only writer is leaving.  One lemma per action shows `Frame` and the kernel's own `KernelInv`.  `SizesExact` deals with the moment in which a
full stream looks empty: it cannot happen on a closed stream, so the second look is exact.  `ClosedDrains` follows from `Frame` directly.

### Map and MapExe

Three modules, for every application, every graph its statements leave behind and every choice of template arguments; the theorems are about `Spec` of `MapExe`, which includes `Map`.

| theorem | property | module |
|---|---|---|
| `Typing` | `[]TypeOK` | `MapExe_streams` |
| `StreamsHaveTwoEnds` | `[]EdgesAreMutual`: after every statement and every exception the two ends of a stream name each other and have one type | `MapExe_streams` |
| `StreamsAreForGood` | `EdgesAreStable`: no step connects a connected port to another | `MapExe_streams` |
| `OwnKernelsOnly` | `[]MapOwnsItsKernels`: the map deletes just the kernels of its graph that were made for it | `MapExe_streams` |
| `NoLooseEnds` | `[]ExeStartsConnected` | `MapExe_streams` |
| `TraversalIsComplete` | `[]DotShowsTheGraph`: a traversal calls its function once for every edge that can be reached | `MapExe_streams` |
| `StreamsAreReady` | `[]StreamsReady`: when kernels run, each edge that can be reached has a live stream that just its two ends hold, and no other has one | `MapExe_streams` |
| `GivenSizesStay` | `[]StreamSizes`: a size that the port held when its stream was made stays | `MapExe_streams` |
| `StreamsOutlive` | `[]StreamsOutliveTheirUsers`: no thread meets a deleted stream | `MapExe_streams` |
| `StreamsFreedAtRest` | `FreedAtRest`: streams are deleted only when the threads of the kernels, the scheduler, the allocator and the parallelism monitor are over and the lock is free | `MapExe_proofs` |
| `OneTraversal` | `[]TraversalsExclude`: the allocator and the monitor never traverse the graph at the same time, and no kernel runs while streams are made | `MapExe_proofs` |

**Assumptions.**  `ProgramsAssumption` says what C++ lets an application be: the ports of a kernel have different names (`add_port` throws otherwise, when the kernel is made), an operand is a kernel of `main()`, the
result of an addition, or a pair that the expression has built before, and there is an overload for the operator.  Nothing is assumed of the graph that comes out, nor that an addition
succeeds.  `ExeAssumption` is about the template arguments and that there is a core.

**The invariant** has three layers.

* `IInv`, for the threads (`MapExe_proofs`), which says nothing of the graph: `MemPlace` (the allocator's thread is ready before a kernel is started and over before the monitor is told to end), `LockHeld` (who holds the lock is who
  traverses), and `ThreadsJoined` (only kernels of the map are started; when the scheduler's thread is over all of them have been joined).  The last needs that the set of
  kernels does not change between the start of the scheduler and its end: the allocator changes the graph only while `main()` waits for it, which is why `MemPlace`
  ties `ready` to the labels of its thread.
* `MInv`, for the graph while it is built (`Map_proofs`).  Its part `Sound` is what each operation on the world keeps: `Mutual` (every connected port has a port at the other end that names it, of the same type, and both kernels are in the map), `NamesApart`
  (without it, looking up the other end by its name could find another port), `Kept` (the sets of kernels fit the marks of the kernels), `Paired` (the pairs being walked are pairs, of kernels that there are) and `Bracketed`.  Beside it
  `AtWork` gives the locals of `+=` their types, as sequences of kernels that there are, so that no step of the loops reads past a group other than where the code does.
* `SInv`, for the graph during `exe()` (`MapExe_streams`): `Connected`, what `checkEdges` has found out; `Walks`, where each traversal is; `Dotted`, the lines written so far; `Streams`, how the ports hold streams (both ends of an edge
  hold the same one, different edges different ones, ports outside of what can be reached none); `Stored` and `Sized` for the streams themselves; `Made`, which ports have a stream by now, and `Growing`, that a stream in the middle of a resize is one that may be resized.  `Closable`, that only streams that there are get closed, is carried beside it.

**The argument.**  For the graph, `Keeps(w, v)` says that an operation has led from a sound world to a sound one in which nothing was taken back: kernels and connected ports are what they were, and a new
kernel is a copy that no port of the graph knows.  It is transitive (`KeepsOn`), holds of the smallest operations (a port written to, a pair written to, a kernel copied, an exception thrown), and so of `link` (`LinkKeeps`), `joink`, the copies of chains,
the operators of an expression (`ApplyKeeps`) and each turn of a loop of `+=` (`ContKeeps`, `SplitKeeps`, `AddJoinKeeps`, `DupJoinKeeps`).  That a loop keeps it needs no induction, since its turns are steps.
The heart is `ConnectKeeps`: the only operation that connects ports connects two that were free, so that no other pair of ends can have named either.

For the traversals the heart is `Walking`: no kernel is queued twice, what has been visited can be reached, and whatever lies behind a port that the traversal has passed has been visited.  When the queue is empty, the set of visited kernels is therefore closed
under going on along edges and holds the sources; `Reachable`, which is defined as the least such set, is then the set of visited kernels (`WalkEnds`).  Each step passes one port (`WalkSteps`), so the lines of the dot file
are as many as the ports passed, and the allocator, which makes a stream for each port that it passes, has made all of them at the end.  That the walk still is one after the allocator has stored a stream in a port follows
from `ReachableStays`: reachability does not depend on the streams.

`StreamsOutlive` puts the layers together: the streams that a kernel uses are those of this `exe()`, since the allocator refuses a port that has one (`DoubleInit`) and has passed all ports before a kernel is started (`Made`), and they are deleted at rest (`IInv`).  A second `exe()` on a map with streams ends in the
exception of `initialize`, before any kernel meets the deleted streams of the first.

### Only model-checked

* Liveness (`ring_liveness`, `ApplicationEnds`, `ExeReturns`): out of the prover's reach.
* What `+=` returns (`AddReturnsTheEnds`, `ReturnedSizes`).  `ReturnedSizes` is what tests demand of their own programs.  `AddReturnsTheEnds` compares the groups with what the expression writes (`Written`), a fold over its operators; for every expression that needs an induction
  over the operators that the prover cannot do.  It also counts the copies of a kernel in the whole map, so it depends on what the other additions of the application are.
* More than one resize: only the types are proved (`TypeCorrect`); `ResizeExcludes` does not hold, see above.

## 5. What is not modelled, and why

* **Class and external item types** of the ring buffer, and `fifo_gc`.  Waiting, pointers and flags are those of plain types and are modelled there; what is left out is who constructs
  and destroys an object.  Two things met while reading are listed as hazards: `deallocate` destroys the object at the read index, and the sets of pointers that `fifo_gc` merges depend on the
  order of the kernels' turns.
* **Duplicating a kernel while the application runs.**  `basic_parallel` collects kernels whose `dup_enabled` is set; only `enableDuplication` sets it, and its call is commented out (`map.hpp:131`), so the
  list is always empty.  The monitor's thread, its lock and its traversal are modelled.
* **`split` and `join` kernels and their selection policies**, for the same reason: only duplication puts them into a graph.
* **`kset` and `sub_map`.**  Lists of kernels as operands build the same pairs one after the other; nothing fills `sub_maps`.
* **`pool_schedule` inside `exe`.**  `Schedule` has both schedulers; `MapExe` has the default one.
* **SCOTCH** is any assignment to the cores there are; the weights handed to it are left out, and so is pinning itself (the stored core is modelled).
* **Shared-memory buffer** (the bodies of the heap buffer with an unfinished handshake between processes) and **infinite buffer** (a stub for measurements).
* **Statistics and sampling**: floating-point estimates.  That a stream was found blocked is therefore a choice in `MapExe`.
* **`run()` of the library's kernels**: input, output and arithmetic.  Their ports and whether they can be copied are in `Applications`.
* **Weak memory.**  All modules are sequentially consistent (see `DataManager` above for where that matters most).
* The `JVEC_MACHINE` variant of `Pointer`, which no build defines; 64-bit wrap counts are natural numbers, the code's own estimate for an overflow being centuries.

Theorems worth adding: for `Schedule`, a condition on graph and capacities under which an application in which kernels stop early still ends.
