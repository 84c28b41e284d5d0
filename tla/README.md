# vhwd_base: specifications, model checking and proofs

vhwd_base is a C++ library: threads and pools of threads, synchronisation, coroutines,
lock-free queues, a memory pool and a collected pointer, a pool of network sessions,
collections, XML, serialization and a small scripting language. This directory holds TLA+
specifications of it, the configurations with which TLC checks them on small instances, and
proofs, checked by TLAPS, for all instances.

Paths below are those of the repository, without its `src/` prefix: `inc/vhwd/...` are the
headers, `src/vhwd/...` the implementation.

## 1. The system

| part | state | operations | what is hard | what must hold |
|---|---|---|---|---|
| `LockFreeQueue` (`inc/vhwd/collection/lockfree_queue.h`) | a header `head, rear, kget, kput, flags`, maybe in shared memory; the slots | `getq`, `getq(p,n)`, `peek`, `putq`, `putq(p,n)`, `rewind` | two counters used as keys; a thread may die with one; batches that do not fit | one thread per side, keys come back, a bounded FIFO |
| `SRSW_Queue` (same file) | `rd_pos, wr_pos, size, nref`, the slots | `push`, `popq`, copies, `clear` | no lock between the reader and the writer; handles dropped at the same time | a bounded FIFO, the ring freed once |
| `Thread`, `ThreadImpl`, `ThreadManager` (`src/vhwd/threading/thread*.cpp`) | state and count of each Thread; job and rank of each ThreadImpl; counters, flags and free list of the manager | `activate`, `wait`, `reqexit`, `pause`, `resume`, `test_destroy`, the manager's `close` and `wait`; each ThreadImpl's loop | jobs handed over through a shared list; flags written with and without the mutex; a manager that is shut down and used again | counts and lists right, no job or exit request lost, `wait` returns and drains |
| `ThreadPool` (`src/vhwd/threading/thread_pool.cpp`) | queue of tasks, numbers of workers and of waiting workers | `putq`, `activate`, `reqexit`, `getq`, `svc` | workers that start and leave by themselves; tasks that throw; pause with the mutex held | each task run or deleted once, workers in range, exit |
| `AtomicMutex` (`inc/vhwd/basic/atomic.h`) | `val, num, tid` | `lock`, `try_lock`, `unlock` | `tid` is read without the lock | a recursive lock |
| counted pointers (`atomic.h`, `src/vhwd/basic/object_data.cpp`, `platform.h`) | counts, pointers, groups, handles | construction, assignment, reset, `append`, `remove` | objects that hold pointers; steps of their own for count and pointer | alive while held, destroyed once |
| `Event` (`src/vhwd/threading/thread_mutex.cpp`) | a flag, a mutex, a condition variable | `set`, `reset`, `wait`, `wait_for...` | the flag is read and reset without the mutex; wake-ups without a signal; deadlines | no wake-up lost, who returns has seen it set |
| `Coroutine` (`src/vhwd/threading/coroutine.cpp`) | state, stack, passed data; this, last and ended coroutine of each thread | `spawn`, `yield`, `yield_main`, `yield_last`, return of `svc` | coroutines move between threads; a stack is left and entered by different ones | no stack used twice, states right |
| memory pool (`src/vhwd/memory/mempool_*.cpp`) | slots, spans, page map, a cache per thread | `alloc`, `dealloc`, `realloc`, `tc_init`, `tc_cleanup` | locks per slot, caches that give back in batches | no block handed out twice, no node lost |
| `gc_ptr` (`inc/vhwd/memory/gc_ptr.h`, `src/vhwd/memory/gc_ptr.cpp`) | list of objects, roots, marks, the mark queue | create, assign, collect | collections in the constructors of objects; a queue that runs out of memory; pointers moved meanwhile | what is reachable stays, all else goes |
| IOCP pool and sessions (`src/vhwd/net/iocp1.cpp`, `session*.cpp`) | table of sessions, free numbers, queues of requests, counters of what is pending | register, send, receive, accept, disconnect, the workers, the checker | edge-triggered events, operations that outlive their session, timeouts | echoes flow, closing returns, numbers are in one place |
| `Q2Packet`, `RingBuffer`, `LinearBuffer` | positions in a buffer | read, write, rewind, parse | packets cut at the buffer's end; texts without a last line end | what went in comes out |
| trees, indexers, arrays, `intrusive_list` (`inc/vhwd/collection`) | nodes, buckets, cells | insert, find, erase, resize | rebalancing, shared chains, sources inside of the array | sorted bags, indexed sets, sequences, lists |
| XML, serialization, text files | documents, streams, files | load, save | texts and graphs of objects, cut streams, encodings | what is saved comes back |
| scripting (`src/vhwd/scripting`) | tokens, trees, code objects, a stack machine | scan, parse, generate, execute | one stack for scopes, calls and assignments | a script computes what its tree means |
| logging, strings, sockets, shared memory, ... | | | calls of the operating system, wording and layout | |

How they interact. A `Thread` is a description of a job; `activate()` hands it to `ThreadImpl`s, each
of which is an operating system thread, and the `ThreadManager` keeps those that have none.
A `ThreadPool` is a Thread whose `svc()` takes tasks from a queue; the IOCP pool is Threads
(workers, a checker, accepters) and keeps the free session numbers in a
`LockFreeQueue`. Each thread has a `CoroutineMain` from which coroutines are entered. `Event` and `Thread`
share the computation of deadlines in `thread_impl_pthread.h`. The collections call the memory pool
through their allocators. Callbacks are `Thread::svc`, `Coroutine::svc`, the tasks of a pool, the
constructors of collected objects and the handlers of a session.

## 2. The modules

Definitions keep the names of the code. A variable is a field, an array of fields over the
objects, or a place (`pc`, `at`, `chk`, ...) with the locals that outlive a step. An action is the code from
one access that other threads can observe to the next: an atomic operation, an access to an
unprotected field, or a critical section as a whole. In the sequential modules an action is one
call. Operators whose comment begins with "Mutant:" are bugs that the code does not have; with one
of them in place of the definition it stands before, the property named in `PROJECT.json` fails.

| module | models | run | proofs |
|---|---|---|---|
| `BoundedFifo` | what the two queues promise: a list, and calls that take effect at one instant | as a property of the two | |
| `LockFreeQueue` | `LockFreeQueue` | `LFQ`, `LFQ_leak` (`MCLockFreeQueue`) | `LockFreeQueue_proofs` |
| `ThreadManager` | `Thread`, `ThreadImpl`, `ThreadManager` | `TM_safe`, `TM_live`, `TM_dangling` (`MCThreadManager`) | `ThreadManager_proofs` |
| `ThreadPool` | `ThreadPool` | `TP_pool`, `TP_paused` | `ThreadPool_proofs` |
| `Event` | `Event`, `relative()` | `SYNC` (`MCSync`), `EVENT_wakes` | `Sync_proofs` |
| `AtomicMutex`, against `RecursiveLock` | `AtomicMutex` | `SYNC` | `Sync_proofs` |
| `Coroutine` | `Coroutine`, `CoroutineMain` | `SYNC` | `StacksAndHeap_proofs`, `Sync_proofs` |
| `GcPtr` | `gc_ptr`, `gc_state` | `SYNC` | `StacksAndHeap_proofs`, `Sync_proofs` |
| `SRSWQueue` | `SRSW_Queue` | `NET` (`MCNet`) | `Net_proofs` |
| `SessionIO` | a session on epoll | `NET` | `Net_proofs` (types) |
| `SessionIocp` | a session on a completion port | `NET` | `SessionIocp_proofs`, `Net_proofs` |
| `IocpPool` | the table of sessions, the commands, the end of the pool | `NET` | `Net_proofs` |
| `MemPool`, against `Allocator` | the paging memory pool | `MEMORY` (`MCMemory`) | |
| `XmlTree`, `XmlText` | XML nodes on `intrusive_list`; the parser and the writer | `MEMORY` | |
| `Serializer`, `TextFile` | serialization; `StringBuffer::load` and `save`, `IConv` | `MEMORY` | |
| `Pointers` | `DataPtrT`, `ObjectData`, `ObjectGroup`, `KO_Handle` | `DATA` (`MCData`) | `SharedData_proofs` |
| `BstTree`, against `SortedBag` | `bst_set`, `bst_map` and the multi variants, red-black and AVL | `DATA` | |
| `Indexer`, against `IndexedSet` | `indexer_set`, `indexer_map` | `DATA` | `SharedData_proofs` |
| `Arr` | `arr_container` | `DATA` | `SharedData_proofs` |
| `RingBuffer` | a stream of bytes | `DATA` | `SharedData_proofs` |
| `Q2Packet` | a stream of packets | `DATA` | `Net_proofs` |
| `LinearBuffer` | tables of numbers and words | `DATA` | |
| `Scanner`, `ScriptCompiler`, `ScriptMachine`, `Scripts` | the scripts: text to tokens, to a tree, to code, to results | `DATA` | |

A run that checks several modules extends one of them and has the others as instances; its variable
`which` says which part moves, the others stay as they begin. So the parts do not
multiply each other's states, and every property is about the part that it names.

### LockFreeQueue

`head`, `rear`, `key` (`kget` and `kput`), `flags` and `buffer` are the header and the slots. A call begins
with `Begin`; `Acquire` is one round of `while((tag=k.fetch_add(1))!=0)` and `Exchange` the
`exchange(1)` of a spinner that draws `P::timeout()`; `Test` looks for elements or room; `Alive`
is the `store(1)` of a waiting call; then the elements are moved, the cursor is published and the
key is given back. `rewind()` has the actions `Rewind...`. `Crash` is a thread or a process that
dies in a call.

* `fetch_add` is counted up to one above the timeout: all values above it behave alike. The
  code's counter would wrap after 2^32 rounds without a `store`, which lets a thread in; that is not
  modelled.
* The code reads its own side's cursor in several places. These reads are part of the next step
  that others can observe; only a second thread on the same side could change the cursor.
* A batch moves `kn` slots up to the end of the ring and the rest from its beginning (`Beyond`, `Slot`, `Advanced`): `mask` is
  unsigned and `kn` signed, so `kn` is negative when no slot of the batch is beyond the end, and the code tells the two cases apart by that.
* `flags` starts as `CtorFlags` with one of the sets in `Residue`: `reset()` clears only the two FREE flags
  of a header it has got from `malloc`, so whatever else that memory held is a flag of the queue. A queue
  built without QUEUE_NONBLOCK may thus answer `invalid_value()`. `clear()` never frees the
  memory of `reset()`, for the same reason (the FREE flags are cleared), and its failure path frees `p2`, which
  is NULL, in place of `p1`; `clear()` is not modelled.
* `peek` advances `head` as `getq` does; it is the same request.

### ThreadManager

The manager's and a Thread's `m_thrd_mutex` sections are one step each. `Activate` is
`ThreadImpl::activate` with its calls of `get_thread`; the free list is the code's doubly linked list,
`FreeAt` walks it. A ThreadImpl goes through `SvcEnter`, then `SvcTake`, `SvcPrelude`, `SvcReturns`,
`JobDone`, `PutThread` for a job, `SvcPark` to wait for one, and `SvcUnlink`, `SvcDelete`, `SvcLeave` when the
manager is disabled. `pause()` is a load and a store (`PauseLoad`, `PauseStore`): `m_nState|=...` outside of the
mutex. `resume()` is what the code does, `m_nState|=~STATE_PAUSED`. `ThreadManager::wait()` loads
the flags before it takes the mutex (`ManagerLoad`), disables the manager, and writes back
what it has loaded when no thread is left (`ManagerDrained`). Condition variables may wake by
themselves. `Roles` says what the clients of a run are there for; one is chosen at the start.

### ThreadPool

`m_tMutex` is a variable, since `getq()` calls `test_destroy()`, which may block, while it holds it. `Putq`,
`Activate` and `ReqExit` are one critical section each; a worker goes through `Start`, `Enter` (of `getq`), then
`Exit`, `Pop` and `Run` or `Throw`, `LeaveTooMany`, or `Sleep` and `Wake`; `End` is `--m_nAlive` in
`ThreadImpl::svc`. Taken from `ThreadManager`: activation succeeds (the manager is enabled), and
`pause()` is one step here (its race is that module's). The minimum and the maximum
are fixed while the pool runs.

### Event, AtomicMutex, Coroutine, GcPtr

`Event`: `set()` and the waits test the flag without the mutex, `reset()` clears it without. The
mutex is held from `SetStore` to `SetNotify`; the sections of a waiter are one step. `ms` is the
argument of `wait_for` (0 for `wait`), `deadline` what `relative()` makes of it: whole seconds of the clock plus
`ms`. A clock has `Second` ticks to a second.

`AtomicMutex`: one step per access to `val`, `num` or `tid`. `Garbage` holds what `tid` may be before the first lock.

`Coroutine`: `Yield` is `_yield_phase1` (the compare-exchange takes the callee) with the data that is passed,
`Swap` the exchange of stacks, `Phase2` what the callee does for the caller on the same thread.
`spawn()` is `SpawnInit`, `SpawnAlloc` or `SpawnFails`, and the compare-exchange `SpawnCas`. `Spawner[c]` are the threads
that spawn `c`. The main coroutine of a thread is a target for that thread only; the bytes of
the swap code and the destruction of coroutines are not modelled. A `yield` that fails
changes nothing and is no step.

`GcPtr`: a collection runs under `tRecursiveMutex` and takes one step per root (`ScanRoot`) and per object
of the mark queue (`MarkOne`), then `Sweep`. `Construct` and `Destruct` link and unlink a root, `Assign` and `Store` move a pointer and
take no lock, `NewLock`, `NewCollect`, `NewDone` and `NewThrows` are `gc_new`, whose constructor may allocate
(`CtorNew`) and collect (`CtorCollect`). `MarkFails` and `ScanFails` are the two places where an append to the
queue throws; a `ScanFails` in a collection of `gc_new` gives the new object back and unlocks what `gc_new` has locked, and no more. `moved` says that somebody has moved a pointer during the present collection; then
objects may be destroyed that are still reachable, a behaviour ends where a pointer dangles, and the
property is about the collections that nobody disturbs.

### SRSWQueue, SessionIO, SessionIocp, IocpPool

`SRSWQueue`: `PushTest`, `PushStore`, `PushPublish` and `PopTest`, `PopLoad`, `PopPublish` are the three accesses of
`push` and of `popq`. They take effect in program order: the fields are `volatile` without fences, which
x86 keeps for the stores and loads at hand; other processors are outside of the model. `Copy`
gives a handle away, `ClearDecrement`, `ClearFree` and `ClearDrop` are `clear()`. The reader drops its
handle between calls.

`SessionIO` is one session on Linux: a thread that starts operations, the worker on edge-triggered epoll, the
checker, and a peer that sends, reads, closes or resets. The socket is a blocking one:
`Block(false)` clears O_NONBLOCK (`socket_impl_linux.h:77-79`). `SessionIocp` is one on Windows, with the operations
that the system has in its hands, and the packets of the completion port; there only threads of the pool call
`Disconnect`, and not while `OnConnected` runs, and the pool has one worker, what `activate()` starts unless told
otherwise (`iocp1.h:33`; section 3 says what another one does). `IocpPool` is the table around them: `Register` step by step with its
failures, `svc_del` in the checker (`Del...`), the commands, and the end of the pool.

### MemPool, XmlTree, XmlText, Serializer, TextFile

`MemPool`: a critical section of a slot's `sl_spin` is one step, but the section stays open over `page_alloc`, which
may collect. `dealloc_batch_nolock` of a full cache runs without `sl_spin`: when another section of the
slot overlaps with it, two threads write one list and the behaviour ends (`over`). `dealloc_real` takes a
span out of the page map (`Unmap`) and gives its pages back (`PageFree`) in two steps; a batch and a collection of the
pool do both in one. `XmlTree` has the children of a node as the code links them. `XmlText`, `Serializer` and
`TextFile` write what they know and compare what they read.

### Pointers, the containers, the buffers and the scripts

`Pointers` counts up, counts down and stores in steps of their own; locks of the client keep pointers from being
changed while they are read.

The containers are operators on the code's own representation (nodes with parents and colours, buckets and
chains, cells that are raw or hold an object), one call a step, and are compared with a sequence, a set or a bag.
`RingBuffer` has a reader and a writer that move at the same time. `Q2Packet` takes a step for each copy of `update` (`Update` with
`done()`, then `Header`, `Cut`, `Keep` and `NextHeader`) and for the client that looks at the packets (`Show`), while the
peer sends packet after packet; a header says at least its own size. A behaviour ends where many small packets overrun
the code's buffer, which it does not notice (`overrun`), or where a size above the maximum is refused. `Scripts` writes programs, and `Scanner`, `ScriptCompiler` and `ScriptMachine` read, compile and
run them; the meaning of a program is defined on its tree, without code and without a stack.

## 3. What the runs show

| run | instance | what holds |
|---|---|---|
| `LFQ` | a getter of singles and pairs, a putter of batches of three, a putter of singles that rewinds; 3 elements fit, timeout 1; QUEUE_PARTIAL, with and without QUEUE_NONBLOCK. A second queue: two getters, a putter of singles and batches, one of the three may die; blocking, or QUEUE_NONBLOCK with QUEUE_TIMEOUT | one thread per side (`KeyExclusive`), keys come back (`KeyGivenBack`), a bounded FIFO (`ImplementsFifo`); on the second queue `SidesAdvance`: a side stands still only when its key is lost and there is no QUEUE_TIMEOUT |
| `LFQ_leak` | a batch of three without QUEUE_PARTIAL | violation of `KeyGivenBack`: see below |
| `TM_safe` | two Threads (one dynamic, one whose job loops), three ThreadImpls, one client that starts, pauses and resumes, one that stops | `BooksAgree`: types, `m_nAlive`, the free list |
| `TM_live` | two Threads, two ThreadImpls, clients that start and wait and stop, or take the manager down | `ActivatedRuns`, `ExitHonoured`, `WaitReturns`, `WaitDrains` |
| `TM_dangling` | one client starts threads, both take the manager down | violation of `JobsHaveThreads`: see below |
| `TP_pool` | three tasks, three workers, minimum 1, maximum 2, hint 2, two activations; left alone, stopped with tasks that throw, or paused | `PoolAccounted` (each task in one place, counters right and in range), `QueuedRuns`, `ExitHonoured` |
| `TP_paused` | one task, two workers, pause and reqexit | violation of `ReqExitReturns`: see below |
| `SYNC` | two setters, two waiters, `wait()` and a timeout of 3 ticks, two ticks a second; a lock of three threads, three deep; two threads with two coroutines; two threads, two roots, three objects, nested constructors, a queue that may run out of memory | `SleeperIsNotified`, `TimeoutNearlyDue`, `SetLetsGo`; `ImplementsLock`; `SwapsToSavedStack`, `ExtraDelivered`; `KeepsExactlyReachable` |
| `EVENT_wakes` | one setter, two waiters, a condition variable that may wake by itself | violation of `WaitSeesSet`: see below |
| `NET` | a ring of 3, two values, three handles; echoing, UDP and listening sessions, two chunks, room for one; the five kinds on a completion port; two sessions for two numbers | `ImplementsFifo`, `FreedByTheLast`, `ReaderAdvances`; `EchoesFlow`; `OperationsEndFirst`; `NumbersInOnePlace`, `CloseReturns` |
| `MEMORY` | two threads, one with a cache, a small and a large size, three bases for spans; four XML nodes; texts of four pieces; two objects in two records; two characters in every encoding | `ImplementsAllocator`, `NodesAccounted`; `ListsKept`; `SavedComesBack`; `TextComesBack` |
| `DATA` | two threads with three pointers, two objects and a handle; trees of up to seven pairs; indexers of four keys that grow and share chains; arrays of up to five; packets of 2 to 6 bytes, a ring of 4 units; tables of three pieces; texts of three lexemes; the scripts of `Scripts` | `ThereWhileHeld`; `TreesKeep` (sorted bags, balance, searches); `IndexesKept`; `ActsOnSequence`; `BytesInOrder`; `PacketsAreTheStream`; `TextsAreRead`; `ScriptMeansItsProgram` |

Why the bounds are enough. A ring of four slots has every relation of the two
cursors, wrapping included, and batches of two and three that fit, that fit in part and that do not. A timeout
of 1 lets a spinner make the exchange on its second round; larger ones add rounds without another
kind of step. Two threads on one side, and a third one on the other, are what a key has
to order. Two ThreadImpls suffice for a wrong one to be notified, three for a list with a middle. Three
workers with a maximum of two show a worker that is started, one that leaves as superfluous and one
that waits; a hint of two makes both answers of `NeedsWorker` occur. For `Event`, two on either side
let one be served in place of another. Two coroutines and the two main coroutines let
a coroutine be left by one thread and entered by the other while a third one is running. Three objects make
a cycle and an object that hangs from it, two roots let one be moved while the other stays. Two sessions for two
numbers, one of them registered again, let a number be given back while another is taken. The size 350000 has spans
of few nodes, so that a cache fills, overflows and gives back within five blocks. Seven nodes give a
tree every case of both policies on insertion and removal. For the modules with proofs the bounds matter only
to what is not proved, see section 4.

The bounds are `MaxCrash`, `MaxStarts` (calls of `activate` that start a pool), `MaxDepth`
(nesting of a lock), `MaxNow` (the clock), `MaxHeld`, `MaxGroup`, `MaxDetached`, `MaxPieces`, `MaxRecords`, `MaxChars`,
`MaxData`, `WinData`, `MaxRegister`, `MaxCommands`, `MaxSize`, `MaxBuckets`, `MaxLost`, `MaxLen`, `MaxList`, `MaxPackets`, `MaxBytes`, `MaxLexemes`,
`MaxStack` and the cut of `fetch_add`; each is in a guard of the action that would exceed it, or limits what is enumerated.

Deadlock is checked except where the system may stop: the sessions, the queue and the pool of `NET` come to
their end, the programs of `DATA` and `MEMORY` have reached their bounds; all tasks of a pool are done and its clients have nothing to call
(`TP_pool`, `TP_paused`); both clients of `TM_live` wait for a manager whose looping job nobody stops.

Fairness. `LockFreeQueue`: weak, for the next step of each thread of the second queue, or its next call when it is in none: the operating
system runs every thread, and callers that stop calling are `Crash`. `ThreadManager`: weak, for the steps inside a call and the loops of the
ThreadImpls; no client has to call anything. A looping job returns only when `test_destroy()` says so.
`ThreadPool` and `Event` have an explicit mutex, and a thread that asks for it time and again gets it: strong
fairness for the steps inside a call. `NET`: weak, for the two threads of the ring; for the operations that
have begun, the worker, the checker and a peer that reads what is sent to it; for a `Register` or a close that has begun. Nobody has to call `set`,
`reset` or `pause`, to drop a handle, or to send; no fairness for `Tick` or wake-ups without a signal.

### Where the code does not do what it says

Four runs end in a violation, and `PROJECT.json` lists them as findings.

* `LFQ_leak`: `putq(p,n)` returns from line 668 with the key `kput`. Later putters spin for ever, or
  break in at the timeout when the queue has QUEUE_TIMEOUT.
* `TM_dangling`: a parked ThreadImpl that leaves because the manager is disabled does not take itself off the
  head of the free list (`thread_impl.cpp:276`); `ThreadManager::wait()` enables the manager again, and the next
  `activate()` hands a job to freed memory.
* `TP_paused`: `getq()` blocks in `test_destroy()` with the queue's mutex, which `reqexit()` and `putq()`
  need: a paused pool can neither be stopped nor given tasks.
* `EVENT_wakes`: `Event::wait()` waits on the condition variable once and does not test the flag again
  (`thread_mutex.cpp:258-263`), so it returns without a `set()` when the variable wakes by itself, as POSIX lets it. `wait_for` reads
  the flag again for its answer. `wait_for_all_session_exit` of the IOCP pool relies on such a `wait()` (`iocp1.cpp:279`).

Others are in the models, as the code does them, and are kept apart from the properties by
a condition or a constant that the property or the run names; or the model leaves the call out, as its header says:

* A thread that starts after the manager was disabled is never counted out of its Thread
  (`thread_impl.cpp:235`): `BooksAgree` is about managers that stay.
* `pause()` may undo an exit request (`thread.cpp:53`): `ExitHonoured` is checked
  without `pause`. `resume()` sets every flag but
  STATE_PAUSED (`thread.cpp:59`) and so ends the threads it should let go on.
* A task put after `reqexit()` stays in the queue of a pool whose workers leave, and is not told `del()`
  (`thread_pool.cpp:51`). A worker whose task throws stays in `m_nWorkerNum` (`PoolAccounted` counts it).
* `AtomicMutex` does not set `tid` in its constructor; with `Garbage = {NoId, t1}` TLC violates `Asserts`.
* Timed waits of an `Event` may be up to a second early (`TimeoutNearlyDue` is the bound that holds).
* A `LockFreeQueue` in memory from `malloc` keeps flags that nobody gave it (`Residue`, above).
* `KO_Handle::reset` takes the answer of `DecUseCount` the wrong way round; `p = p->next` by `operator=` reads the
  object that is gone (`Pointers`).
* `remove()` and `detach()` of `intrusive_list` leave `m_pTail` behind (`XmlTree`).
* `dealloc_batch_nolock` runs without the lock of its slot (`MemPool`).
* A collection that runs out of memory while it scans the roots throws past the unlock of `tRecursiveMutex`:
  no other thread collects or allocates afterwards (`GcPtr`, `ScanFails`).
* Both sides of a serializer number their objects by themselves, and nothing notices when they differ (`Serializer`).
* The scanner gives a hexadecimal number out twice, and an integer for a number with an exponent and no dot (`Scanner`);
  what the code generator does not get right is listed at the head of `Scripts`.
* With a second worker `OperationsEndFirst` of `SessionIocp` is violated (TLC finds it with `Workers` of two): a worker has queued
  a receive and not yet counted it (`session_tcp.cpp:81`) when `Disconnect` empties the queue and counts the request down
  (`session.cpp:131`); `m_nPendingRecv` is then one too small, the packet of `Disconnect` is taken for the last that is
  pending (`iocp1.cpp:470`), and `HasPending` reads 0 and 0 while the first worker is still in its callback.
* `Block(false)` makes a socket blocking (`SessionIO`); a failed `Register` does not give its number back (`IocpPool`, `lost`).
* Many small packets overrun the buffer of `Q2Packet`; a text that ends within a character is read past its end (`TextFile`).

## 4. What is proved

TLAPS checks the following for all values of the constants that satisfy the modules' assumptions
(`QueueAssumption`, `SizeAssumption`, `ManagerAssumption`, `PoolAssumption`, `MutexAssumption`, `EventAssumption`,
`CoroutineAssumption`, `GcAssumption`, `SessionAssumption`, `PointersAssumption`, `ArrayAssumption`, `RingAssumption`, `PacketAssumption`): any number of threads, objects, slots, tasks or sessions. The assumptions say
that names are different, that capacities and limits are positive, that a packet is at least as long as its header, and that the workers of a pool and the ThreadImpls are finitely many.
Each proof has an invariant that the initial states satisfy and every action keeps, with a lemma per action or group of actions, and the
property follows from it. What a theorem assumes besides is said here.

| theorem | states | further assumptions |
|---|---|---|
| `LockFreeQueue_proofs!KeysExclude` | `KeyExclusive` | none; the property is about queues without QUEUE_TIMEOUT |
| `LockFreeQueue_proofs!KeysComeBack` | `KeyGivenBack` | QUEUE_PARTIAL, and nobody dies; `LFQ_leak` shows that the first is needed |
| `LockFreeQueue_proofs!ImplementsBoundedFifo` | `ImplementsFifo` | no QUEUE_TIMEOUT; nobody dies, or nobody rewinds |
| `ThreadManager_proofs!BooksAlwaysAgree` | `BooksAgree` | none; lists and `m_nAlive` are claimed while nobody takes the manager down |
| `ThreadManager_proofs!WaitIsDrained` | `WaitDrains` | none |
| `ThreadPool_proofs!PoolAccounts` | `PoolAccounted` | none |
| `Sync_proofs!NoWakeupLost`, `TimeoutsAreDue`, `EventTypes` | `SleeperIsNotified`, `TimeoutNearlyDue`, types | none |
| `Sync_proofs!NoWakeupInvented` | `WaitSeesSet` | condition variables wake only when they are notified (`~Spurious`); `EVENT_wakes` shows that this is needed |
| `StacksAndHeap_proofs!StacksInUseOnce`, `SavedBeforeSwap`, `StatesOfCoroutines`, `AssertsOfYield`, `ExtraArrives`, `StacksKept`, `CoroutineTypes` | the parts of `SwapsToSavedStack`, and `ExtraDelivered` | one thread spawns each coroutine (`OneSpawnerEach`) |
| `Sync_proofs!SwapsAreSafe`, `ExtraArrives` | the same, as properties of `SYNC` | none: its coroutines have one spawner each |
| `StacksAndHeap_proofs!CollectsExactly`, `GcTypes` | a collection that nobody disturbs keeps exactly what the roots reach | none |
| `Sync_proofs!CollectsExactly` | `KeepsExactlyReachable`, the same as a property of `SYNC` | none |
| `Net_proofs!ImplementsBoundedFifo`, `ApartAlways`, `FreedOnce` | `ImplementsFifo`, reader and writer apart, `FreedByTheLast` | none |
| `Net_proofs!NumbersStay` | `NumbersInOnePlace` | none |
| `SessionIocp_proofs!EndsAlways` | no operation outlives its session on Windows, and types | one worker; the kinds are those of `AllKinds` |
| `Net_proofs!OperationsEnd` | `OperationsEndFirst`, the same as a property of `NET`, and the types of `SessionIO` | none: its pool has one worker |
| `SharedData_proofs!RefsThereWhileHeld` | `ThereWhileHeld` | none |
| `Sync_proofs!MutexTypesHold`, `MutexExcludes`, `MutexAssertsHold`, `ImplementsRecursiveLock` | types, exclusion, the code's assertions, `ImplementsLock` | `tid` starts as nobody's id (`NoStaleId`) |
| `SharedData_proofs!ArrayActsOnSequence` | `ActsOnSequence` | none |
| `SharedData_proofs!RingKeepsOrder` | `BytesInOrder` | none |
| `SharedData_proofs!IndexerKeepsIndexes` | `IndexesKept` | none |
| `Net_proofs!PacketsKept` | `PacketsAreTheStream` | none |

The arguments:

* `LockFreeQueue`, keys. Exclusion is not inductive alone: the invariant adds that a
  held key is not 0 (`KeyHeld`) and the types (`KeyType`). Every action
  is first shown to be a `KeyStep`: it lets its own thread in only on a key that is 0, and makes a key 0
  only when its thread goes out; that such a step keeps the invariant is a lemma without actions.
* `LockFreeQueue`, the ring. `QueueInv` says what a thread that holds a key knows: what it has read of the
  other side's cursor is still room or still elements, and the slots it has written or copied are not anybody else's. The refinement maps a call to
  the instant at which its cursor is published, or at which its test fails. With QUEUE_TIMEOUT two threads may be on a side, and the queue is not a FIFO; a thread that dies between the two
  stores of `rewind()` leaves head and rear apart. So these are excluded, and nothing else.
* `SRSW_Queue`. `RingInv`: both positions are in the
  ring and what each thread has read still holds (a writer that found room has room, a reader that found an
  element has it and holds the right one). `RefInv`: `nref` is the number of handles that count, and only
  the last one gets to free. Lemmas about `%` at the head of the module serve both.
* `ThreadManager`. `CountInv` relates the manager's counters to the ThreadImpls at each place, `StayInv` and
  `AliveCounts` relate `m_nAlive` to the jobs, and `ListInv` says that the free list is a sequence without repetition,
  linked both ways, of the idle ThreadImpls. Walking that list (`FreeAt`) and the changes at its head and in its middle
  have lemmas of their own. `WaitDrains` follows from `CountInv` at the step that returns.
* `ThreadPool`. `MutexInv`, `QueueInv` and `JobInv` give each task its place; `CountInv` equates each
  counter with the number of workers at certain places, so each action is a lemma on the cardinality of
  these sets after one worker has moved. That `m_nWorkerNum` also counts the workers lost to exceptions is part of it.
* `Event`. `MutexInv` for the lost wake-ups, `SeenInv` for the invented ones (who notifies has set the flag since each sleeper began to wait, so a sleeper that is notified has
  seen it set),
  `DueInv` (a deadline and the clock, by division) for the timeouts.
* `Coroutine`. `PlaceInv` says where a thread is, `ClaimInv` that a coroutine is claimed by one thread, and is RUNNING only
  if it is claimed, `StoppedInv` and `SpawnInv` what the other states mean for stacks. `spawn()` tests and sets
  a stack without a lock, hence `OneSpawnerEach`.
* `GcPtr`. `LockInv` and `NewInv` say who collects and what is under construction, `MarksInv` and `QueueInv` that only linked objects are marked
  and queued. `ScanInv` is the heart: while nobody has moved a pointer, every marked object is reachable, and each pointer
  from a scanned root or from a marked object that is not in the queue any more leads to a marked one. When the queue
  is empty and the roots are done, the marked objects are closed under pointers and hold what the roots point to, hence
  are what can be reached; a collection that threw is over and destroys nothing.
* `IocpPool`. `Once`, `Apart` and `Placed`: no number twice in the queue, none in two places, and every holder
  has one. The sum that the run evaluates follows.
* `SessionIocp`. `CountInv`: each counter is the number of requests queued, of operations in the hands of the system, of
  packets in the port, and of what the three threads have still to count down, less what they have queued and not yet counted.
  `PlaceInv` says what a thread at each place may have to do; `FreshInv` and `RecvToComeInv` that nobody interferes before the
  first requests are counted. `NullInv`: from `Disconnect` on its packet is in exactly one place (to be posted,
  in the port, with the worker), or it was given up and then nothing else is left; with one worker, the one that reads the counters
  owes nothing itself, so the sums are zero term by term. The packet counts as a receive, so a checker that reads no pending receive
  knows that it was given up, and `EndInv` carries that over its second read.
* `SessionIO`. That what is sent is a buffer needs the place of the worker: it holds one when it calls `Send`.
* `Pointers`. At every step of every call a count is the number of things in five sets (`CountInv`): the pointers that hold the object and
  are not about to be replaced, its places in groups that are not about to become others, the decrements to come, the calls that have
  counted it and are still to store it, and the places in groups to come that have been counted. Each action moves an element from one set to
  another, or adds one when it counts up and takes one away when it counts down. That needs what is left of a call
  to be known, item by item (`ShapeOf`, with a case for each kind of call), that only one call writes a pointer and that it replaces what
  it is to drop (`StoreOf`, `OldOf`), and that what is to be counted comes from somebody who keeps it until then or is new
  (`SourceOf`, `ReaderInv`). `UnmadeInv` and `MadeInv` add that what is not made yet has no names and that only a new object is there without a count.
  An object that is counted is there, so no call counts on one that is gone; without calls only the first two sets are left.
* `AtomicMutex`. The invariant relates `val`, `num`, `tid`, `depth` and the places of the threads; in particular `tid` is the id of
  a thread only while that thread is inside.
* `RingBuffer`. `Distances`, `WriterMoves` and `ReaderMoves` are the arithmetic of positions that wrap: how far the writer's position
  is ahead of the reader's, and what a move of either does to that. `RoomInv` and `LeftInv` say that what a side has seen of
  the other's position promises no more than there is by now, since the other side only adds to it; `BytesCounted` that the distance of the
  positions is the distance of the two streams, and `BytesInv` that the bytes between the positions are the next of the stream.
  The size of the ring need not be a power of two for this.
* `Q2Packet`. The stream is the packets one after the other (`StreamInv`), and `Now`, the packet to be cut, is the one behind those that
  were shown and those that are kept. `PendingInv`: the bytes between `q1` and `q2` are the first of packet `Now`, no more than all of
  it, and what is received is these and the rest of the piece; `KeptInv`: the packets that are kept are whole and lie before `q1`, so that no copy
  touches them; `StageInv` what `update` knows at each place, above all that a size is read only where the header is complete. Every copy is one lemma
  (`Takes`). `done()` moves the unfinished packet to the front, where it is read again as the same bytes.
* `Arr`. `ArrayInv`: objects in the cells up to `len`, raw memory behind. Each loop of `xmem` (`Constructs`, `Assigns`, `AssignsDown`
  and the like) is given cell by cell by what it leaves, provided that it constructs on raw cells or assigns to objects and that its source reads
  no cell that it has written before; the loop and that function agree at every count, since there is no least count at which they differ
  (`SameEnd`, from the library's well-founded order on the numbers). An operation is then its loops, one after the other, and the
  index arithmetic of the cells in front of, in and behind the place of insertion.
* `Indexer`. `IndexerInv`: the keys of the pairs differ, and when there is a table, each chain holds each index whose key belongs in it in one
  place, and no other ones (`Holds`, `Home`, `Tabled`). Putting an index in front, taking one out and renaming one are lemmas about
  `Holds` (`PushHolds`, `RemoveHolds`, `RenamedHolds`); that `rehash` builds such chains out of any pairs is shown at the least number of pairs
  for which it would not (`ChainsTabled`). `erase` takes out one index and then gives it to the last pair, in its own chain or in another one
  (`EraseTabled`). A table with a mask of 0 is never looked into, so a table of one bucket is only ever built anew.

Theorems of modules that a run has as instances are proved in a module of their own and brought over by an instance of it
(`All` in `Sync_proofs`, `AllSessions` in `Net_proofs`): the steps of the run's part are shown to be steps of the module, and its
constants to satisfy the assumptions.

Model-checked only:

* liveness: `SidesAdvance`, `ActivatedRuns`, `ExitHonoured`, `WaitReturns`, `QueuedRuns`, `SetLetsGo`, `ReaderAdvances`, `EchoesFlow`,
  `CloseReturns`. It needs fairness and ENABLED, which are out of the prover's reach.
* `TreesKeep`, `TextsAreRead` and `ScriptMeansItsProgram` of `DATA` are about recursive definitions and need induction over trees or texts.
* `SavedComesBack` and `TextComesBack`, for the same reason.
* `NodesAccounted`, `ImplementsAllocator`, `ListsKept`: batches of nodes and lists of children are built by folds over sequences,
  and what a fold computes for every sequence needs induction too.

## 5. What is not modelled

Each part that has no module is in `PROJECT.json` with a reason, and each part that has one with what is left out. In short: calls of the
operating system (sockets, files, shared memory, pthread's own mutexes and conditions), logging, functors and typelists, the values of
scripts other than integers, booleans and tables, and their library modules, the contents of the code page tables. Of the modelled parts: the failure of `pthread_create` and the roll-back in
`ThreadImpl::activate`, priorities and affinities, the worker limits of a pool that change while it runs,
`SRSW_Queue::operator=` onto a queue in use, `LockFreeQueue::clear` and a second `reset`, the destruction of Threads and coroutines, weak pointers, `gc_array`,
several workers on one session, and the use of a session's pointer after `svc_del` has dropped it (`iocp1.cpp:707`: epoll may still hand it out).

Hazards of this code that no property catches, each with its reason in `PROJECT.json`:

* the order in which another processor sees the two stores of `SRSW_Queue::push` (`lockfree_queue.h:257`);
* a worker that is gone and still counted, so that no new one is started (`thread_pool.cpp:145`);
* two threads in the lists of a slot while `dealloc_batch_nolock` runs unlocked (`mempool_cached.cpp:94`);
* a collection while pointers move, or with the marks of one that has failed (`gc_ptr.h:384`);
* insertion into a list whose `m_pTail` is stale (`intrusive_list.h:72`);
* the number that a failed `Register` keeps (`iocp1.cpp:39`), and an event of an empty pool that stays set while a session is left (`iocp1.cpp:304`);
* the last row of a table without a line end (`linear_buffer.h:473`), files that look like another encoding's, characters that do not fit (`stringbuffer.cpp:317`);
* packets that overrun their buffer (`q2packet.h:145`);
* the slots of `for_each` and `class` below the locals of an outer block (`codegen_generator.cpp:46`).

## 6. Plan

Done: the queues, the thread manager and the pool, events, coroutines and locks; the memory pool, the pointers and the collector; the
sessions and their pool; the containers, the buffers, XML, serialization and the scripts; the proofs of section 4.

Next:

1. Proofs: `CountsAgree` and `NothingLost` of `MemPool`, and the lists of `XmlTree`, once their folds are written in a way that is
   reasoned about without induction; the types of the containers.
2. `ThreadImpl::activate` with threads that cannot be created; the timed `Thread::wait`.
3. Several workers on one session, and the pointer that outlives `svc_del`.
4. Variants and the text functions of the scripts.
