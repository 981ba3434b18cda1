# easybd: TLA+ models, checks and proofs

easybd serves blocks of a file over TCP. It consists of a coroutine I/O library
(`easyio`, with a poll(2) backend called *libc* and an io_uring backend), a
server and a client library. Everything on one queue runs on one thread; the
difficulty lies in coroutines that resume one another, in completions that
arrive in any order, and in objects that are destroyed while the kernel or a
dispatch loop still knows them.

## 1. Inventory

| Component (source) | State | Operations | Interacts with |
|---|---|---|---|
| `RecvStream` contract (`easyio/include/easyio/recv_stream.hpp`) | what was delivered, the chunks handed out | `next()`, `next_batch()`, destruction | read by `FramedReader`, implemented three times |
| libc stream (`libc_recv_stream.cpp`) | ring of slots, `_pending`, `_checked_out_count`, `_write_idx`, `_eof`, `_error`, `_waiter` | `on_ready()`, `_ready()`, `_take_batch()`, `cancel()` | called by `libc_backend::Queue::step()`, resumes its reader |
| io_uring streams (`uring_recv_stream.cpp`) | provided buffers, `_pending`, `_checked_out`, `_needs_resubmit`, the sink with `_live` and `owner` | `handle_cqe()`, `_ready()`, `_maybe_resubmit()`, `request_cancel()` | completions from the kernel; the sink outlives the stream |
| `FramedReader` | `_buf`, `_consumed` | `read_exact()`, `read_exact_into()` | one stream |
| libc queue (`libc_queue.cpp`) | `_fds`: read operation, generation, write queue per descriptor | `_set_read_op()`, `_clear_read_op()`, `_push_write_op()`, `step()`, `cancel_fd()`, `~Queue()` | calls `on_ready()`/`cancel()` of operations, which reenter it |
| io_uring queue (`uring_queue.cpp`) | SQ and CQ rings, the addresses in them, the fixed file, buffer groups | `_get_sqe()`, `step()`, `_dispatch()`, `cancel_fd()` | calls `on_cqe()` of sinks |
| `Mutex`, `WaitGroup`, `Task`, `spawn` | `_locked`, `_waiters`; `_remaining`, `_waiter` | lock, unlock by hand-off; add, done, wait | resume coroutines inside their calls |
| `send_all` (`queue.cpp`) | the iovec not yet sent | loops over short writes | used by session and client |
| session (`server/session.cpp`) | `send_mtx`, `wg`, one handler per request | `handle_connection()`, `handle_read()`, `handle_write()`, `send_error()`, `tracked()` | queue, stream, backing file |
| server (`server/server.cpp`) | `g_shutdown_requested`, `g_worker_exception`, worker threads | `accept_loop()`, `worker_main()`, `run_server()` | one queue per worker, a shared listening socket |
| client (`client/client.cpp`) | `_pending`, `_send_mtx`, `_next_cid`, `_total_dispatched` | connecting, `pread()`, `pwrite()`, `wait()`, `reader_loop()`, `send_request()`, `fail_all_pending()`, destructor | application callbacks, which may call back in |
| C shim, `AlignedBuffer`, command line, bench, docker | none of interest | | |

Hard behaviour, and the property it calls for (the full list, with lines, is
under `hazards` in `PROJECT.json`):

- a ring that laps itself, or that is wedged full: chunks in use are intact, a
  sleeping reader can always be woken;
- the multishot operation that ends for lack of buffers, in two forms: somebody
  always resubmits, every byte is delivered;
- completions for a stream that is gone: the sink lives as long as they may come
  and is freed then;
- chunk boundaries anywhere: reads return consecutive runs of bytes;
- responses of concurrent handlers with short writes: whole frames on the wire,
  teardown only after the last handler;
- requests failed from two places, callbacks that issue requests: each callback
  once;
- a send that fails in the middle of a frame, the peer there or not: nothing but that
  frame is broken, and who is owed an answer is known;
- a dispatch loop over a map that the resumed coroutines change: no dangling and
  no forgotten operation;
- addresses, group ids and file indices that travel through the kernel and are
  reused meanwhile: they mean what they meant at submission, and each operation
  completes once;
- several workers on one listening socket, accepts and workers that fail: nobody
  stops accepting, the server goes down as a whole and in order.

## 2. Modules

| Module | Models | Uses |
|---|---|---|
| `ChunkBatch` | `_take_batch()`'s choice of chunks | |
| `RecvStream` | the abstract contract of a stream | `ChunkBatch` |
| `LibcRecvStream` | the libc stream and the part of `step()` that calls it | `ChunkBatch`; `INSTANCE RecvStream` as refinement |
| `UringRecvStream` | the multishot and the single-shot stream (`multishot` is chosen at the start), their sinks and the kernel's side | likewise |
| `FramedReader` | both reads, composed with `INSTANCE RecvStream`: the reader runs over *every* stream that keeps the contract, hence over the three that were shown to | `RecvStream` |
| `Session` | one connection of the server with its mutex, wait group, `spawn`, `send_all`; `backend` is chosen at the start and decides how operations complete | |
| `MCSession` | the workloads `Session` is checked with | `Session` |
| `Client` | the client library from its constructor to its destructor, with its application and the server it talks to | |
| `LibcQueue` | the libc queue's descriptor map and dispatch | |
| `UringQueue` | the io_uring queue's rings and dispatch, with awaiters and several streams' sinks as the objects their entries point to | |
| `Server` | `run_server()`, its worker threads and their accept loops, on either backend | |
| `LibcRecvStreamProofs`, `UringRecvStreamProofs`, `FramedReaderProofs`, `LibcQueueProofs`, `UringQueueProofs`, `SessionProofs`, `ClientProofs`, `ServerProofs` | the theorems about each component (section 4) | the component's module and TLAPS |

How state and actions correspond to the code:

- **Bytes.** In the streams a byte is its offset in what the peer sent; a slot or
  buffer holds the offset of its first byte, so "the chunk's content" is a number
  and overwriting it is visible. `RecvStream` speaks of runs of offsets.
- **libc stream.** `on_ready()` is one action per `recv()` (`RecvData`,
  `RecvAgain`, `RecvEof`, `RecvError`), `LoopExit` when the loop's condition fails,
  and `Wake` for its end, so the peer acts between two `recv()`s. `next_batch()` is
  `NextBatchReady` or `NextBatchSuspend`. `next()` is the case of one chunk.
- **io_uring streams.** `sq` and `cq` are the rings, `op` the operation in the
  kernel, `sink` and `live` the heap object; `KernelData`/`KernelEnd` are the kernel
  (external), modelled with both ways of reporting that buffers ran out.
  The single-shot stream's `_has_chunk` and `_checked_out` are the cases of at most
  one element of `pending` and `checkedOut`; `SingleHandleCqe`, `TakeOne` and
  `Reclaim` are its halves of the steps that both streams have.
  The kernel ends an operation only with one of the markers `handle_cqe()` tells
  apart, so its last resort (`EndsUnsaid`) is there for the code's sake.
- **FramedReader.** Each call is its prologue (`ReadExact`, `ReadExactInto`), then
  `AskStream`, one action per chunk (`AppendChunk`, `CopyChunk` with `Stash`), and
  `Finish` or `Throw`.
- **Session, Client.** `stack` is the chain of coroutines that are in the middle of
  resuming another one, the running one last. `spawn()`, `Mutex::unlock()` and
  `WaitGroup::done()` push; suspending or ending pops; only with an empty stack may
  the event loop resume a coroutine. This keeps the nesting of the C++ code: a
  handler resumed inside another handler's guard destructor runs before that one
  continues. The wire is the history of units the socket took, so that interleaved
  or repeated pieces show. In `Session` the iovec arithmetic of `send_all()` is kept.
  A send may throw at any moment, whether the peer is there or not: `_get_sqe()` finds
  no entry, `send()` fails with any errno but EAGAIN. The guard then hands the mutex
  on, `tracked()` or `send_request()` swallows the exception and the connection goes
  on; `threw` and `cut` remember whose send it was. A file operation of `Session` is
  three steps on io_uring (`Submit`, the kernel's `KernelIo`, `IoComplete`) and one
  blocking call on libc, and `stored` changes where the kernel does the write.
- **LibcQueue.** Addresses are a small set from which objects are allocated and
  freed, so a new operation may sit at a freed one's address. While a call of
  `on_ready()` or `cancel()` runs, the resumed coroutines (`Reenter`) may register,
  send, destroy streams and close descriptors they can reach (`scope`), as
  `accept_loop()` and `handle_connection()` do.
- **UringQueue.** Addresses are a small set; `gen`, which is not in the code, tells
  the objects that lived at one address apart. An awaiter lives while its coroutine
  is suspended, a sink until its stream is gone and its last CQE came. Whatever a
  resumed coroutine can do that takes an SQE is an action of phase `"resumed"`, in
  the middle of `_dispatch()`. `GetSqe` flushes a full ring; `GetSqeThrows` is a
  failed flush, which ends the process in the `noexcept` callers and leaks a group
  or a sink in the others. A sink is abstracted to whether its operation is out
  (`"live"`), waits to be resubmitted (`"dry"`) or is over; `UringRecvStream` has the
  detail.
- **Server.** `main` and `pc` are the program counters of `run_server()` and of each
  worker; `accept_loop()`, which runs inside `spawn()`, `step()` or `~Queue()`, is
  the worker's `"accepting"` with `ret` where it was called from. A served connection
  is opaque (it is `Session`). `Exhausted` is the only shared resource besides the
  listening socket: descriptors.

Not in any module: `next_batch()` with an empty `out` (no caller does it), the
`-EMSGSIZE` return of `pread()`/`pwrite()` (no state changes), name resolution.

## 3. Runs

Passing runs (about six minutes together, most of them for `UringQueue`, `Session` and `Server`):

| Run | Bounds | Shows |
|---|---|---|
| `LibcRecvStream` | 2 slots of 2 bytes, 4 bytes, batches of at most 2 chunks and 3 bytes | slots in use are never overwritten (`LiveIntact`), a sleeping reader can be woken (`NoLostWakeup`), an error or end of file comes after everything that was received (`EndAfterData`), the contract (`Refines`), all bytes and then the end arrive (`EverythingDelivered`) |
| `UringRecvStream` | 2 buffers of 2 bytes (one in single-shot mode), 4 bytes, both modes | no buffer is in two places and none is lost (`BuffersConserved`), no completion for a freed sink (`SinkSafe`), a sleeping reader has an operation or a completion coming (`WaiterHasOp`), an error or end of file comes after everything that was received (`EndAfterData`), the contract, delivery, the orphaned sink is freed (`OrphanFreed`) |
| `FramedReader` | 5 bytes, batches of 2, reads of 0 to 3 bytes | reads are consecutive runs and nothing is lost between calls (`ReadsExact`), a call returns or throws once its bytes or an end came (`ReadCompletes`) |
| `Session` | every pair of the six kinds of request, and triples that begin with a read and a synchronous write; responses of 1 + 2 units, failing allocations, both backends | the mutex has one owner and forgets nobody (`MutexCorrect`), no response lands inside another, but after one whose send threw (`FramesWhole`), a handler that ended without an exception has answered (`FinishedAnswered`), no part of a write's answer is sent before the kernel did the write, and a positive one is for data it took, durably for a synchronous write (`AcknowledgedStored`), the connection outlives its handlers (`TeardownSafe`), every handler ends (`HandlersEnd`), the connection closes once its client is done (`ConnectionCloses`) |
| `Client` | 2 requests of 2 units, both kinds, both backends | every accepted request is in exactly one place or its callback fired (`CallbackOnce`), payloads have a target (`BodyHasTarget`), no request lands inside another, but after one whose send threw, also while the client is destroyed (`RequestsWhole`), a pending request fires while the reader loop lives, unless a request before it on the wire was cut (`PendingFires`) |
| `LibcQueue` | 2 connections and the listening socket, 3 addresses, 2 generations, 2 sends per descriptor | the map points to live operations only (`NoDangling`), every suspended operation is in it (`NoOrphan`) |
| `UringQueue` | SQ ring of 1, CQ ring of 2 which cancellations overflow, 2 addresses, 3 objects, 2 files, 2 group ids | what the rings refer to is what it was at submission (`RefersToSame`), exactly one last completion is to come for each operation (`OneCompletion`), every `co_await` is resumed (`Resumed`) |
| `Server` | 2 workers, 2 clients, descriptors for both, both backends | no worker stops accepting (`KeepsAccepting`), descriptors are closed after the last worker and failures are reported (`EndsAfterWorkers`), a shutdown request or a failed worker ends the server (`ShutdownCompletes`), clients are accepted and their connections closed (`ConnectionsServed`) |

Why the bounds are enough: two slots already give a full ring, a wrap-around, a
partly released batch and a chunk that a batch limit cuts off; a boundary inside
an entry needs entries of two bytes. Two requests contend for a mutex, a third
arrives while it is handed over. Two units give a short write inside, a third the
boundary of header and payload. Three addresses let an object be freed and its
address reused while two others are alive. In `UringQueue` a ring of one entry is
full whenever anything is queued, so that a flush may happen at every submission; a
completion ring of two, which the completions of a cancellation overflow, has some
behind the dispatch loop; two addresses and three objects give reuse of an address while a batch that
names it is dispatched; two group ids wrap while one is in use. In `Server` two
workers race for one connection and both keep serving, so that a worker that comes
late registers again; with descriptors for two, a libc worker that serves one
connection goes back to `step()`. Every run sets `CHECK_DEADLOCK FALSE`,
because each of these systems really may stop: the stream is destroyed, the
connection closed, the client gone, and the bounded peers run out of things to
send; that nothing stops too early is what the liveness properties are for.

Runs that show a disagreement (each is a `finding` in `PROJECT.json`, with the
line it contradicts):

| Run | What TLC finds |
|---|---|
| `ClientLate` | a request issued after `reader_loop()` ended is accepted and never answered nor failed |
| `ClientPayload` | the payload of a write is sent after its callback fired |
| `LibcQueueDtor` | `~Queue()` loops over the live map, a cancelled connection erases the entry the loop is at |
| `ServerStarved` | without a free descriptor the libc worker retries `accept()` for ever and serves nobody, so no descriptor ever becomes free |

`NoDangling` and `NoOrphan` speak of the queue before its destructor; what happens
inside is `LibcQueueDtor`'s question. `ConnectionsServed` makes an exception for
descriptors that stay exhausted, or a libc worker that spins for ever for want of
one, and `ShutdownCompletes` for such a worker whose failure nobody hears of;
that is `ServerStarved`'s question. `FramesWhole`, `FinishedAnswered` and
`RequestsWhole` name the one way a frame may be cut, a send that threw; that the next
frame is sent all the same is the first deviation below.

### Deviations without a run

Seen while modelling. The models behave like the code here, and no property above
says otherwise. The first seven can be watched in the models: TLC refutes the formula
given with each on the bounds of the component's run (or smaller ones).

- A send that throws after a short write, on a connection that goes on (no SQE, an
  errno other than EAGAIN), is swallowed by `tracked()` (`session.cpp:121`); the guard
  has handed `send_mtx` on, and the next response starts inside the cut one.
  `session.cpp:116-117` says "Worst case here: this one response never gets sent and
  the client eventually sees the connection close." (`Session`: a response starts only
  after a whole one, `FramesWhole` without its last alternative.)
- Nothing closes a connection after a handler threw, a failed allocation included; the
  same comment says the client "eventually sees the connection close". (`Session`:
  `c \in threw ~> connPc = "closed"`.)
- On libc, `cancel_fd()` in `~Client()` resumes the senders in its copy one by one; one
  that hands `_send_mtx` to a waiter, or whose callback issues a request, makes another
  send register after the copy was made, and `~Queue()` resumes it when `_send_mtx` and
  `_pending` are gone, which `client.cpp:117-122` means to prevent. (`Client`:
  `app # "undefined"`.)
- On libc the same call makes `reader_loop()` invoke the callbacks of the requests in
  flight; `client.h:59-60` says they "never get their callback invoked". (`Client`:
  `[][app = "cancel" => fired' = fired]_vars`.)
- A send that fails at once invokes the callback inside `pread()` or `pwrite()`
  (`client.cpp:208`); `client.h:64-65` says "from within easybd_client_wait()".
  (`Client`: `[][fired' # fired => app = "wait"]_vars`.)
- When `step()` throws, `wait()` fails with requests still pending; `client.h:92-95` says
  that "every still-pending request's callback has already been invoked". (`Client`:
  `[][app = "wait" /\ app' = "error" => pending = {}]_vars`.)
- `cancel_fd()` is queued when the multishot recv has just run out of buffers;
  `handle_cqe()` submits it again behind the cancel, and the reader waits on, where
  `queue.hpp:117-119` says that it is resumed with an error. Only `~Client()` calls it on
  io_uring, and the queue goes right after. (`UringRecvStream`: a reader waiting when
  `cancelFd` is the last entry of `sq` leads to one that is not.)
- An oversized write ends the connection (`session.cpp`, `handle_connection()`),
  where `protocol.h:54-55` promises an EMSGSIZE response.
- A send that throws in the middle of a request fails that request only, and the next
  one is sent inside it (`client.cpp:199-210`); the server then reads the two as one.
- `recv_stream()` throwing in `reader_loop()` (`client.cpp:144`, outside its `try`) ends
  the process through `DetachedTask`.
- On libc `pread()` and `pwrite()` send synchronously when the socket has room;
  `client.h:68-69` describes the request as merely queued.
- When `step(-1)` throws in the client's constructor, `~Queue()` on libc resumes
  `connect_task()`, which writes to the constructor's locals (`client.cpp:86-99`).
- A worker whose `step()` throws destroys its queue before it sets
  `g_shutdown_requested` (`server.cpp:208`): `accept_loop()`, resumed with ECANCELED,
  tries again. With a connection in the backlog it serves it on the queue under
  destruction; with no descriptor left it never returns and the failure is never
  reported (this is why `ShutdownCompletes` makes its exception).
- The comment at `server.cpp:171-173` says that `run_server()` closes the listening
  socket under its workers; it closes it after joining them.
- A thread that cannot be created after others were (`server.cpp:225`) ends the
  process by `std::terminate()`.
- `submit_recv()` throwing in `RecvSink`'s constructor (`uring_recv_stream.cpp:108`)
  leaves the buffer group registered and its memory mapped.
- The fixed file is known by its descriptor: a file that is closed, and another one
  opened with the same number, would be taken for the registered one. The server
  never closes its file while a queue lives.

### Fairness

- The event loop calls `step()` for ever, and `step()` handles everything that is
  ready: weak fairness of polling, submission and dispatch.
- A coroutine that runs, runs on: weak fairness of its steps.
- The kernel completes operations that can complete (weak fairness); sockets of a
  peer that is there take data.
- In `LibcRecvStream` the reader's next call gets strong fairness: a readable
  descriptor makes `on_ready()` run again and again between calls, but the thread
  returns to the reader's coroutine between two polls.
- In `Client` the application keeps calling `wait()`. The resumptions inside it are
  strongly fair, because they are possible only inside `wait()`, and each `step()`
  handles all that is ready.
- In `UringQueue` the wait of `step()` is not interrupted for ever (strong fairness of
  the wake-up that dispatches), and the kernel completes every operation even when
  others keep the completion ring busy (strong fairness per operation).
- In `Server` `io_uring_submit()` does not fail for ever: `accept_loop()`
  gets its entry after some tries.
- In `Server` a worker's `step()` returns within its timeout (weak fairness), and what
  is ready at every call is dispatched at one of them: strong fairness of accept
  events and of the end of connections, because they can be handled only inside
  `step()`. Nothing is assumed of which worker or connection comes first.
- Nothing is assumed of what peers and applications send, when they close, or
  whether a stream is ever cancelled. The server is assumed to answer whole
  requests in `Client`'s liveness only.

## 4. Proofs

Every theorem is about the `Spec` of a component's module, without fairness, and
holds for every value of the constants that the module's `ASSUME` allows. The
assumptions are no more than that sizes are positive, bounds are natural numbers and
names are distinct (`LibcAssumption`, `UringAssumption`, `FramedAssumption`,
`QueueAssumption`, `UringQueueAssumption`, `SessionAssumption`, `ClientAssumption`,
`ServerAssumption`); TLC evaluates them in the runs.

All proofs have one shape. The properties are not inductive; each module defines
`IInv` (in `ClientProofs` and `SessionProofs` several layers, each proved from the
ones before it), TLC has checked it on the run's bounds, there is one lemma per
action (`<Action>Inv`), they are combined over `Next`, and each theorem follows from
`IInv`. Conjuncts that several actions leave alone for the same reason are handled by
a lemma on that reason ("an operation of another descriptor ends", "the call's own
data stays"). A few elementary lemmas on queues are stated in each module that needs
them, so that every component's proofs can be read and checked alone. What an invariant adds is the argument why the code is right:

- **`LibcRecvStreamProofs`** (`TypeCorrect`, `LiveIntactHolds`, `NoLostWakeupHolds`,
  `EndAfterDataHolds`, `ImplementsContract`, `OneBatchSize`). `RingInv`: the chunks of `held` and `pending` lie, one after
  the other, in the slots just before `_write_idx`, and together they are at most
  `Entries`. This is why `_return_checked_out()` may merely reset a counter: the slots
  it frees are those right before the queued ones, so the room check keeps the write
  index off them. `ContentInv`: consecutive chunks carry consecutive bytes, `held` ends
  at `delivered`, `pending` begins there. `WaitInv`: a suspended reader has no slot
  checked out, is registered, and outside `on_ready()` everything was told. `OverInv`: a
  reader that was told of the end left nothing pending, and there is an end or an error,
  so that nothing is received any more. With these,
  each step maps to a step of `RecvStream` or a stutter (the witness for
  `ReturnBatch` is built from the running totals of the batch loop). `OneBatchSize` is
  about that loop in both backends: for every non-empty queue of chunks it stops after
  exactly one number of chunks, at least one. The total is a recursive function;
  induction over its argument is by least counterexample (`LeastOf`), since the
  induction theorems of the library cannot be instantiated here.
- **`UringRecvStreamProofs`** (`TypeCorrect`, `SinkSafeHolds`, `WaiterHasOpHolds`,
  `BuffersConservedHolds`, `EndAfterDataHolds`, `ImplementsContract`, in both receive modes). The layers:
  where the one operation is (queued, in the kernel, ended with its last completion
  due) and that `_live` says so; where each buffer is; which bytes the completions
  and the pending chunks carry. The refinement uses all three; so does
  `EndAfterData`: once there is an end or an error no operation and no completion is
  left, so the pending chunks were all there was.
- **`FramedReaderProofs`** (`TypeCorrect`, `ReadsExactHolds`), over *every* stream that
  keeps the contract. `HeldInv`: the chunks of a batch follow each other up to what was
  delivered, and none begins beyond what the call asked for, so only the last one can
  overshoot. `IntoInv`: as long as `dest` is not full, nothing is left in `_buf`; this is
  why `read_exact_into()` may replace `_buf` by the overshoot. That the last chunk
  is the furthest is again by least counterexample.
- **`LibcQueueProofs`** (`TypeCorrect`, `NoDanglingHolds`, `NoOrphanHolds`), for every set
  of descriptors and number of objects. `CallInv`: while an accept's `on_ready()` runs,
  it is either still registered under the generation `step()` noted, and then no accept
  waits, or a later one is; and the send whose `on_ready()` runs is still the front of
  its queue. This is what the comparison of `read_op_gen` and of the front's address
  rely on when addresses are reused. `WriteInv`: a write queue holds the sends that wait
  on its descriptor, each once. `CancelInv`: what `cancel_fd()` has copied is not in the
  map again, and is sends alone once a coroutine runs, so that nothing the coroutines
  destroy is in it. The entries `~Queue()` has begun to cancel are excluded throughout
  (`ReadTrusted`, `WriteTrusted`); what happens to them is `LibcQueueDtor`'s finding.
- **`SessionProofs`** (`TypeCorrect`, `MutexCorrectHolds`, `TeardownSafeHolds`,
  `FramesWholeHolds`, `FinishedAnsweredHolds`, `AcknowledgedStoredHolds`), for every
  number of requests and size of a response. The control part says who is on the stack
  of resumptions, that the lock's owner is the one handler sending and that the wait
  group counts the handlers alive. The wire part says that the units of a response are
  consecutive, that the last response is whole, the owner's beginning, or one whose send
  threw, and that the owner continues where it stopped. The file part says that a handler
  past its I/O has the result its operation completed with, and what `stored` is then.
- **`ClientProofs`** (`TypeCorrect`, `CallbackOnceHolds`, `BodyHasTargetHolds`,
  `RequestsWholeHolds`), for every number and length of requests. The same two parts,
  with `cut` in the place of `threw` and `OnceInv`: a request is in `_pending`, in the copy `fail_all_pending()` iterates,
  or its callback was invoked.
- **`ServerProofs`** (`TypeCorrect`, `NeverStopsAccepting`, `OutlivesWorkers`), for every
  number of workers. What a worker's program counter implies of its accept, and what
  `run_server()`'s implies of the workers.
- **`UringQueueProofs`** (`TypeCorrect`, `RefersToSameHolds`, `OneCompletionHolds`), for
  every ring size and every set of addresses, files and group ids. What makes it safe to
  send raw addresses through the kernel is that exactly one *token* exists for each
  object that expects a completion: its operation in the submission queue, its operation
  in the kernel, or its last completion in the completion queue. `OneCompletion` alone is
  not inductive, because a multishot operation also leaves completions that are not the
  last one: `MoreFollows` says that such a completion is always ahead of its token, so
  the object cannot be freed and its address reused before it is dispatched. `AllMeant`
  says that whatever refers to an address was made by the object now there,
  `AtMostOne` and `AtLeastOne` count the tokens. These four are stated of explicit rings
  (`Sound`), not of the variables, because `io_uring_submit()` takes the queued entries
  one by one and each may complete or cancel something at once: `ConsumeSound` shows that
  taking one entry keeps them, and `SubmittedSound` carries this over the whole queue,
  by least counterexample over the number of entries taken. `OwnGroups` adds that two
  streams alive never share a buffer group. All of it is said until the queue is
  destroyed or the process terminated (`Over`), as the two properties are.

Only model-checked:

- the liveness properties (`EverythingDelivered`, `EveryByteDelivered`, `OrphanFreed`,
  `ReadCompletes`, `HandlersEnd`, `ConnectionCloses`, `PendingFires`, `Resumed`,
  `ShutdownCompletes`, `ConnectionsServed`): fairness is outside this prover.

Every invariant and both refinements that a passing run checks are also proved; so are
the type invariants of `FramedReader` and `LibcQueue`, which no run checks.

## 5. Plan

Done: the streams, the contract and the refinements, the framed reader, the
session, the client from its constructor on, both queues, the server; proofs of every
invariant the runs check and of both refinements.

Considered and left out: a composition of `Client` and `Session` over one
connection, against an abstract block service. Each side is checked against every
behaviour of the other that the protocol allows (`Session`'s client sends any
requests and may stop anywhere, `Client`'s server answers whole requests in any
order, breaks off, or sends garbage, and loses track after a request that was cut), and `FramesWhole` and `RequestsWhole` are what
each side relies on from the other.

Not modelled: the C shim, `AlignedBuffer`, command-line parsing, benchmarks and
packaging (no state or pure I/O), field layout and byte order of the protocol (the
two ends are built from one header).

## 6. Running

    tlc -config LibcRecvStream.cfg LibcRecvStream
    tlc -config Session.cfg MCSession             # and so on, see PROJECT.json
    tlapm LibcRecvStreamProofs.tla                # and the other *Proofs modules

`PROJECT.json` maps every definition to the lines it models and gives for every
property a mutation of the model (a plausible slip in the code, e.g. a dropped
guard) under which TLC finds the property violated.
