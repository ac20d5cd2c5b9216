# Verification of cruller's engine/host boundary

cruller splits a JavaScript server runtime (a reduced Bun) into an **engine**, which
runs JavaScript, and a **host**, which owns files, sockets and the HTTP thread.
The two talk only through two command channels and a pool of reference-counted
buffers (`src/src/rt`).  This directory models that boundary, the host
behind it, the HTTP thread the host drives and, below all of them, the event
loop's sockets (`src/packages/bun-usockets`) and the DNS cache, in TLA+; checks the
models with TLC; and proves with TLAPS, for all parameter values, what the boundary, the
host, the HTTP thread and the connects by name promise in every state.

## The system

### Components, state, operations

| Component (source) | State | Operations |
| --- | --- | --- |
| Data pool (`rt/direct.zig`, `DataPool`) | array of slots: storage, 32-bit generation, 32-bit count; one mutex | `allocate`, `map`, `retain`, `release` (`getSlot` checks the generation) |
| Command channel (`rt/direct.zig`, `CommandChannel`) | array and read index, a waker; one mutex | `send` (calls the waker after the unlock), `receive`, `setWaker` |
| VM bridge (`rt/vm_bridge.zig`) | request counter, handlers by request id | `submit`, `cancel`, `send`, `poll`/`dispatch`, `deinit` |
| Event loop (`jsc/event_loop.zig`) | the loop's wakeup | `tick` (sets the waker, polls at most 256 commands), `autoTick`, `autoTickActive`, `tickPossiblyForever` |
| Host (`rt/direct_host.zig`) | open files by slot and generation, `stopping`, a thread | `run`/`pump`/`dispatch`, `openFile`, `closeResource`, `readResource`, `writeResource`, `deinit` |
| Host HTTP (`rt/host_http.zig`) | running requests by id, under a mutex | `start`, `cancel`, `writeBody`, `endBody`; `Request.callback` on the HTTP thread |
| FetchTasklet (`runtime/webcore/fetch/FetchTasklet.zig`) | reference count, accumulated result, body sink, abort signal | `queue`, `writeRequestData`, `writeEndRequest`, `abortListener`, `onHostMessage`, `acceptResult`, `onProgressUpdate` |
| HTTP thread (`http/HTTPThread.zig`, `http/AsyncHTTP.zig`) | queue, deferred list, lists of shutdowns and writes, count of active requests, abort tracker | `schedule`, `scheduleShutdown`, `scheduleRequestWrite`, `drainEvents`, `onAsyncHTTPCallback` |
| Assembly (`rt/monolith.zig`, `rt/jsc_engine.zig`) | life of engine and host | `init`, `run`, `deinit` |
| Server dispatch and the QuickJS/V8 engines (`rt/server_dispatch.zig`, `rt/quickjs_engine.zig`, `rt/v8_engine.zig`) | engine state, serve loop | `pump`, `dispatchRequest`, shutdown |
| Wire codec (`rt/http_wire.zig`) | none | encode and decode request and response |
| Benchmark harness (`rt/ssr_run.zig`) | a producer, a sink and a pool with a free list | |
| Sockets and groups (`bun-usockets`: `loop.c`, `context.c`, `socket.c`, `crypto/openssl.c`, `eventing/epoll_kqueue.c`) | intrusive lists of sockets per group, of groups per loop, of parked TLS handshakes and of closed sockets; sweep iterators, counters, tick depth | listen, accept, connect, adopt, close, `close_all`, `deinit`, timeouts and `us_internal_timer_sweep`, `us_internal_dispatch_ready_poll`, `us_loop_run_bun_tick` |
| Connects by name (`context.c`, `socket.c`, `loop.c`) | `us_connecting_socket_t` with its attempts, `dns_ready_head` per loop | `us_socket_group_connect`, `after_resolve`, `start_connections`, `after_open`, `us_connecting_socket_close` |
| DNS cache (`runtime/dns_jsc/dns.zig`, `internal`) | requests with result, waiting connects, count; at most 256, one mutex | `getaddrinfo`, `us_getaddrinfo_set`, `us_getaddrinfo_cancel`, `freeaddrinfo`, `afterResult` on a worker |

Everything else in the repository (bindings, resolver, uWS's HTTP, Valkey, foundation
libraries, packages, tests) is inherited from Bun or vendored, and is taken at
its promise where the boundary uses it.

### How they interact

The VM thread calls `Bridge.submit`; the command travels in `engine_to_host` to
the host thread, which executes it and answers in `host_to_engine`.  A fetch is
handed on to the HTTP thread, whose callbacks send to the engine directly, so
`host_to_engine` has two senders.  Its waker writes the event loop's wakeup.
A payload is one owned reference to a pool buffer: it moves with a successful
send and stays with the sender when the send fails (`rt/contract.zig`, `Command`).

The JavaScript thread and the HTTP thread each run one usockets loop.  All of a loop's
sockets belong to its thread and every C function there may call back into user code,
which may call any of them again, so that several of them are at work at once
on one stack.  Only two things cross threads: the DNS cache under its mutex, and
a worker's result, which it puts on the loop's `dns_ready_head` under the
loop's mutex before it wakes the loop.

### What is hard

Five kinds of trouble, each listed with its line under `hazards` in
`PROJECT.json`:

* **Concurrency**: the waker is called outside the lock; `map`'s pointer is used
  outside the lock; the HTTP thread's lists are filled while they are drained;
  a request may be destroyed while the host is about to use it.
* **Partial failure**: any allocation or send may fail half-way through a
  handler, and every reference must still be released exactly once.
* **Identity**: buffers, files and requests are named by numbers that are
  reused (generations that wrap) or not unique (`async_http_id` 0).
* **Re-entrancy**: a callback closes, adopts, opens or frees, or ticks the loop, while
  a walk further down the stack holds a pointer into the same list.
* **Liveness**: sleeping over a queued command, deferred requests that nobody
  starts, aborts of requests that hang, teardown that joins a thread.

What makes each component correct: the pool never frees or recycles what someone owns
and never lets a stale reference through; the channel is a FIFO whose receiver
does not sleep over a command; host and bridge answer each request once and
conserve references and files; a response that is reported as complete is
complete, and every fetch settles; the HTTP thread neither loses, repeats,
reorders nor strands a task, and an abort ends the request it was meant for;
a serving engine answers each request once, in order, until it is shut down.
Whatever callbacks do, a socket is on the one list it belongs on, nothing on the stack
leads to freed memory, and `on_close` comes once; a connect is told its end
once and in the end, and neither the cache's references nor the loop's
keep-alives leak.

## Modules

| Module | Models | Actions and the code |
| --- | --- | --- |
| `DataPool` | `DataPool` and the ownership rule of `contract.zig` | `AllocateReuse`/`AllocateAppend`/`AllocateFails` = `allocate`; `Map`, `Retain`, `Release`; `Transfer` = a successful send or a receive; `Shorten` = a short read; `StaleRelease`/`StaleRetain` = a use of a copy whose buffer is gone |
| `Fifo` | what a `CommandTransport` promises | `Send`, `Receive` |
| `CommandChannel` | `CommandChannel`, `Bridge.poll` and the loop around it | `Send` (to the unlock), `Wake` (after it), `BeginTick`, `PollOne`, `PollEnds`, `AwakeBySignal`, `AwakeByTimer` |
| `HostFiles` | bridge, host thread, file resources, teardown | `BridgeSubmit`, `BridgeCancel`, `BridgePoll`; `HostReceive`, `HostExecute` (one operator per handler), `HostRelease` (a handler's `defer`); `HostDeinit`, `HostJoined`, `EngineDestroyed` = `Monolith.deinit` |
| `HttpThread` | the HTTP thread's lists, limit and aborts | `schedule`, `scheduleShutdown`, `scheduleRequestWrite` + `Wakeup`; `drainQueuedWrites`, `drainQueuedShutdowns`, `Gate`, `DrainDeferred`, `DrainQueued` = `drainEvents`; `NetworkResult`, `resolveH2Waiter` |
| `HostHttp` | a fetch over the VM, host and HTTP threads | `queue` ... `onProgressUpdate` = `FetchTasklet`; `start`, `find`, `Use` = `Manager`; `Callback...`, `destroy` = `Request` |
| `EngineServe` | an engine that serves requests, and its host | `load`, `run`, `Evaluated`, `Stop`, `destroy`, `DestroyPoll` = the engine; `pump`, `dispatchRequest`, `DispatchReturns` (its `defer`) = `server_dispatch.zig`; `SendRequest`, `SendShutdown`, `Collect` = the host; `tick` = the event loop, in `JscSpec` only |
| `SocketGroups` | one loop's sockets and groups, pointer by pointer, with its C stack | `us_socket_close`, `us_socket_adopt`, `us_socket_timeout`, ... = calls by user code; `DispatchSocket`, `DispatchConnect`, `DispatchListen`, `SweepTimer` = what the kernel reports; `PollGoesOn`, `AcceptGoesOn`, `SslGoesOn`, `SemiGoesOn`, `CloseAllGoesOn`, `SweepGoesOn`, `Return` = a C function goes on after a callback; `BeginTick`, `EndTick` |
| `Connecting` | connects by name, their attempts, the DNS cache and its workers | `Connect`, `Prefetch`, `CloseConnect`, `us_socket_group_close_all` = calls; `...GoesOn` as above; `BeginTick`, `DrainGoesOn`, `PollReturns`, `DispatchAttempt`, `EndDispatch`, `EndTick` = a tick; `AfterResult`, `NotifyThreadsafe`, `us_wakeup_loop` = a worker |
| `DataPoolProofs`, `CommandChannelProofs`, `HostFilesProofs`, `HttpThreadProofs`, `HostHttpProofs`, `EngineServeProofs`, `ConnectingProofs`, `SocketGroupsProofs` | theorems and proofs about the module each is named for | |
| `MC...` | instances for TLC | |

The layers build on one another.  `DataPool` shows that a slot's count is the
number of its owners and that references do not alias; `HostFiles` and
`HostHttp` therefore use a count per named buffer, or a set of live buffers.
`CommandChannel` is shown to implement `Fifo`; the upper modules use queues.
`HttpThread` shows what becomes of a scheduled request; `HostHttp` lets the
client behind a started request deliver anything within its promise.

Abstractions.  Payload bytes, paths, headers and status codes are left out; a
payload is a buffer and a length (0 or 1 where only emptiness matters).  In
`DataPool` `u32` is `1..MaxU32` (wrap past zero to one, as in the code), and
each slot carries a history counter `life` that tells the lives of a slot apart
when generations repeat.  The bounds `StaleWindow < MaxU32` says how long a copy
of a reference is used after its buffer is gone: past a whole lap of the generations
the code itself cannot tell lives apart, which `AliasNeedsFullWrap` states.
A mutex-protected method is one step; what a method does after its unlock
(the waker's call, the use of a looked-up request) is a step of its own.
In `HttpThread` a drain that swaps a list out and repeats until it is empty takes
entries one by one; the memory order of the list's atomics is not modelled.
In `HostHttp` and `HostFiles` the engine-side client of file commands, which the
repository does not have yet, is any client that follows the bridge's contract.
The `.shutdown` and wrong-direction commands of `Host.dispatch` are sent by no
code of the monolith and are left out.
In `EngineServe` the host is that of `ssr_run.zig`, but with queues of its own and
free to send before and while the engine runs; an evaluated source fails,
defines the handler or does not.  `Engine.poll` and `Engine.interrupt` have no
caller and are left out.

`SocketGroups` keeps `prev`, `next`, heads and iterators as functions of addresses
and translates each pointer assignment, because the order of these assignments is
what can be wrong.  A freed address is not reused, so that `NothingDangles` can
tell.  A C function that calls back leaves a frame with its local variables on
`stack`; user code runs while a `user` frame is on top.  TLS is a
handshake that is not done, done or failed, and a close that may be put off.
A loop starts with the sockets of `Accepted`.  `Chain` is the set of nodes that a list leads
to, the least set closed under `next`, so that walks to the end of a list (freeing, seeking a
timeout) need no recursion.  Frames of a `close_all` and of a sweep record in `ticked` that user
code ticked the loop under them: such a tick brings parked sockets back to the head of a list, behind
the walk, and what the walk promises at its end then speaks of the others only.  A parked
socket polls for READABLE again once a write by user code is taken in part only
(`us_socket_write`), and may then be parked a second time (`ParkAgain`), because `loop.c:508`
does not ask.  That breaks the lists; what the loop does with them is not modelled, and no step follows
(`ParkedTwice`).  User code is trusted with what the code
assumes of it: it does not use a group it has freed or is closing, does not free a group
that is not empty or being swept, ticks the loop only from within a tick, and does not
keep a tick nested in a timeout callback until the next sweep.  In
`Connecting` each loop has one group, an attempt is the index of its address,
and user code neither connects in a group nor ticks the loop under its `close_all`.
What the two modules share (closing an attempt's socket) is in `SocketGroups`
pointer by pointer and one assignment in `Connecting`.

## Runs

| Run | Instance | Checks |
| --- | --- | --- |
| `data_pool` | 3 owners (symmetric), 2 slots, `MaxU32 = 2`, 3 reuses, lengths 0, 2 and 3 | `TypeOK`, `RefsCountOwners`, `MappedStorageLive`, `AliasNeedsFullWrap`, `OnlyOwnersChangeSlots` |
| `command_channel` | 2 senders, 2 commands each, batch 2 | `NoLostWakeup`, `FifoSpec` (refinement), `EventuallyReceived` |
| `host_files` | 3 requests, 1 cancel, 2 resource slots, generations 1..2 | `OwnershipConserved`, `HandlersAreAnswered`, `ResourceIdsKeepTheirFile`, `OpenFilesAreReachable`, `TeardownIsClean`, `TeardownEnds` |
| `http_thread` | 3 requests, the first without an abort signal, 1 slot; the second may be aborted and has a streamed body; servers may hang | `EachTaskInOnePlace`, `AbortSettles`, `EventuallySettled` |
| `http_thread_host` | 2 requests without abort signals, streamed bodies, both abortable, 1 slot | `HostRequestsAreHeard` (expected to fail) |
| `host_http` | 1 fetch, 2 body chunks each way, 3 failures | `BuffersAreCarried`, `TaskletRefsExact`, `ResponseIsWhole`, `FetchSettles` |
| `socket_groups` | 4 sockets: 2 accepted, TLS, both parked, 1 TLS and 1 plain to be opened; 2 groups; a wheel of 3 ticks; a budget of 1 handshake; 2 calls by user code, 2 ticks, 2 events | `ListsAreExact`, `CountsAreExact`, `NothingDangles`, `FreedGroupsAreForgotten`, `EachCloseIsTold`, `SweepLeavesNoneDue`, `CloseAllLeavesNoSocket` |
| `socket_groups_parked` | three TLS sockets of a group, all parked | `CloseAllDrainsTheQueue` (expected to fail) |
| `connecting` | 1 loop, 2 connects, 2 requests, 2 names of at most 2 addresses, 2 attempts at once, a cache of 1 entry, 3 calls | `EachResultComesOnce`, `RefcountsAreExact`, `KeepAliveBalanced`, `OneOutcome`, `ResultsWakeTheLoop`, `CloseAllLeavesNoConnect`, `EventuallySettled` |
| `engine_serve` | 3 requests, a shutdown, 2 failures | `RequestsAreAnswered`, `AnswersInOrder`, `PayloadsConserved`, `ShutdownStops` |

Why the bounds are enough.  Two generations make wrap and alias happen within two
reuses; a count limit of two makes `retain` fail with three owners.  With
a batch of two a backlog may just fit, and one of three is cut off.
Three file requests suffice to open, close or lose a file (the completion of an open may
fail to be sent, which closes it again), reopen the slot with the generation come
round, and use the outdated id.
With one slot and three requests, tasks are deferred behind deferred ones; the one that
may be aborted is then waiting before or behind another, running or finished.  With all
three abortable `EachTaskInOnePlace` holds as well, and with two requests, both abortable
and streaming, the liveness ones.
Two failures lose a chunk and the report of the loss; the third one is spare.
Three requests to a serving engine put one at work, one before and one behind
the shutdown.
Two calls by user code within two ticks put a close, an adoption or a freed group into
the middle of a sweep, a dispatch, an accept loop or a `close_all`, at the current,
the next and the last socket of a list of two or three; all timeouts of the instance
expire at the first sweep, which finds both sockets on the list if it comes in the second tick.  With a third accepted socket, plain, all properties hold as well.
A cache of one entry is full, nearly full and evicting at once, and two
connects are closed, opened and drained in every order; with two loops and two calls
the safety properties hold as well.
Fetches meet only in the two queues and on the two single threads, so one
fetch shows what its own messages can do to it; the interplay of several requests is
`HttpThread`'s.

`EventuallySettled` of `HttpThread` also holds without the wakeup that
`onAsyncHTTPCallback` writes when tasks are waiting: the thread drains its lists after every
tick, and within `drainEvents` no slot is freed after a task was deferred.

Every module states its types as `TypeOK`; it holds on the instances above.  The
run of `DataPool` checks it as well, where it carries the wrap of the generations,
and where a module has proofs it is proved; the other runs
spend their time on the properties that relate several pieces of state.

`CHECK_DEADLOCK FALSE` is set where the program may legitimately come to rest:
all requests of the bound are done, or the runtime has been torn down.

### Disagreements between code and text

Four runs are expected to fail; the `findings` of `PROJECT.json` quote the texts.

* `host_files_eof`: a read at the end of a file is answered with a payload of
  length 0 that still names the buffer.  Receivers release only payloads that
  are not empty, so the buffer stays allocated until the pool is freed.
  `OwnershipConserved`, in the passing run, shows that this is the only way a
  reference is lost (`dropped` records it).
* `http_thread_host`: `host_http.zig` creates its requests without an abort signal.  They all have
  `async_http_id` 0 and are not in the abort tracker, so neither the end of a streamed body
  nor an abort finds a request on a socket.  `HostRequestsAreHeard` asks less than either text
  does, that a request of which both have been handed to the HTTP thread hears of one, and the trace
  shows both taken from their lists with nobody found: it refutes that ends of bodies arrive and
  that aborts settle.  For the same reason an abort may hit another request's HTTP/3 stream or
  HTTP/2 waiter.  `AbortSettles`, in the passing run, speaks of the requests made with signals
  (`Signalled`) only; the host makes none.
* `engine_serve_jsc`: the JSC engine loads its source under the event loop, every
  tick of which calls `Bridge.poll` on the channel that also carries server
  requests.  A request (or the shutdown) that is there before the handler has been
  looked up is dispatched to no handler and dropped; with QuickJS and V8 it waits
  for the dispatcher, as `engine_serve` shows.
* `socket_groups_parked`: `close_all` walks the queue of parked handshakes with a cached
  successor, and the comment says that it survives the close.  It does not when
  the `on_close` of a socket closes the next one: that is then on the closed list,
  the walk ends there, and the assertion behind it (`CloseAllDrainsTheQueue`) fails.

One more is a state the passing run `socket_groups` reaches.  `libusockets.h:276` has a group count
the "sockets currently parked".  After a short write on a parked socket, the tick that
finds it readable with the budget spent parks it again (`loop.c:508-533`): it counts twice, its links
are overwritten and sockets are lost from the queue.  TLC gets there in 5 states.  The
properties of `SocketGroups` and their theorems therefore claim nothing once a parked socket has been
parked again (`~ParkedTwice => ...`); everything before it, writes on parked
sockets included, is covered.

`PayloadsConserved` records, like `OwnershipConserved`, the one exception the code makes:
an empty output of the handler is sent in a buffer that nobody releases.

## Fairness

* `CommandChannel!ThreadSpec`: the VM thread goes on while it is not asleep, and a sender
  that has unlocked calls the waker.  The premise of `EventuallyReceived` adds, for
  behaviours in which the batch limit cuts a poll off, that the sleep ends in the
  end without a wakeup: the repeating timer of `GarbageCollectionController` is
  armed unless `BUN_GC_TIMER_DISABLE` is set.  Otherwise the waker has to do.
* `HostFiles!FairSpec`: bridge, host thread and teardown go on.  The client need
  not submit anything and `run` need not return.
* `HttpThread!ThreadSpec`: the HTTP thread goes on, and a thread that has pushed an
  entry writes the wakeup.  Nothing is assumed of the network, except in the premise
  of `EventuallySettled`, strong fairness of `NetworkResult`: the client's idle
  timeout ends a running request if the loop comes to its tick again and again.
* `EngineServe!FairSpec`: the engine's thread goes on (evaluation and calls end, the QuickJS
  and V8 wrappers limiting their time) and the host collects responses; it need
  not send, load or destroy anything.
* `Connecting!FairSpec`: each loop's thread goes on (callbacks return, the loop is
  ticked again), workers resolve or fail and notify, the kernel settles attempts.  There
  are finitely many requests and attempts, so one conjunct for all of each kind is enough.
  A poll ends for a wakeup, a settled attempt or the sweep timer, which is armed
  while the group has a connect or a socket; user code need not do anything.
* `HostHttp!FairSpec`: the three threads go on, and a running client ends, as above.

## Proofs

`DataPoolProofs` (for any finite set of owners, any `MaxU32 > 0`, any number of
slots, lives and lengths, and `StaleWindow < MaxU32`):

* `Invariance`: `Spec => []IInv`, with
  `IInv = TypeOK /\ RefsCountOwners /\ OwnersResolve /\ GenerationCountsLives /\ WindowsFit`.
  `RefsCountOwners` is not inductive alone: `release` through a stale copy would
  decrement another owner's count if the generation check let it through.  It
  does not, because generations number lives (`Laps`: a life is a whole number of
  laps of `1..MaxU32` plus the generation), so two lives less than `MaxU32` apart
  have different generations (`LapsApart`, `StaleIsTurnedAway`).  `OwnersResolve`
  ties an owner to the current life, `WindowsFit` a pointer to its owner.
* `TypeCorrect`, `CountsAreExact`, `PointersStayGood`, `NoEarlyAlias`,
  `StaleUsesAreHarmless` follow from it.

`CommandChannelProofs` (for any senders, bound and batch size):

* `WakeupInvariance`: `Spec => []Inv`: types, the waker is registered whenever
  the loop is past its first `tick`, and `NoLostWakeup`, which needs it.
* `WakeupsAreNotLost`: the VM thread does not sleep over a command unless a
  wakeup is written or about to be, or the batch limit cut the poll off.
* `ChannelIsFifo`: `Spec => FifoSpec`, refinement with
  `pending <- SubSeq(queue, read_index + 1, Len(queue))`, from lemmas on what
  `Append`, advancing the index and the reset do to the unread part.

The modules above them are proved in layers: each layer is an invariant of its own, kept
by every step in states that satisfy the layers before it, so that no proof carries
more than it needs.  A layer is stated as a predicate of the queues and tables it speaks of;
one lemma says what taking the head of a queue or appending to it does to that predicate,
and the proof of an action cites it.

`HostFilesProofs` (any number of requests, cancellations and resource slots, any width
of a slot's generation):

* `CleanTeardown` from `TeardownInv`, the stages of `Monolith.deinit` and who
  still runs in each.
* `OwnershipIsConserved` from `OwnersInv`: the count equation alone is not inductive, since it
  would allow two messages to carry one buffer; `OwnersInv` says a buffer is in at most one
  place, and that a buffer's number is not taken before its request is made.
* `HandlersAnswered` from `HandlersInv`: a handler that has been called is gone, so that it is
  not called again, and a request that has not been made has none.
* `FilesReachable` from `OrderInv` and `FilesInv`: when the host opens a file, the handler
  that will learn its id is still registered, because neither a cancel nor an earlier answer
  overtakes the submit.  The least message of a queue is needed here (`Least`).
* `IdsKeepTheirFile` from `IdsInv`: until a slot's generation has gone round it counts the slot's
  closes, and an id that was told, or is about to be, is older than the slot's or is the
  slot's own with its file open.
* `TypeCorrect`: counts never become negative.

`HostHttpProofs` (any number of fetches, chunks each way and failures):

* `TaskletReferences` from `RefsInv`: the reference count is 1 for the tasklet, 1 for its
  handler, 1 for its sink, and what has been finalised has no handler left.
* `BuffersCarried` from `BuffersInv`: no two messages carry one buffer, and the buffer about to
  be allocated (a chunk's number, the headers) is carried by none.
* `WholeResponses` from `LifeInv` and `WholeInv`.  `ResponseIsWhole` speaks only of responses
  that have ended.  The invariant says what is still to come of one that has not:
  the chunks accepted are the first ones, those in the channel ascend, and a chunk or a good
  end is preceded there by every earlier chunk not accepted yet (a good end by the headers,
  too) or by a bad end, unless the report of a failure was lost.  `LifeInv` adds that a client is started once
  and says nothing after its last callback.
* `TypeCorrect`.

`EngineServeProofs` (any number of requests and failures):

* `ResponsesInOrder` from `OrderInv`: what is queued behind a request is later, and what has been
  answered is earlier than the one at work.
* `PayloadsAreConserved` from `OwnersInv`; `AllRequestsAnswered` from `WaitInv`.
* The first two hold of `JscSpec` as well and are stated for both; the last one does not
  (`engine_serve_jsc`).  `TypeCorrect`.

`HttpThreadProofs` (any number of requests and slots; any sets `Signalled`, `Streaming`
and `Abortable`):

* `TasksInOnePlace` from `PlaceInv` and `TurnInv`.  That nothing overtakes is not inductive: a
  task may only be started from a list if those put back before it are none.  They are:
  within a walk no slot is freed, so one that was put back means that every slot is taken
  (`SlotsTaken`, which needs the cardinality of `active`).
* `TypeCorrect`.

`ConnectingProofs` (any finite sets of loops and connects; any requests, names, addresses
and bounds): `AlwaysSound` is `Spec => []Inv`, and `Inv` has six layers.

* `Typed` says what memory and the stacks hold; `StacksOK` which C frames may be above which:
  a tick begins on an empty stack or under another tick, nothing is called under the first half of
  a connect, and no connect is in two drains.
* `CoreOK` relates the connects to the requests.  `RefcountsAreExact` alone
  would let a request be freed under a connect that still waits for its result, or a result come twice: the
  invariant also says where a waiting connect is (`WaitInv`), which of its
  states a connect may be in (`ConnInv`), and what the frames on the stacks lead to (`LeadInv`).
  Frames are seen through `View`, the sets of connects and requests they hold on to, so that a step
  that pushes or pops a frame is a step on sets.
* `GroupsOK` is the groups' lists.  A `close_all` walks with a cached successor while callbacks
  close others, so its next connect may be one that has been taken off the list, or freed only later.  Reachability
  would need recursion; instead the lists are in the order of a `rank` (new connects get
  a greater one), and a set `G` of what the walk may still get to, closed under
  `np`, holds nothing freed and every connect that was not told its end (`Walkable`).
* `KeepOK` counts the keep-alives, `WakesOK` has a wakeup for each result that a worker queued.

`Spec_RefcountsAreExact`, `Spec_KeepAliveBalanced`, `Spec_OneOutcome`, `Spec_ResultsWakeTheLoop`,
`Spec_EachResultComesOnce` (no two places by `StacksOK` and `WaitInv`) and the action property
`Spec_CloseAllLeavesNoConnect` (from `Walkable` at the end of the walk) follow.

`SocketGroupsProofs` (any finite sets of sockets and groups; any wheel, budget and bounds;
any sockets accepted before the first tick): `Invariance` is `Spec => []IInv`,
where `IInv` says, unless a parked socket has just been parked again, of the heap and of the stack, for a set `Z` of sockets whose `on_close` is running:

* `World`: the lists.  That a list runs through exactly its sockets is a statement about reachability,
  which neither a step nor an SMT solver handles.  `Listed` says it node by node instead:
  neighbours point at each other and belong to the same list, a node without predecessor
  is the head, and a rank descends along `next`, so that there is no cycle.  It holds for all
  lists at once (groups' lists and the low-priority queue share `next` and `prev`), and
  `ListedBothWays` gets `ListsAreExact` back from it by the least node that the head does not
  reach.  The closed list, which is linked one way, has the same ranks (`Single`).
* Counters are cardinalities of the sets that are on the lists (`Counts`), a sweep's iterator
  is null or on its group's list (`Cursors`), a freed group is not linked (`LoopOK`), and what
  an adoption left behind leads to its new address (`LinksOK`), which `NothingDangles` needs of a
  dispatch that follows its socket.
* `StackOK`: what each frame still holds is not freed, `Z` is exactly the sockets of the `close`
  frames, each in one, and the frame at the bottom is the outermost tick.  So when that tick
  ends nothing is being closed and no frame is left that could hold what is freed.

One lemma for each C function says what it does to `World` (linking, unlinking, parking, the two
kinds of adoption, closing, freeing), one for each action that `IInv` is kept.  `ExactLists`,
`ExactCounts`, `NoDanglingPointer`, `NoFreedGroup`, `OneClose` and `TypeCorrectness` follow.

The action property `CloseAllLeavesNoSocket` (`CloseAllEmpties`) needs `Fines` on top of `IInv`: the
group of a `close_all` on the stack has no listener, and once the walk has come to the queue an empty list too,
unless a tick was nested under it.  No C function but those that put a socket on the group they are called
for changes a null head (`KeepsAll`, `Keeps`), and a group that is being closed is called for by nobody: user code
keeps off it (`Usable`), and its listener, which could accept into it, was closed first.

The constants' assumptions are the named `ASSUME`s of the modules; TLC evaluates
them in the runs.  Each invariant of a layer was checked with TLC on the instances of the
runs before it was proved.  Only model-checked: all liveness properties (`EventuallyReceived`,
`TeardownEnds`, `AbortSettles`, `EventuallySettled`, `FetchSettles`, `ShutdownStops`), since fairness
is outside the prover's reach; of `Connecting` the bounds in `TypeOK` (the size of the cache, the attempts
at once); of `SocketGroups` the action property `SweepLeavesNoneDue`, which needs the order of the list on both
sides of the sweep's iterator.

## Not modelled

* Use of a `Request` after it was destroyed (`host_http.zig:33`): the model
  shows the window between `find` and `Use`, not its effect on memory.
* Teardown while requests are running on the HTTP thread.
* `HTTPThread`'s requests to drain response bodies, proxy tunnels, keep-alive pools.
* How `FetchTasklet` merges results for JavaScript (`acceptResult`'s buffers,
  `onBodyReceived`, promise and stream), and its path when the VM is shutting down.
* How the JavaScript engines load and run a source, the wire codec, and the pool,
  vectors and measurements of the benchmark harness.
* An engine that serves requests and submits its own at once.
* Of usockets: QUIC, UDP, IPC, bytes and TLS records, pause, resume and shutdown, the
  kqueue and libuv variants, `us_loop_close_all_groups`.  What becomes of
  the lists after a parked socket has been parked again.
* Cases the code leaves open and no text of the repository decides, seen while modelling:
  - sockets: a sweep started inside a timeout callback shares its iterators;
    a callback of a close made outside any tick that ticks the loop raises `tick_depth` from 0, so
    that tick frees closed sockets under the close (`loop.c:357`; the model's nested ticks are within ticks);
    `us_loop_close_all_groups` reads `linked` of a group that an `on_close` may have freed
    (`loop.c:153`); long timeouts are minutes modulo 240 (`socket.c:122`; callers clamp,
    `HTTPThread.zig:229`); a timeout that falls due while its socket is parked is found a
    lap later (`loop.c:181`);
  - connects: `close_all` called from `on_connecting_error` returns with that connect still
    linked (`socket.c:228`); one that opened in a tick nested under `close_all` is closed
    again (`context.c:748`); a connect's timeout is a tick of the wheel and is
    copied to attempts made much later (`context.c:639`);
  - DNS cache: a request that a full cache did not take and nobody holds is never freed
    (`dns.zig:1790`); a failed lookup stays a valid entry, since a connect's error is
    only ever `ECONNABORTED` there (`socket.c:248`); a worker may wake the loop of a thread
    that has ended (`loop.c:279`);
  - boundary: `onHostMessage` drops the payload when the bridge is no longer installed
    (`FetchTasklet.zig:1330`); a chunk that cannot be sent pauses a sink nobody
    drains (`:1195`), and an empty one leaks its slot (`:1237`); request ids wrap after 2^64
    (`vm_bridge.zig:29`); `Engine.poll` drops a shutdown (`quickjs_engine.zig:86`).
* Nearly all of the repository's C and C++ by lines: SQLite, llhttp, encoding tables
  and the JavaScriptCore and Node bindings are vendored, generated, or glue between
  two object models whose state is JavaScriptCore's heap.  They have no protocol or
  concurrency of their own that a state machine of useful size would show.

## Plan

In this order; the first four lines and most of the last are done.

1. `DataPool`, `Fifo`, `CommandChannel` with proofs: everything rests on them.
2. `HostFiles`, `HttpThread`, `HostHttp`.
3. `EngineServe`: server dispatch and the serving engines.
4. `SocketGroups` and `Connecting`: the event loop below, and its DNS cache.
5. `FetchResult`: `acceptResult`/`onProgressUpdate`/`onBodyReceived` under the tasklet's mutex,
   with the stale-task race its comments describe.
6. `HttpWire`: offsets and ranges of the codec as operators over small widths,
   decode after encode against a reference, no range outside the message.
7. `Buffers`, an abstract specification of owned buffers that both `DataPool` and
   `ssr_run`'s free-list pool implement (refinement runs, then a proof).
8. Teardown across `HostHttp` and `HostFiles`; serving and submitting at once
   (`EngineServe` with the bridge of `HostFiles`).
9. Proofs: the safety invariants of `HostFiles`, `HttpThread`, `HostHttp`, `EngineServe` and
   `Connecting` and the invariants of `SocketGroups` (done); what a sweep leaves when it is
   done with a group, which needs the part of the list that it has visited.
