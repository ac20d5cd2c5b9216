----------------------------- MODULE HttpThread -----------------------------
(***************************************************************************)
(* The HTTP thread of http/HTTPThread.zig: how requests are started, held  *)
(* back at the limit of simultaneous requests, aborted and told that their *)
(* streamed body has ended.                                                *)
(*                                                                         *)
(* Other threads (the runtime host, rt/host_http.zig) push requests, abort *)
(* ids and body ids onto shared lists and then write the loop's wakeup;    *)
(* each push is one step and the wakeup another.  The HTTP thread drains   *)
(* the lists (drainEvents), then blocks in the loop's tick until a wakeup  *)
(* or the network ends it.  A drain that swaps a list out and repeats      *)
(* until it finds the list empty is modelled as taking entries one by one. *)
(*                                                                         *)
(* Aborts and body writes name a request by async_http_id, which AsyncHTTP *)
(* makes unique only for a request that was given an abort signal; all     *)
(* others have id 0.  Signalled is the set of requests made with a signal. *)
(* The network and the HTTP client behind a started request are external:  *)
(* a request has a socket ("socket"), an HTTP/3 stream ("h3"), or waits for *)
(* another request's HTTP/2 connect ("h2_waiter"), and ends at will.       *)
(***************************************************************************)
EXTENDS Naturals, Sequences, FiniteSets

CONSTANTS
  N,           \* bound: requests, named in the order they are scheduled
  Signalled,   \* those whose AsyncHTTP was created with signals.aborted
  Streaming,   \* those with is_streaming_request_body
  Max,         \* max_simultaneous_requests
  Abortable    \* bound: those that may be aborted

Request == 1..N

ASSUME RequestAssumption ==
  /\ N \in Nat
  /\ Signalled \subseteq Request /\ Streaming \subseteq Request
  /\ Abortable \subseteq Request
ASSUME MaxAssumption == Max \in Nat \ {0}

VARIABLES
  queued_tasks, deferred_tasks,
  pending,          \* the deferred list drainEvents has swapped out
  active,           \* started and not finished: active_requests_count
  transport,        \* what a started request runs on
  outcome,          \* how a request ended
  ended,            \* requests whose client was told the end of the body
  aborted,          \* signals.aborted, of the requests that have one
  queued_shutdowns, queued_writes,
  has_pending_queued_abort,
  wake,             \* the loop's wakeup is written
  pc,               \* where the HTTP thread is
  caller,           \* where the thread that controls a request is
  shutdown_called, end_called   \* requests aborted, bodies ended (history)

lists == <<queued_tasks, deferred_tasks, pending>>
clients == <<active, transport, outcome, ended>>
callers == <<caller, shutdown_called, end_called>>
vars == <<queued_tasks, deferred_tasks, pending, active, transport, outcome,
          ended, aborted, queued_shutdowns, queued_writes,
          has_pending_queued_abort, wake, pc, caller, shutdown_called,
          end_called>>

\* AsyncHTTP.init: an id of its own only for a request with an abort signal.
async_http_id(r) == IF r \in Signalled THEN r ELSE 0

Id == {async_http_id(r) : r \in Request}

Finished(r) == outcome[r] # "none"

Init ==
  /\ queued_tasks = <<>> /\ deferred_tasks = <<>> /\ pending = <<>>
  /\ active = {} /\ ended = {} /\ aborted = {}
  /\ transport = [r \in Request |-> "none"]
  /\ outcome = [r \in Request |-> "none"]
  /\ queued_shutdowns = <<>> /\ queued_writes = <<>>
  /\ has_pending_queued_abort = FALSE /\ wake = FALSE
  /\ pc = "writes"
  /\ caller = [r \in Request |-> "new"]
  /\ shutdown_called = {} /\ end_called = {}

-----------------------------------------------------------------------------
(* The threads that control requests.                                      *)

\* Mutant of schedule: the thread is not woken.
schedule_NoWake(r) ==
  /\ caller[r] = "new" /\ \A q \in 1..(r - 1) : caller[q] # "new"
  /\ caller' = [caller EXCEPT ![r] = "idle"]
  /\ queued_tasks' = Append(queued_tasks, r)
  /\ UNCHANGED <<deferred_tasks, pending, clients, aborted, queued_shutdowns,
                 queued_writes, has_pending_queued_abort, wake, pc,
                 shutdown_called, end_called>>

\* schedule, up to the wakeup.
schedule(r) ==
  /\ caller[r] = "new" /\ \A q \in 1..(r - 1) : caller[q] # "new"
  /\ caller' = [caller EXCEPT ![r] = "wakeup"]
  /\ queued_tasks' = Append(queued_tasks, r)
  /\ UNCHANGED <<deferred_tasks, pending, clients, aborted, queued_shutdowns,
                 queued_writes, has_pending_queued_abort, wake, pc,
                 shutdown_called, end_called>>

\* The owner of the signal, if there is one, sets it before the shutdown.
Abort(r) ==
  /\ caller[r] = "idle" /\ r \in Abortable \ shutdown_called
  /\ caller' = [caller EXCEPT ![r] = "shutdown"]
  /\ aborted' = IF r \in Signalled THEN aborted \cup {r} ELSE aborted
  /\ UNCHANGED <<lists, clients, queued_shutdowns, queued_writes,
                 has_pending_queued_abort, wake, pc, shutdown_called,
                 end_called>>

\* scheduleShutdown, up to the wakeup.
scheduleShutdown(r) ==
  /\ caller[r] = "shutdown"
  /\ caller' = [caller EXCEPT ![r] = "wakeup"]
  /\ queued_shutdowns' = Append(queued_shutdowns, async_http_id(r))
  /\ shutdown_called' = shutdown_called \cup {r}
  /\ UNCHANGED <<lists, clients, aborted, queued_writes,
                 has_pending_queued_abort, wake, pc, end_called>>

\* scheduleRequestWrite(.end): the body was announced as streamable by a
\* connected request, which may have ended since.
scheduleRequestWrite(r) ==
  /\ caller[r] = "idle" /\ r \in Streaming \ end_called
  /\ transport[r] \in {"socket", "h3"}
  /\ caller' = [caller EXCEPT ![r] = "wakeup"]
  /\ queued_writes' = Append(queued_writes, async_http_id(r))
  /\ end_called' = end_called \cup {r}
  /\ UNCHANGED <<lists, clients, aborted, queued_shutdowns,
                 has_pending_queued_abort, wake, pc, shutdown_called>>

\* The wakeup after any of the three.
Wakeup(r) ==
  /\ caller[r] = "wakeup"
  /\ caller' = [caller EXCEPT ![r] = "idle"]
  /\ wake' = TRUE
  /\ UNCHANGED <<lists, clients, aborted, queued_shutdowns, queued_writes,
                 has_pending_queued_abort, pc, shutdown_called,
                 end_called>>

-----------------------------------------------------------------------------
(* The HTTP thread.                                                        *)

\* onAsyncHTTPCallback, last call: the request gives up its slot, and the loop
\* is woken when there are tasks that could now start.
Finish(r, how, waiting) ==
  /\ active' = active \ {r}
  /\ outcome' = [outcome EXCEPT ![r] = how]
  /\ wake' = (wake \/ (waiting /\ Cardinality(active \ {r}) < Max))
  /\ UNCHANGED <<transport, ended>>

TasksWaiting == queued_tasks # <<>> \/ deferred_tasks # <<>>

\* A request whose socket is in the abort tracker under this id.
Tracked(id) == {r \in active \cap Signalled :
                  transport[r] = "socket" /\ async_http_id(r) = id}

\* Requests of a kind without tracked socket, found by comparing ids.
On(t, id) == {r \in active : transport[r] = t /\ async_http_id(r) = id}

\* What a shutdown finds: the tracker first, then the waiters, then HTTP/3.
ShutdownTargets(id) ==
  IF Tracked(id) # {} THEN Tracked(id)
  ELSE IF On("h2_waiter", id) # {} THEN On("h2_waiter", id)
  ELSE On("h3", id)

\* drainQueuedWrites, one entry: the tracked request, or in every HTTP/3
\* session the first stream with the id.
drainQueuedWrites ==
  /\ pc = "writes"
  /\ IF queued_writes = <<>>
     THEN pc' = "shutdowns" /\ UNCHANGED <<queued_writes, ended>>
     ELSE LET id == Head(queued_writes)
              found == IF Tracked(id) # {} THEN Tracked(id) ELSE On("h3", id)
          IN /\ queued_writes' = Tail(queued_writes)
             /\ \E told \in SUBSET found :
                  /\ found # {} => told # {}
                  /\ ended' = ended \cup (told \cap Streaming)
             /\ UNCHANGED pc
  /\ UNCHANGED <<lists, active, transport, outcome, aborted, queued_shutdowns,
                 has_pending_queued_abort, wake, callers>>

\* drainQueuedShutdowns, one entry.
drainQueuedShutdowns ==
  /\ pc = "shutdowns"
  /\ IF queued_shutdowns = <<>>
     THEN /\ pc' = "gate"
          /\ UNCHANGED <<clients, queued_shutdowns, has_pending_queued_abort, wake>>
     ELSE LET id == Head(queued_shutdowns)
              found == ShutdownTargets(id)
          IN /\ queued_shutdowns' = Tail(queued_shutdowns)
             /\ IF found = {}
                THEN has_pending_queued_abort' = TRUE /\ UNCHANGED <<clients, wake>>
                ELSE /\ \E r \in found : Finish(r, "aborted", TasksWaiting)
                     /\ UNCHANGED has_pending_queued_abort
             /\ UNCHANGED pc
  /\ UNCHANGED <<lists, aborted, queued_writes, callers>>

\* Mutants of Gate: pending aborts are not looked at; the deferred list is not
\* emptied.
Gate_IgnoresAborts ==
  /\ pc = "gate"
  /\ IF Cardinality(active) >= Max
     THEN pc' = "tick" /\ UNCHANGED <<deferred_tasks, pending>>
     ELSE /\ pc' = "deferred"
          /\ pending' = deferred_tasks
          /\ deferred_tasks' = <<>>
  /\ has_pending_queued_abort' = FALSE
  /\ UNCHANGED <<queued_tasks, clients, aborted, queued_shutdowns,
                 queued_writes, wake, callers>>

Gate_KeepsDeferred ==
  /\ pc = "gate"
  /\ pc' = "deferred"
  /\ has_pending_queued_abort' = FALSE
  /\ pending' = deferred_tasks
  /\ UNCHANGED <<queued_tasks, deferred_tasks, clients, aborted,
                 queued_shutdowns, queued_writes, wake, callers>>

\* drainEvents: nothing to walk the lists for, or the deferred list is swapped out.
Gate ==
  /\ pc = "gate"
  /\ IF Cardinality(active) >= Max /\ ~has_pending_queued_abort
     THEN /\ pc' = "tick"
          /\ UNCHANGED <<deferred_tasks, pending, has_pending_queued_abort>>
     ELSE /\ pc' = "deferred"
          /\ has_pending_queued_abort' = FALSE
          /\ pending' = deferred_tasks
          /\ deferred_tasks' = <<>>
  /\ UNCHANGED <<queued_tasks, clients, aborted, queued_shutdowns,
                 queued_writes, wake, callers>>

Transport == {"socket", "h3", "h2_waiter"}

\* startQueuedTask: an aborted request fails at once, a connect may; otherwise
\* the request runs.  `waiting' says whether its failure finds tasks waiting.
startQueuedTask(r, waiting) ==
  \/ r \in aborted /\ Finish(r, "aborted", waiting)
  \/ r \notin aborted /\ Finish(r, "result", waiting)
  \/ /\ r \notin aborted
     /\ active' = active \cup {r}
     /\ \E t \in Transport : transport' = [transport EXCEPT ![r] = t]
     /\ UNCHANGED <<outcome, ended, wake>>

MayStart(r) == r \in aborted \/ Cardinality(active) < Max

\* drainEvents, the loop over the deferred tasks.
DrainDeferred ==
  /\ pc = "deferred"
  /\ IF pending = <<>>
     THEN pc' = "queued" /\ UNCHANGED <<pending, deferred_tasks, clients, wake>>
     ELSE LET r == Head(pending) IN
          /\ pending' = Tail(pending)
          /\ IF MayStart(r)
             THEN startQueuedTask(r, TasksWaiting) /\ UNCHANGED deferred_tasks
             ELSE /\ deferred_tasks' = Append(deferred_tasks, r)
                  /\ UNCHANGED <<clients, wake>>
          /\ UNCHANGED pc
  /\ UNCHANGED <<queued_tasks, aborted, queued_shutdowns, queued_writes,
                 has_pending_queued_abort, callers>>

\* drainEvents, the loop over the queue.
DrainQueued ==
  /\ pc = "queued"
  /\ IF queued_tasks = <<>>
     THEN pc' = "tick" /\ UNCHANGED <<queued_tasks, deferred_tasks, clients, wake>>
     ELSE LET r == Head(queued_tasks) IN
          /\ queued_tasks' = Tail(queued_tasks)
          /\ IF MayStart(r)
             THEN /\ startQueuedTask(r, Tail(queued_tasks) # <<>>
                                        \/ deferred_tasks # <<>>)
                  /\ UNCHANGED deferred_tasks
             ELSE /\ deferred_tasks' = Append(deferred_tasks, r)
                  /\ UNCHANGED <<clients, wake>>
          /\ UNCHANGED pc
  /\ UNCHANGED <<pending, aborted, queued_shutdowns, queued_writes,
                 has_pending_queued_abort, callers>>

\* loop.tick returns, having read the wakeup.
TickByWakeup ==
  /\ pc = "tick" /\ wake
  /\ wake' = FALSE
  /\ pc' = "writes"
  /\ UNCHANGED <<lists, clients, aborted, queued_shutdowns, queued_writes,
                 has_pending_queued_abort, callers>>

\* loop.tick runs the last callback of a request: its response is complete, it
\* failed, it timed out, or its client saw the abort signal on an event.
NetworkResult(r) ==
  /\ pc = "tick" /\ r \in active
  /\ Finish(r, IF r \in aborted THEN "aborted" ELSE "result", TasksWaiting)
  /\ pc' = "writes"
  /\ UNCHANGED <<lists, aborted, queued_shutdowns, queued_writes,
                 has_pending_queued_abort, callers>>

\* loop.tick resolves an HTTP/2 connect: its waiter gets a tracked socket, or
\* fails if it was aborted meanwhile.
resolveH2Waiter(r) ==
  /\ pc = "tick" /\ r \in active /\ transport[r] = "h2_waiter"
  /\ IF r \in aborted THEN Finish(r, "aborted", TasksWaiting)
     ELSE /\ transport' = [transport EXCEPT ![r] = "socket"]
          /\ UNCHANGED <<active, outcome, ended, wake>>
  /\ pc' = "writes"
  /\ UNCHANGED <<lists, aborted, queued_shutdowns, queued_writes,
                 has_pending_queued_abort, callers>>

-----------------------------------------------------------------------------

drainEvents ==
  \/ drainQueuedWrites \/ drainQueuedShutdowns
  \/ Gate \/ DrainDeferred \/ DrainQueued

CallerStep(r) ==
  \/ schedule(r) \/ Abort(r) \/ scheduleShutdown(r)
  \/ scheduleRequestWrite(r) \/ Wakeup(r)

Next ==
  \/ \E r \in Request : CallerStep(r) \/ NetworkResult(r) \/ resolveH2Waiter(r)
  \/ drainEvents \/ TickByWakeup

Spec == Init /\ [][Next]_vars

\* Threads that are running go on running; servers may hang for ever.
ThreadSpec ==
  /\ Spec
  /\ WF_vars(drainEvents \/ TickByWakeup)
  /\ \A r \in Request : WF_vars(scheduleShutdown(r) \/ Wakeup(r))

-----------------------------------------------------------------------------
(* Properties.                                                             *)

\* The state is well typed, and the swapped-out list is empty outside its loop.
TypeOK ==
  /\ pc # "deferred" => pending = <<>>
  /\ \A list \in {queued_tasks, deferred_tasks, pending} :
       list \in Seq(Request)
  /\ active \subseteq Request /\ ended \subseteq Request
  /\ transport \in [Request -> Transport \cup {"none"}]
  /\ outcome \in [Request -> {"none", "result", "aborted"}]
  /\ aborted \subseteq Signalled
  /\ queued_shutdowns \in Seq(Id) /\ queued_writes \in Seq(Id)
  /\ has_pending_queued_abort \in BOOLEAN /\ wake \in BOOLEAN
  /\ pc \in {"writes", "shutdowns", "gate", "deferred", "queued", "tick"}
  /\ caller \in [Request -> {"new", "idle", "shutdown", "wakeup"}]
  /\ shutdown_called \subseteq Request /\ end_called \subseteq Request

Waiting == deferred_tasks \o pending \o queued_tasks

\* drainEvents moves tasks between three lists and starts some.  A scheduled
\* request waits, runs or has finished, and only one of these, so none is lost,
\* started twice or run after its last callback.  "They stay in FIFO order ahead
\* of anything still in queued_tasks": the waiting ones are in the order they
\* were scheduled, and one that was not aborted overtakes none of them.
EachTaskInOnePlace ==
  /\ \A i, j \in DOMAIN Waiting : i < j => Waiting[i] < Waiting[j]
  /\ \A r \in Request : caller[r] # "new" =>
       LET waits == \E i \in DOMAIN Waiting : Waiting[i] = r
           runs  == r \in active
       IN /\ waits => ~runs /\ ~Finished(r)
          /\ ~waits => (runs <=> ~Finished(r))
          /\ ~waits /\ r \notin aborted =>
               \A i \in DOMAIN Waiting : r < Waiting[i]

\* drainEvents on aborts: a fetch made with a signal and aborted settles even
\* when every running request hangs ("if every active request is itself hung,
\* the aborted one never settles and its promise hangs forever" is what it
\* guards against).  What becomes of the others is HostRequestsAreHeard's.
AbortSettles ==
  \A r \in Signalled : r \in shutdown_called ~> Finished(r)

\* README.md, "Outbound fetch requests, including streamed request and response
\* bodies, cross the same command/data boundary", for the requests the runtime
\* host makes: when the end of a request's body and its abort have both been
\* handed to the HTTP thread, the request hears of one of them.  It is less than
\* the promise that the end of a body arrives, and less than the promise that an
\* abort settles: a run that refutes it refutes both.
HostRequestsAreHeard ==
  \A r \in Request :
    r \in end_called /\ r \in shutdown_called ~> r \in ended \/ Finished(r)

\* drainEvents and onAsyncHTTPCallback: if running requests end (the client's
\* idle timeout sees to it), every scheduled request does: deferred tasks get
\* their turn.
EventuallySettled ==
  (\A r \in Request : SF_vars(NetworkResult(r)))
    => \A r \in Request : caller[r] # "new" ~> Finished(r)

=============================================================================
