------------------------------ MODULE HostFiles ------------------------------
(***************************************************************************)
(* File operations across the engine/host boundary.                        *)
(*                                                                         *)
(*   VM thread    Bridge (rt/vm_bridge.zig): submits commands, keeps a     *)
(*                handler per request, dispatches what comes back          *)
(*   host thread  Host (rt/direct_host.zig): executes commands against a   *)
(*                table of open files and answers each with a completion   *)
(*   teardown     Monolith.deinit (rt/monolith.zig), on the VM thread      *)
(*                                                                         *)
(* The two channels are queues (CommandChannel implements Fifo) and the    *)
(* data pool is a count of owned references per buffer, no buffer being    *)
(* named twice (what DataPool guarantees).  A request has at most one      *)
(* buffer, so request n's buffer is n; likewise the file request n opens   *)
(* is n.  Request 0, buffer 0 and file 0 are none.                         *)
(*                                                                         *)
(* A host handler is three steps, because the VM thread may run between    *)
(* them: receive, execute and answer, and the deferred release.            *)
(***************************************************************************)
EXTENDS Naturals, Sequences, FiniteSets

CONSTANTS
  MaxRequests,    \* bound: requests submitted
  MaxCancels,     \* bound: cancellations sent
  MaxResources,   \* bound: resources.append fails (out of memory) past this
  MaxGeneration   \* maxInt(u32) of a resource slot's generation

ASSUME BoundAssumption ==
  /\ MaxRequests \in Nat /\ MaxCancels \in Nat
  /\ MaxResources \in Nat /\ MaxGeneration \in Nat \ {0}

VARIABLES
  engine,           \* life of the engine, as Monolith sees it
  handlers,         \* Bridge.handlers: requests with a registered handler
  next_request_id,  \* Bridge.next_request_id
  known,            \* resource ids the engine was told, with their file
  delivered,        \* handler calls per request (history)
  cancels,          \* cancellations sent (bounds the model)
  to_host, to_engine, \* the two command channels
  refs,             \* owned references per buffer in the data pool
  resources,        \* Host.resources
  stopping,         \* Host.stopping
  host,             \* where Host.run is
  current,          \* the command Host.dispatch is working on
  unsent,           \* requests whose completion could not be sent (history)
  dropped           \* buffers given up through an empty payload (history)

vmVars == <<engine, handlers, next_request_id, known, delivered, cancels>>
hostVars == <<resources, stopping, host, current>>
vars == <<engine, handlers, next_request_id, known, delivered, cancels,
          to_host, to_engine, refs, resources, stopping, host, current,
          unsent, dropped>>

Request == 1..MaxRequests

-----------------------------------------------------------------------------
(* contract.zig                                                            *)

Operation == {"resource_open", "resource_close", "resource_read",
              "resource_write", "engine_started", "engine_stopped"}

NoPayload == [buffer |-> 0, length |-> 0]
NoResource == [index |-> 0, generation |-> 0]

isEmpty(payload) == payload.length = 0

Payload == [buffer : 0..MaxRequests, length : 0..1]
ResourceId == [index : 0..MaxResources, generation : 0..MaxGeneration]

Command == [kind : {"submit", "completion", "event", "cancel"},
            operation : Operation, request_id : 0..MaxRequests,
            resource_id : ResourceId, ok : BOOLEAN, payload : Payload]

None == [kind |-> "none"]

\* `if (!payload.isEmpty()) data.release(payload)', on the counts.
ReleaseIn(r, payload) ==
  IF isEmpty(payload) THEN r ELSE [r EXCEPT ![payload.buffer] = @ - 1]

\* The buffer an empty payload still names is given up without a release.
DropIn(d, payload) ==
  IF isEmpty(payload) /\ payload.buffer # 0 THEN d \cup {payload.buffer} ELSE d

-----------------------------------------------------------------------------
(* Host.resources                                                          *)

ResourceSlot == [fd : 0..MaxRequests, generation : 1..MaxGeneration,
                 closes : Nat]

\* getResource: the slot rather than null.
getResource(id) ==
  /\ id.index \in DOMAIN resources
  /\ resources[id.index].fd # 0
  /\ resources[id.index].generation = id.generation

\* addResource finds the first slot without a file, or appends one.
FreeIndex ==
  CHOOSE i \in 1..(Len(resources) + 1) :
    /\ i \in DOMAIN resources => resources[i].fd = 0
    /\ \A j \in 1..(i - 1) : resources[j].fd # 0

OpenSlot(fd, generation, closes) ==
  [fd |-> fd, generation |-> generation, closes |-> closes]

WithResource(i, fd) ==
  IF i \in DOMAIN resources
  THEN [resources EXCEPT ![i] = OpenSlot(fd, @.generation, @.closes)]
  ELSE Append(resources, OpenSlot(fd, 1, 0))

\* Mutant of ClosedSlot: the generation does not move.
ClosedSlot_SameGeneration(slot) ==
  [fd |-> 0, closes |-> slot.closes + 1, generation |-> slot.generation]

\* removeResource: close the file and outdate the ids that name it.
ClosedSlot(slot) ==
  [fd |-> 0, closes |-> slot.closes + 1,
   generation |-> IF slot.generation = MaxGeneration THEN 1
                                                     ELSE slot.generation + 1]

WithoutResource(table, i) == [table EXCEPT ![i] = ClosedSlot(@)]

-----------------------------------------------------------------------------
(* The VM thread: Bridge and the code that uses it.                        *)

Submit(operation, resource, payload) ==
  [kind |-> "submit", operation |-> operation, request_id |-> next_request_id,
   resource_id |-> resource, ok |-> TRUE, payload |-> payload]

\* The payload a client sends along: a path, the bytes to write, room to read.
PayloadOf(operation) ==
  IF operation = "resource_close" THEN NoPayload
  ELSE [buffer |-> next_request_id, length |-> 1]

\* allocateRequestId and Bridge.submit.  When the handler cannot be put or the
\* command cannot be sent, the handler is removed again and the caller, who
\* still owns the payload, releases it.
BridgeSubmit(operation, resource) ==
  /\ engine = "running"
  /\ next_request_id \in Request
  /\ next_request_id' = next_request_id + 1
  /\ LET payload == PayloadOf(operation) IN
       \/ /\ to_host' = Append(to_host, Submit(operation, resource, payload))
          /\ handlers' = handlers \cup {next_request_id}
          /\ refs' = IF isEmpty(payload) THEN refs
                     ELSE [refs EXCEPT ![payload.buffer] = 1]
       \/ UNCHANGED <<to_host, handlers, refs>>
  /\ UNCHANGED <<engine, known, delivered, cancels, to_engine, hostVars,
                 unsent, dropped>>

submitOpen == BridgeSubmit("resource_open", NoResource)

\* Any resource id the engine was ever told, closed or not.
submitOn(operation) ==
  \E k \in known : BridgeSubmit(operation, k.id)

\* Bridge.cancel, for any request made so far.
BridgeCancel ==
  /\ engine = "running"
  /\ cancels < MaxCancels
  /\ cancels' = cancels + 1
  /\ \E id \in 1..(next_request_id - 1), operation \in {"resource_open", "resource_read"} :
       to_host' = Append(to_host,
         [kind |-> "cancel", operation |-> operation, request_id |-> id,
          resource_id |-> NoResource, ok |-> TRUE, payload |-> NoPayload])
  /\ UNCHANGED <<engine, handlers, next_request_id, known, delivered,
                 to_engine, refs, hostVars, unsent, dropped>>

Event(operation) ==
  [kind |-> "event", operation |-> operation, request_id |-> 0,
   resource_id |-> NoResource, ok |-> TRUE, payload |-> NoPayload]

\* JscEngine.run: the engine announces itself, or returns when it cannot.
EngineStarts ==
  /\ engine = "created"
  /\ \/ /\ engine' = "running"
        /\ to_host' = Append(to_host,
             Event("engine_started"))
     \/ engine' = "exited" /\ UNCHANGED to_host
  /\ UNCHANGED <<handlers, next_request_id, known, delivered, cancels,
                 to_engine, refs, hostVars, unsent, dropped>>

\* Mutant of Dispatch: the handler stays registered after its completion.
Dispatch_KeepsHandler(command) ==
  /\ refs' = ReleaseIn(refs, command.payload)
  /\ dropped' = DropIn(dropped, command.payload)
  /\ UNCHANGED <<handlers, known>>
  /\ delivered' = [delivered EXCEPT ![command.request_id] =
                     IF command.request_id \in handlers THEN @ + 1 ELSE @]

\* Bridge.dispatch.  A handler of a file request takes the payload over and is
\* done with its one completion; without a handler the payload is released.
Dispatch(command) ==
  /\ refs' = ReleaseIn(refs, command.payload)
  /\ dropped' = DropIn(dropped, command.payload)
  /\ IF command.request_id \in handlers
     THEN /\ handlers' = handlers \ {command.request_id}
          /\ delivered' = [delivered EXCEPT ![command.request_id] = @ + 1]
          /\ known' = IF command.operation = "resource_open" /\ command.ok
                      THEN known \cup {[id |-> command.resource_id,
                                        file |-> command.request_id]}
                      ELSE known
     ELSE UNCHANGED <<handlers, delivered, known>>

\* One round of Bridge.poll, from the event loop or from Bridge.deinit.
BridgePoll ==
  /\ engine \in {"running", "joined"}
  /\ to_engine # <<>>
  /\ to_engine' = Tail(to_engine)
  /\ Dispatch(Head(to_engine))
  /\ UNCHANGED <<engine, next_request_id, cancels, to_host, hostVars, unsent>>

-----------------------------------------------------------------------------
(* The host thread.                                                        *)

\* Host.run stays in its loop until it sees `stopping', then pumps once more
\* until there is nothing left to receive.
HostReceive ==
  /\ host \in {"loop", "final"}
  /\ current = None
  /\ to_host # <<>>
  /\ current' = Head(to_host)
  /\ to_host' = Tail(to_host)
  /\ UNCHANGED <<vmVars, to_engine, refs, resources, stopping, host, unsent,
                 dropped>>

HostSeesStopping ==
  /\ host = "loop" /\ stopping /\ current = None
  /\ host' = "final"
  /\ UNCHANGED <<vmVars, to_host, to_engine, refs, resources, stopping,
                 current, unsent, dropped>>

\* Mutant of HostReturns: the final pump is left out.
HostReturns_NoDrain ==
  /\ host = "final" /\ current = None
  /\ host' = "stopped"
  /\ UNCHANGED <<vmVars, to_host, to_engine, refs, resources, stopping,
                 current, unsent, dropped>>

HostReturns ==
  /\ host = "final" /\ current = None /\ to_host = <<>>
  /\ host' = "stopped"
  /\ UNCHANGED <<vmVars, to_host, to_engine, refs, resources, stopping,
                 current, unsent, dropped>>

completionWith(command, resource, ok, payload) ==
  [kind |-> "completion", operation |-> command.operation,
   request_id |-> command.request_id, resource_id |-> resource, ok |-> ok,
   payload |-> payload]

completionFor(command) ==
  completionWith(command, command.resource_id, TRUE, NoPayload)

errorFor(command, payload) ==
  completionWith(command, command.resource_id, FALSE, payload)

Sent(completion) ==
  /\ to_engine' = Append(to_engine, completion)
  /\ UNCHANGED <<unsent, dropped>>

\* sendCompletion fails: its payload is released here (on the counts r).
NotSent(completion) ==
  /\ unsent' = unsent \cup {completion.request_id}
  /\ dropped' = DropIn(dropped, completion.payload)
  /\ UNCHANGED to_engine

\* Mutant of Answer: a completion that cannot be sent keeps its payload.
Answer_LeaksUnsent(completion) ==
  /\ Sent(completion) \/ NotSent(completion)
  /\ UNCHANGED refs
  /\ current' = None

\* The handler is through with the command, and so with its payload.
Answer(completion) ==
  /\ \/ Sent(completion) /\ UNCHANGED refs
     \/ NotSent(completion) /\ refs' = ReleaseIn(refs, completion.payload)
  /\ current' = None

\* The handler still has to release the command's payload (a `defer').
Releasing(command) == [command EXCEPT !.kind = "release"]

AnswerAndDefer(completion) ==
  /\ Sent(completion) \/ NotSent(completion)
  /\ current' = Releasing(current)
  /\ UNCHANGED refs

\* A command whose payload is released before the answer.
ReleaseAndAnswer(command, completion) ==
  /\ Sent(completion) \/ NotSent(completion)
  /\ refs' = ReleaseIn(refs, command.payload)
  /\ current' = None

unsupported(command) == ReleaseAndAnswer(command, errorFor(command, NoPayload))

\* Mutant of Opened: the file stays open when its id cannot be told.
Opened_KeepsFile(completion, table, i) ==
  /\ Sent(completion) \/ NotSent(completion)
  /\ resources' = table

\* A new resource is taken back when its completion cannot be sent.
Opened(completion, table, i) ==
  \/ Sent(completion) /\ resources' = table
  \/ NotSent(completion) /\ resources' = WithoutResource(table, i)

\* openFile: not a file; a bad path, no memory or the system's error; or a new
\* resource.
openFile(command) ==
  \/ unsupported(command) /\ UNCHANGED resources
  \/ AnswerAndDefer(errorFor(command, NoPayload)) /\ UNCHANGED resources
  \/ LET i == FreeIndex
         table == WithResource(i, command.request_id)
         id == [index |-> i, generation |-> table[i].generation]
     IN /\ i <= MaxResources
        /\ Opened(completionWith(command, id, TRUE, NoPayload), table, i)
        /\ current' = Releasing(current)
        /\ UNCHANGED refs

closeResource(command) ==
  IF getResource(command.resource_id)
  THEN /\ resources' = WithoutResource(resources, command.resource_id.index)
       /\ ReleaseAndAnswer(command, completionFor(command))
  ELSE /\ ReleaseAndAnswer(command, errorFor(command, NoPayload))
       /\ UNCHANGED resources

\* readResource gives the buffer back to the engine: as it came when the read
\* fails, cut to the bytes read (none at the end of the file) when it succeeds.
readResource(command) ==
  /\ \/ Answer(errorFor(command, command.payload))
     \/ /\ getResource(command.resource_id)
        /\ \E n \in 0..command.payload.length :
             Answer(completionWith(command, command.resource_id, TRUE,
                                   [buffer |-> command.payload.buffer, length |-> n]))
  /\ UNCHANGED resources

writeResource(command) ==
  /\ \/ AnswerAndDefer(errorFor(command, NoPayload))
     \/ /\ getResource(command.resource_id)
        /\ AnswerAndDefer(completionFor(command))
  /\ UNCHANGED resources

\* Host.dispatch
HostExecute ==
  /\ current # None
  /\ \/ /\ current.kind = "submit"
        /\ \/ current.operation = "resource_open" /\ openFile(current)
           \/ current.operation = "resource_close" /\ closeResource(current)
           \/ current.operation = "resource_read" /\ readResource(current)
           \/ current.operation = "resource_write" /\ writeResource(current)
     \/ /\ current.kind = "cancel"
        /\ unsupported(current)
        /\ UNCHANGED resources
     \/ /\ current.kind = "event"
        /\ refs' = ReleaseIn(refs, current.payload)
        /\ current' = None
        /\ UNCHANGED <<to_engine, resources, unsent, dropped>>
  /\ UNCHANGED <<vmVars, to_host, stopping, host>>

\* The deferred release at the end of openFile and writeResource.
HostRelease ==
  /\ current # None
  /\ current.kind = "release"
  /\ refs' = ReleaseIn(refs, current.payload)
  /\ current' = None
  /\ UNCHANGED <<vmVars, to_host, to_engine, resources, stopping, host, unsent,
                 dropped>>

-----------------------------------------------------------------------------
(* Monolith.deinit, after the engine's run has returned.                   *)

\* JscEngine.run returns: the program failed, or the engine takes its leave if
\* it can.
RunReturns ==
  /\ engine = "running"
  /\ engine' = "exited"
  /\ to_host' \in {to_host, Append(to_host, Event("engine_stopped"))}
  /\ UNCHANGED <<handlers, next_request_id, known, delivered, cancels,
                 to_engine, refs, hostVars, unsent, dropped>>

\* Mutant of HostDeinit: the thread is joined without being told to stop.
HostDeinit_NoStop ==
  /\ engine = "exited"
  /\ engine' = "joining"
  /\ UNCHANGED <<handlers, next_request_id, known, delivered, cancels, to_host,
                 to_engine, refs, hostVars, unsent, dropped>>

HostDeinit ==
  /\ engine = "exited"
  /\ engine' = "joining"
  /\ stopping' = TRUE
  /\ UNCHANGED <<handlers, next_request_id, known, delivered, cancels, to_host,
                 to_engine, refs, resources, host, current, unsent, dropped>>

\* thread.join returns; every file still open is closed.
HostJoined ==
  /\ engine = "joining" /\ host = "stopped"
  /\ engine' = "joined"
  /\ resources' = <<>>
  /\ UNCHANGED <<handlers, next_request_id, known, delivered, cancels, to_host,
                 to_engine, refs, stopping, host, current, unsent, dropped>>

\* Bridge.deinit has polled to_engine empty (BridgePoll) and forgets its
\* handlers; then the pool frees what is left in it.
EngineDestroyed ==
  /\ engine = "joined" /\ to_engine = <<>>
  /\ engine' = "destroyed"
  /\ handlers' = {}
  /\ refs' = [b \in Request |-> 0]
  /\ UNCHANGED <<next_request_id, known, delivered, cancels, to_host,
                 to_engine, hostVars, unsent, dropped>>

-----------------------------------------------------------------------------

Init ==
  /\ engine = "created" /\ handlers = {} /\ next_request_id = 1
  /\ known = {} /\ delivered = [r \in Request |-> 0] /\ cancels = 0
  /\ to_host = <<>> /\ to_engine = <<>>
  /\ refs = [b \in Request |-> 0]
  /\ resources = <<>> /\ stopping = FALSE /\ host = "loop" /\ current = None
  /\ unsent = {} /\ dropped = {}

Client ==
  \/ submitOpen
  \/ submitOn("resource_read") \/ submitOn("resource_write")
  \/ submitOn("resource_close")
  \/ BridgeCancel

HostStep ==
  \/ HostReceive \/ HostExecute \/ HostRelease
  \/ HostSeesStopping \/ HostReturns

Teardown == HostDeinit \/ HostJoined \/ EngineDestroyed

Next == EngineStarts \/ Client \/ BridgePoll \/ HostStep \/ RunReturns \/ Teardown

Spec == Init /\ [][Next]_vars

\* Both threads run; the program need neither make requests nor end.
FairSpec ==
  Spec /\ WF_vars(BridgePoll) /\ WF_vars(HostStep) /\ WF_vars(Teardown)

-----------------------------------------------------------------------------
(* Properties.                                                             *)

\* The state is well typed.
TypeOK ==
  /\ engine \in {"created", "running", "exited", "joining", "joined", "destroyed"}
  /\ handlers \subseteq Request
  /\ next_request_id \in 1..(MaxRequests + 1)
  /\ known \subseteq [id : ResourceId, file : Request]
  /\ delivered \in [Request -> Nat] /\ cancels \in 0..MaxCancels
  /\ to_host \in Seq(Command) /\ to_engine \in Seq(Command)
  /\ refs \in [Request -> Nat]
  /\ resources \in Seq(ResourceSlot)
  /\ stopping \in BOOLEAN /\ host \in {"loop", "final", "stopped"}
  /\ unsent \subseteq Request /\ dropped \subseteq Request

Carrying(queue, b) == {i \in DOMAIN queue : queue[i].payload.buffer = b}

\* Places that own a reference to buffer b: messages under way and the command
\* the host is working on.
Carriers(b) ==
  Cardinality(Carrying(to_host, b)) + Cardinality(Carrying(to_engine, b))
  + (IF current # None /\ current.payload.buffer = b THEN 1 ELSE 0)

\* contract.zig: a reference moves with a message and is released once.  On
\* every path of the host and the bridge, failed sends included, a buffer has
\* as many references as there are messages and handlers that carry it; the
\* only other references are those of payloads that became empty on the way.
OwnershipConserved ==
  engine # "destroyed" =>
    \A b \in Request :
      refs[b] = Carriers(b) + (IF b \in dropped THEN 1 ELSE 0)

\* contract.zig, on Command.payload: "A non-empty payload transfers one owned
\* reference when send succeeds. The receiver must release it or transfer it
\* in a later message."  So a buffer that is still allocated is owned by a
\* message with a non-empty payload or by the handler at work.
EveryBufferHasAnOwner ==
  engine # "destroyed" =>
    \A b \in Request : refs[b] > 0 =>
      \/ \E i \in Carrying(to_host, b) : ~isEmpty(to_host[i].payload)
      \/ \E i \in Carrying(to_engine, b) : ~isEmpty(to_engine[i].payload)
      \/ current # None /\ current.payload.buffer = b

Answers(id) == {i \in DOMAIN to_engine :
                  to_engine[i].request_id = id}

Asked(id) == {i \in DOMAIN to_host :
                to_host[i].request_id = id /\ to_host[i].kind = "submit"}

\* Bridge and Host: a registered handler is never orphaned.  Its command is in
\* the channel, with the host, or answered, unless the answer could not be
\* sent; and no handler is called twice, a late answer to a cancellation
\* included.
HandlersAreAnswered ==
  /\ \A id \in Request : delivered[id] <= 1
  /\ engine # "destroyed" =>
       \A id \in handlers :
         \/ Asked(id) # {} \/ Answers(id) # {} \/ id \in unsent
         \/ current # None /\ current.request_id = id /\ current.kind = "submit"

\* Host.getResource: a resource id the engine holds names the file it was
\* given for or nothing; another file only after a whole lap of the slot's
\* generation.
ResourceIdsKeepTheirFile ==
  \A k \in known :
    getResource(k.id) /\ resources[k.id.index].fd # k.file =>
      resources[k.id.index].closes >= MaxGeneration

\* Host.openFile: a file stays open only if the engine can name it: it was told
\* the id or the completion is on its way.
OpenFilesAreReachable ==
  \A i \in DOMAIN resources : resources[i].fd # 0 =>
    LET id == [index |-> i, generation |-> resources[i].generation]
    IN \/ [id |-> id, file |-> resources[i].fd] \in known
       \/ \E m \in DOMAIN to_engine :
            to_engine[m].resource_id = id
            /\ to_engine[m].request_id = resources[i].fd

\* Monolith.deinit: when the pool and the channels are torn down no thread
\* uses them any more, no command is left unprocessed and no file is open.
TeardownIsClean ==
  engine = "destroyed" =>
    /\ host = "stopped" /\ current = None
    /\ to_host = <<>> /\ to_engine = <<>>
    /\ resources = <<>>

\* Monolith.deinit returns: stopping and joining the host cannot hang.
TeardownEnds == engine = "exited" ~> engine = "destroyed"

=============================================================================
