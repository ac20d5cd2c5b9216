----------------------------- MODULE EngineServe -----------------------------
(***************************************************************************)
(* An engine that serves requests: server_dispatch.zig and the life of the *)
(* engines of rt/ (quickjs_engine.zig, v8_engine.zig, jsc_engine.zig),     *)
(* with a host that behaves like the ones of ssr_run.zig and of the engine *)
(* tests: it sends requests and a shutdown, before the engine runs or      *)
(* while it does, and collects the responses.                              *)
(*                                                                         *)
(* The JSC engine evaluates its source under the event loop, which polls   *)
(* the bridge (tick, in JscSpec); the others do not.  JavaScript that is   *)
(* evaluated or called ends: the engines limit the time of a call.  No     *)
(* handler of the bridge is registered, the served JavaScript having no    *)
(* host operations in QuickJS and V8.                                      *)
(***************************************************************************)
EXTENDS Naturals, Sequences

CONSTANTS
  MaxRequests,   \* bound: requests sent
  MaxFailures    \* bound: failed allocations and sends

ASSUME BoundAssumption == MaxRequests \in Nat /\ MaxFailures \in Nat

VARIABLES
  state,          \* the engine's state
  pc,             \* where the engine's thread is
  current,        \* the request dispatchRequest works on
  to_engine, to_host, buffers,
  sent,           \* requests sent
  shutdown_sent,  \* the shutdown was sent
  answers,        \* requests whose response was collected, in order
  failures,       \* failures so far (bounds the model)
  lost,           \* requests whose response could not be sent (history)
  dropped         \* buffers given up through an empty payload (history)

engineVars == <<state, pc, current>>
hostVars == <<sent, shutdown_sent, answers>>
vars == <<state, pc, current, to_engine, to_host, buffers, sent, shutdown_sent,
          answers, failures, lost, dropped>>

None == [op |-> "none"]
NoBuffer == <<>>

Message(op, id, buffer, empty) ==
  [op |-> op, request_id |-> id, buffer |-> buffer, empty |-> empty]

Fails == failures < MaxFailures /\ failures' = failures + 1
Works == UNCHANGED failures

\* `if (!payload.isEmpty()) data.release(payload)'
Release(command) ==
  buffers' = IF command.empty THEN buffers ELSE buffers \ {command.buffer}

Init ==
  /\ state = "created" /\ pc = "idle" /\ current = None
  /\ to_engine = <<>> /\ to_host = <<>> /\ buffers = {}
  /\ sent = 0 /\ shutdown_sent = FALSE /\ answers = <<>>
  /\ failures = 0 /\ lost = {} /\ dropped = {}

-----------------------------------------------------------------------------
(* The host.                                                               *)

MaySend == ~shutdown_sent /\ pc \notin {"destroying", "destroyed"}

SendRequest ==
  /\ MaySend /\ sent < MaxRequests
  /\ sent' = sent + 1
  /\ LET buffer == <<sent + 1, "in">> IN
       /\ buffers' = buffers \cup {buffer}
       /\ to_engine' = Append(to_engine, Message("request", sent + 1, buffer, FALSE))
  /\ UNCHANGED <<engineVars, to_host, shutdown_sent, answers, failures, lost,
                 dropped>>

SendShutdown ==
  /\ MaySend
  /\ shutdown_sent' = TRUE
  /\ to_engine' = Append(to_engine, Message("shutdown", 0, NoBuffer, TRUE))
  /\ UNCHANGED <<engineVars, to_host, buffers, sent, answers, failures, lost,
                 dropped>>

\* A response with an empty payload is a failure, and nothing to release.
Collect ==
  /\ to_host # <<>>
  /\ to_host' = Tail(to_host)
  /\ LET command == Head(to_host) IN
       /\ Release(command)
       /\ answers' = IF command.op = "response"
                     THEN Append(answers, command.request_id) ELSE answers
       /\ dropped' = IF command.empty THEN dropped \cup ({command.buffer} \ {NoBuffer})
                                      ELSE dropped
  /\ UNCHANGED <<engineVars, to_engine, sent, shutdown_sent, failures, lost>>

-----------------------------------------------------------------------------
(* The engine's life.                                                      *)

\* A load that fails (a buffer, a name or memory) leaves the engine created.
load ==
  /\ pc = "idle" /\ state = "created"
  /\ state' \in {"created", "loaded"}
  /\ UNCHANGED <<pc, current, to_engine, to_host, buffers, hostVars, failures,
                 lost, dropped>>

\* run announces the engine; when it cannot, it returns.
run ==
  /\ pc = "idle" /\ state = "loaded"
  /\ state' = "running"
  /\ \/ /\ Works
        /\ to_host' = Append(to_host, Message("started", 0, NoBuffer, TRUE))
        /\ pc' = "evaluating"
     \/ Fails /\ pc' = "returned" /\ UNCHANGED to_host
  /\ UNCHANGED <<current, to_engine, buffers, hostVars, lost, dropped>>

\* Bridge.dispatch of a command no handler is registered for.
Discard ==
  /\ to_engine # <<>>
  /\ to_engine' = Tail(to_engine)
  /\ Release(Head(to_engine))

\* The event loop's tick, while the source is evaluated.
tick ==
  /\ pc = "evaluating"
  /\ Discard
  /\ UNCHANGED <<engineVars, to_host, hostVars, failures, lost, dropped>>

\* The source failed; it defines the handler; or it does not.
Evaluated ==
  /\ pc = "evaluating"
  /\ pc' \in {"returned", "serving", "stopping"}
  /\ UNCHANGED <<state, current, to_engine, to_host, buffers, hostVars, failures,
                 lost, dropped>>

\* run takes its leave if it can, and returns.
Stop ==
  /\ pc = "stopping"
  /\ \/ Works /\ to_host' = Append(to_host, Message("stopped", 0, NoBuffer, TRUE))
     \/ Fails /\ UNCHANGED to_host
  /\ pc' = "returned"
  /\ UNCHANGED <<state, current, to_engine, buffers, hostVars, lost, dropped>>

\* destroy, with the poll of Bridge.deinit.
destroy ==
  /\ pc \in {"idle", "returned"}
  /\ pc' = "destroying"
  /\ UNCHANGED <<state, current, to_engine, to_host, buffers, hostVars, failures,
                 lost, dropped>>

DestroyPoll ==
  /\ pc = "destroying"
  /\ IF to_engine = <<>>
     THEN /\ pc' = "destroyed" /\ state' = "destroyed"
          /\ UNCHANGED <<to_engine, buffers>>
     ELSE Discard /\ UNCHANGED <<pc, state>>
  /\ UNCHANGED <<current, to_host, hostVars, failures, lost, dropped>>

-----------------------------------------------------------------------------
(* server_dispatch.zig                                                     *)

\* Mutant of pump: a shutdown is taken for a request.
pump_NoShutdown ==
  /\ pc = "serving" /\ current = None /\ to_engine # <<>>
  /\ to_engine' = Tail(to_engine)
  /\ current' = Head(to_engine)
  /\ UNCHANGED <<state, pc, to_host, buffers, hostVars, failures, lost, dropped>>

\* pump, one command.
pump ==
  /\ pc = "serving" /\ current = None /\ to_engine # <<>>
  /\ to_engine' = Tail(to_engine)
  /\ IF Head(to_engine).op = "shutdown"
     THEN pc' = "stopping" /\ UNCHANGED current
     ELSE current' = Head(to_engine) /\ UNCHANGED pc
  /\ UNCHANGED <<state, to_host, buffers, hostVars, failures, lost, dropped>>

\* Mutant of sendError: nothing is sent.
sendError_Silent(r) == UNCHANGED to_host

sendError(r) == to_host' = Append(to_host, Message("response", r, NoBuffer, TRUE))

\* Mutant of respond: a response that cannot be sent keeps its buffer.
respond_LeaksUnsent(r) ==
  \E empty \in BOOLEAN :
    /\ buffers' = buffers \cup {<<r, "out">>}
    /\ \/ /\ Works
          /\ to_host' = Append(to_host, Message("response", r, <<r, "out">>, empty))
          /\ UNCHANGED lost
       \/ Fails /\ lost' = lost \cup {r} /\ UNCHANGED to_host

\* The handler's output, which may be empty, goes into a buffer of its own; it
\* is released when the response cannot be sent.
respond(r) ==
  \/ \E empty \in BOOLEAN :
       /\ Works
       /\ buffers' = buffers \cup {<<r, "out">>}
       /\ to_host' = Append(to_host, Message("response", r, <<r, "out">>, empty))
       /\ UNCHANGED lost
  \/ /\ Fails
     /\ lost' = lost \cup {r}
     /\ UNCHANGED <<to_host, buffers>>

\* dispatchRequest: a response; an error, the handler having failed or memory
\* being out; or an error that cannot be sent either.
dispatchRequest ==
  /\ pc = "serving" /\ current # None
  /\ LET r == current.request_id IN
       \/ respond(r)
       \/ (Works \/ Fails) /\ sendError(r) /\ UNCHANGED <<buffers, lost>>
       \/ Fails /\ lost' = lost \cup {r} /\ UNCHANGED <<to_host, buffers>>
  /\ pc' = "answered"
  /\ UNCHANGED <<state, current, to_engine, hostVars, dropped>>

\* Mutant of DispatchReturns: the request is dispatched again.
DispatchReturns_Again ==
  /\ pc = "answered"
  /\ Release(current)
  /\ pc' = "serving"
  /\ UNCHANGED <<state, current, to_engine, to_host, hostVars, failures, lost,
                 dropped>>

\* dispatchRequest, its deferred release of the request.
DispatchReturns ==
  /\ pc = "answered"
  /\ Release(current)
  /\ current' = None /\ pc' = "serving"
  /\ UNCHANGED <<state, to_engine, to_host, hostVars, failures, lost, dropped>>

-----------------------------------------------------------------------------

EngineStep ==
  \/ run \/ Evaluated \/ pump \/ dispatchRequest \/ DispatchReturns \/ Stop
  \/ DestroyPoll

Next ==
  \/ SendRequest \/ SendShutdown \/ Collect
  \/ load \/ destroy
  \/ EngineStep

Spec == Init /\ [][Next]_vars

\* The engine's thread runs; the host need not send, load or destroy.
FairSpec == Spec /\ WF_vars(EngineStep) /\ WF_vars(Collect)

\* The JSC engine, whose event loop ticks before the handler is looked up.
JscSpec == Init /\ [][Next \/ tick]_vars

-----------------------------------------------------------------------------
(* Properties.                                                             *)

\* The state is well typed, and only a request is dispatched.
TypeOK ==
  /\ state \in {"created", "loaded", "running", "destroyed"}
  /\ pc \in {"idle", "evaluating", "serving", "answered", "stopping", "returned",
             "destroying", "destroyed"}
  /\ current # None => current.op = "request" /\ current.request_id \in 1..sent
  /\ sent \in 0..MaxRequests /\ shutdown_sent \in BOOLEAN
  /\ answers \in Seq(1..MaxRequests)
  /\ failures \in 0..MaxFailures /\ lost \subseteq 1..sent

Serving == pc \in {"evaluating", "serving", "answered"}

Waits(r) ==
  \E i \in DOMAIN to_engine : to_engine[i].op = "request" /\ to_engine[i].request_id = r

IsResponse(command) == command.op = "response"

Responded(r) ==
  \/ \E i \in DOMAIN answers : answers[i] = r
  \/ \E i \in DOMAIN to_host : IsResponse(to_host[i]) /\ to_host[i].request_id = r

\* README.md, "The same dispatcher and JavaScript convention are wired to JSC":
\* whichever engine serves, a request that was sent waits, is being worked on,
\* or has its response, unless the response could not be sent.
RequestsAreAnswered ==
  Serving => \A r \in 1..sent :
    \/ Waits(r) \/ Responded(r)
    \/ pc = "serving" /\ current # None /\ current.request_id = r
    \/ r \in lost

\* ssr_run.zig tells by their order which response belongs to which request:
\* responses come in the order of the requests and no request has two.
AnswersInOrder ==
  /\ \A i, j \in DOMAIN answers : i < j => answers[i] < answers[j]
  /\ \A i \in DOMAIN answers, j \in DOMAIN to_host :
       IsResponse(to_host[j]) => answers[i] < to_host[j].request_id
  /\ \A i, j \in DOMAIN to_host :
       i < j /\ IsResponse(to_host[i]) /\ IsResponse(to_host[j]) =>
         to_host[i].request_id < to_host[j].request_id

Carried ==
  {to_engine[i].buffer : i \in DOMAIN to_engine}
  \cup {to_host[i].buffer : i \in DOMAIN to_host}
  \cup (IF current # None THEN {current.buffer} ELSE {})

\* contract.zig on Command.payload: a buffer is allocated exactly while a
\* message or the request at work carries it, a failed send, a shutdown with
\* requests behind it and destroy included.  The exception is a handler that
\* returns nothing: its empty payload names a buffer nobody releases.
PayloadsConserved == buffers = (Carried \cup dropped) \ {NoBuffer}

\* A shutdown ends run, whatever is queued before it.
ShutdownStops == shutdown_sent /\ Serving ~> ~Serving

=============================================================================
