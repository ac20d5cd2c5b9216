------------------------------ MODULE HostHttp ------------------------------
(***************************************************************************)
(* An outbound fetch across the engine/host boundary, over three threads:  *)
(*                                                                         *)
(*   VM thread    FetchTasklet (runtime/webcore/fetch) and Bridge: sends   *)
(*                the request, streams its body, aborts it, and takes      *)
(*                the response apart message by message                    *)
(*   host thread  Manager (rt/host_http.zig): starts requests and passes   *)
(*                bodies, ends and cancellations on                        *)
(*   HTTP thread  Request.callback: sends each result of the HTTP client   *)
(*                to the engine and destroys the request after the last    *)
(*                                                                         *)
(* The channels are queues (CommandChannel implements Fifo).  No buffer of *)
(* this protocol is ever retained, so the data pool is the set of buffers  *)
(* that have not been released; a buffer is named by its request, its use  *)
(* and a number, and no chunk is empty.  What the HTTP client (external)   *)
(* delivers is free within its promise: headers once and first, then       *)
(* chunks, then an end; when a request runs and how aborts reach it is     *)
(* HttpThread's subject.                                                   *)
(*                                                                         *)
(* Any allocation or send may fail; failures are counted to bound them.    *)
(***************************************************************************)
EXTENDS Naturals, Sequences, FiniteSets

CONSTANTS
  MaxRequests,   \* bound: fetches
  MaxWrites,     \* bound: chunks of a streamed request body
  MaxChunks,     \* bound: chunks of a response body
  MaxFailures    \* bound: failed allocations and sends

ASSUME BoundAssumption ==
  /\ MaxRequests \in Nat /\ MaxWrites \in Nat
  /\ MaxChunks \in Nat /\ MaxFailures \in Nat

VARIABLES
  next_request_id,  \* Bridge.next_request_id
  handlers,         \* Bridge.handlers
  ref_count,        \* FetchTasklet.ref_count
  scheduled,        \* tasklets with has_schedule_callback
  result,           \* FetchTasklet.result and what was accepted before it
  sink,             \* the ResumableSink of a streamed request body; "waiting" is
                    \* is_waiting_request_stream_start
  writes,           \* chunks written to the sink
  aborted,          \* tasklets whose signal has fired
  finalised,        \* tasklets through with their last onProgressUpdate, or
                    \* never queued (history)
  to_host, to_engine, buffers,
  current, found,   \* the command Manager works on; the request it looked up
  requests,         \* Manager.requests
  client,           \* what the HTTP client has delivered of each request
  cb,               \* the result Request.callback is working on
  failures,         \* failures so far (bounds the model)
  lost              \* requests of which a failure or end was not sent (history)

vmVars == <<next_request_id, handlers, ref_count, scheduled, result, sink,
            writes, aborted, finalised>>
hostVars == <<current, found>>
httpVars == <<client, cb>>
vars == <<next_request_id, handlers, ref_count, scheduled, result, sink,
          writes, aborted, finalised, to_host, to_engine, buffers,
          current, found, requests, client, cb, failures, lost>>

Request == 1..MaxRequests
None == [op |-> "none"]
NoBuffer == <<>>

Message(op, r, buffer, ok) ==
  [op |-> op, request_id |-> r, buffer |-> buffer, ok |-> ok]

Fails == failures < MaxFailures /\ failures' = failures + 1
Works == UNCHANGED failures

Bit(b) == IF b THEN 1 ELSE 0

\* `if (!payload.isEmpty()) data.release(payload)'
Release(command) == buffers' = buffers \ {command.buffer}

Init ==
  /\ next_request_id = 1 /\ handlers = {}
  /\ ref_count = [r \in Request |-> 0]
  /\ scheduled = {} /\ aborted = {} /\ finalised = {}
  /\ result = [r \in Request |-> [can_stream |-> FALSE, headers |-> FALSE,
                                  chunks |-> <<>>, end |-> "none"]]
  /\ sink = [r \in Request |-> "none"] /\ writes = [r \in Request |-> 0]
  /\ to_host = <<>> /\ to_engine = <<>> /\ buffers = {}
  /\ current = None /\ found = FALSE /\ requests = {}
  /\ client = [r \in Request |-> [ready |-> FALSE, headers |-> FALSE,
                                  chunks |-> 0, state |-> "none"]]
  /\ cb = None /\ failures = 0 /\ lost = {}

-----------------------------------------------------------------------------
(* VM thread: FetchTasklet, sending.                                       *)

\* FetchTasklet.queue.  When it fails the payload is released, no handler is
\* registered and both references to the tasklet are dropped again (an id is
\* used up here even if the pool was full before one was allocated).
queue ==
  /\ next_request_id \in Request
  /\ next_request_id' = next_request_id + 1
  /\ LET r == next_request_id
         buffer == <<r, "start", 0>>
     IN \/ /\ Works
           /\ buffers' = buffers \cup {buffer}
           /\ handlers' = handlers \cup {r}
           /\ ref_count' = [ref_count EXCEPT ![r] = 2]
           /\ to_host' = Append(to_host, Message("start", r, buffer, TRUE))
           /\ \E s \in {"none", "waiting"} : sink' = [sink EXCEPT ![r] = s]
           /\ UNCHANGED finalised
        \/ /\ Fails
           /\ finalised' = finalised \cup {r}
           /\ UNCHANGED <<buffers, handlers, ref_count, to_host, sink>>
  /\ UNCHANGED <<scheduled, result, writes, aborted, to_engine, hostVars, requests, httpVars, lost>>

\* writeRequestData.  A chunk that cannot be sent pauses the sink, unless it is
\* piped from a ByteStream, which goes on with the next chunk.
writeRequestData(r) ==
  /\ sink[r] = "open" /\ r \notin aborted /\ writes[r] < MaxWrites
  /\ writes' = [writes EXCEPT ![r] = @ + 1]
  /\ LET buffer == <<r, "body", writes[r] + 1>> IN
       \/ /\ Works
          /\ buffers' = buffers \cup {buffer}
          /\ to_host' = Append(to_host, Message("body", r, buffer, TRUE))
          /\ UNCHANGED sink
       \/ /\ Fails
          /\ \E s \in {"open", "paused"} : sink' = [sink EXCEPT ![r] = s]
          /\ UNCHANGED <<buffers, to_host>>
  /\ UNCHANGED <<next_request_id, handlers, ref_count, scheduled, result,
                 aborted, finalised, to_engine, hostVars, requests,
                 httpVars, lost>>

Cancel(r) == Message("cancel", r, NoBuffer, TRUE)

\* abortTask, after `before' failures: the cancellation is sent if it can be.
abortTask(r, channel, before) ==
  /\ aborted' = aborted \cup {r}
  /\ \E fails \in {0, 1} :
       /\ failures' = failures + before + fails
       /\ failures' <= MaxFailures
       /\ to_host' = IF fails = 0 THEN Append(channel, Cancel(r)) ELSE channel

\* writeEndRequest of a sink that has been read to its end (a terminating chunk
\* goes first when the body is chunked) or that failed.  When the chunk or the
\* end cannot be sent the fetch is aborted.
writeEndRequest(r) ==
  /\ sink[r] = "open"
  /\ sink' = [sink EXCEPT ![r] = "closed"]
  /\ ref_count' = [ref_count EXCEPT ![r] = @ - 1]
  /\ LET last == <<r, "body", 0>>
         End == Message("end", r, NoBuffer, TRUE)
         Chunked == Append(to_host, Message("body", r, last, TRUE))
     IN \/ r \notin aborted /\ abortTask(r, to_host, 0) /\ UNCHANGED buffers
        \/ \E framed \in BOOLEAN :
             LET channel == IF framed THEN Chunked ELSE to_host IN
             /\ buffers' = IF framed THEN buffers \cup {last} ELSE buffers
             /\ \/ /\ Works
                   /\ to_host' = Append(channel, End)
                   /\ UNCHANGED aborted
                \/ abortTask(r, channel, 1)
  /\ UNCHANGED <<next_request_id, handlers, scheduled, result,
                 writes, finalised, to_engine, hostVars, requests, httpVars,
                 lost>>

\* abortListener: cancel, then close the sink (its writeEndRequest returns at
\* once) or forget that the body was to be streamed.
abortListener(r) ==
  /\ ref_count[r] > 0 /\ r \notin aborted
  /\ abortTask(r, to_host, 0)
  /\ sink' = [sink EXCEPT ![r] = IF @ = "none" THEN @ ELSE "closed"]
  /\ ref_count' = IF sink[r] \in {"open", "paused"}
                  THEN [ref_count EXCEPT ![r] = @ - 1] ELSE ref_count
  /\ UNCHANGED <<next_request_id, handlers, scheduled, result, writes,
                 finalised, to_engine, buffers, hostVars, requests, httpVars,
                 lost>>

-----------------------------------------------------------------------------
(* VM thread: receiving.                                                   *)

\* Mutant of acceptResult: the handler's reference is never given up.
acceptResult_NoDeref(r, res) ==
  /\ result' = [result EXCEPT ![r] = res]
  /\ scheduled' = scheduled \cup {r}
  /\ UNCHANGED ref_count

\* acceptResult: the last result gives up the handler's reference; a task that
\* is queued already will see this result too.
acceptResult(r, res) ==
  /\ result' = [result EXCEPT ![r] = res]
  /\ scheduled' = scheduled \cup {r}
  /\ ref_count' = IF res.end # "none" THEN [ref_count EXCEPT ![r] = @ - 1]
                                      ELSE ref_count

\* onHostMessage on the result so far; a message that cannot be copied or
\* decoded ends the fetch.
Failed(res) == [res EXCEPT !.end = "failed"]

Accepted(command, res) ==
  CASE command.op = "ready"   -> [res EXCEPT !.can_stream = TRUE]
    [] command.op = "headers" -> [res EXCEPT !.headers = TRUE]
    [] command.op = "chunk"   -> [res EXCEPT !.chunks = Append(@, command.buffer[3])]
    [] command.op = "end"     -> IF command.ok THEN [res EXCEPT !.end = "ok"]
                                               ELSE Failed(res)

onHostMessage(command, res) ==
  \/ /\ Works
     /\ acceptResult(command.request_id, Accepted(command, res))
  \/ /\ Fails /\ command.op \in {"headers", "chunk"}
     /\ acceptResult(command.request_id, Failed(res))

\* Bridge.dispatch: on_message returns true after the last message.
HandlersAfter(r, res) == IF res.end # "none" THEN handlers \ {r} ELSE handlers

\* One round of Bridge.poll: dispatch to the handler, which is removed after
\* its last message; without a handler the payload is released.
BridgePoll ==
  /\ to_engine # <<>>
  /\ to_engine' = Tail(to_engine)
  /\ LET command == Head(to_engine)
         r == command.request_id
     IN /\ Release(command)
        /\ IF r \in handlers
           THEN /\ onHostMessage(command, result[r])
                /\ handlers' = HandlersAfter(r, result'[r])
           ELSE UNCHANGED <<result, scheduled, ref_count, handlers, failures>>
  /\ UNCHANGED <<next_request_id, sink, writes, aborted, finalised,
                 to_host, hostVars, requests, httpVars, lost>>

\* onProgressUpdate, with startRequestStream.  A failure cancels the sink (but
\* not on every path, nor one JavaScript has dropped), and with it the request
\* unless it was aborted.  The last update gives up the reference the tasklet
\* was made with.
onProgressUpdate(r) ==
  /\ r \in scheduled
  /\ scheduled' = scheduled \ {r}
  /\ LET starts == sink[r] = "waiting" /\ result[r].can_stream
         opens == starts /\ r \notin aborted
         last == result[r].end # "none"
         now == IF opens THEN "open" ELSE IF starts THEN "closed" ELSE sink[r]
     IN \E cancels \in BOOLEAN :
          /\ cancels => result[r].end = "failed" /\ now \in {"open", "paused"}
          /\ sink' = [sink EXCEPT ![r] = IF cancels THEN "closed" ELSE now]
          /\ ref_count' = [ref_count EXCEPT ![r] =
               @ + Bit(opens) - Bit(last) - Bit(cancels)]
          /\ finalised' = IF last THEN finalised \cup {r} ELSE finalised
          /\ IF cancels /\ r \notin aborted
             THEN abortTask(r, to_host, 0)
             ELSE UNCHANGED <<aborted, to_host, failures>>
  /\ UNCHANGED <<next_request_id, handlers, result, writes, to_engine, buffers,
                 hostVars, requests, httpVars, lost>>

-----------------------------------------------------------------------------
(* Host thread: Manager.                                                   *)

HostReceive ==
  /\ current = None /\ to_host # <<>>
  /\ current' = Head(to_host)
  /\ to_host' = Tail(to_host)
  /\ UNCHANGED <<vmVars, to_engine, buffers, found, requests, httpVars,
                 failures, lost>>

\* A completion or event for the engine: it is sent, or lost for good.
SendOrLose(message) ==
  \/ Works /\ to_engine' = Append(to_engine, message) /\ UNCHANGED lost
  \/ /\ Fails
     /\ lost' = lost \cup {message.request_id}
     /\ UNCHANGED to_engine

\* Mutant of start: a request that cannot be made is not answered.
start_Silent ==
  /\ current.op = "start"
  /\ Release(current)
  /\ current' = None
  /\ UNCHANGED <<vmVars, to_host, found, cb, requests, client, to_engine, lost,
                 failures>>

\* The client of a request once it is scheduled, and once it has ended.
Running(c) == [c EXCEPT !.state = "running"]
Ended(c) == [c EXCEPT !.state = "ended"]

\* Manager.start: the request is decoded, registered and scheduled, or an error
\* is answered.
start ==
  /\ current.op = "start"
  /\ LET r == current.request_id IN
       \/ /\ requests' = requests \cup {r}
          /\ client' = [client EXCEPT ![r] = Running(@)]
          /\ Works /\ UNCHANGED <<to_engine, lost>>
       \/ /\ SendOrLose(Message("end", r, NoBuffer, FALSE))
          /\ UNCHANGED <<requests, client>>
  /\ Release(current)
  /\ current' = None
  /\ UNCHANGED <<vmVars, to_host, found, cb>>

\* Mutant of find: a payload that comes too late is not released.
find_KeepsLate ==
  /\ current.op \in {"body", "end", "cancel"} /\ ~found
  /\ IF current.request_id \in requests
     THEN found' = TRUE /\ UNCHANGED current
     ELSE current' = None /\ UNCHANGED found
  /\ UNCHANGED <<vmVars, to_host, to_engine, buffers, requests, httpVars,
                 failures, lost>>

\* cancel, writeBody, endBody: the request is looked up under the lock ...
find ==
  /\ current.op \in {"body", "end", "cancel"} /\ ~found
  /\ IF current.request_id \in requests
     THEN found' = TRUE /\ UNCHANGED <<current, buffers>>
     ELSE Release(current) /\ current' = None /\ UNCHANGED found
  /\ UNCHANGED <<vmVars, to_host, to_engine, requests, httpVars, failures, lost>>

\* ... and handed to the HTTP thread's lists after it; the payload is released.
Use ==
  /\ current # None /\ found
  /\ Release(current)
  /\ current' = None /\ found' = FALSE
  /\ UNCHANGED <<vmVars, to_host, to_engine, requests, httpVars, failures, lost>>

-----------------------------------------------------------------------------
(* HTTP thread: Request.callback.                                          *)

\* What the client has delivered, these parts included.
Delivered(c, ready, headers, chunk) ==
  [ready |-> c.ready \/ ready, headers |-> c.headers \/ headers,
   chunks |-> IF chunk THEN c.chunks + 1 ELSE c.chunks, state |-> c.state]

\* The client calls back with any of: the body may be streamed now (bound: told
\* once; of a streamed body only), headers, a chunk, the end.  A successful end
\* comes after the headers.
Result(r) ==
  /\ cb = None /\ client[r].state = "running"
  /\ \E ready, headers, chunk, last, ok \in BOOLEAN :
       /\ ready \/ headers \/ chunk \/ last
       /\ ready => sink[r] # "none" /\ ~client[r].ready
       /\ headers => ~client[r].headers
       /\ chunk => /\ client[r].headers \/ headers
                   /\ client[r].chunks < MaxChunks
       /\ last /\ ok => client[r].headers \/ headers
       /\ ~last => ok
       /\ cb' = [op |-> "callback", request_id |-> r, ready |-> ready,
                 headers |-> headers, chunk |-> chunk, last |-> last, ok |-> ok]
       /\ client' = [client EXCEPT ![r] = Delivered(@, ready, headers, chunk)]
  /\ UNCHANGED <<vmVars, to_host, to_engine, buffers, hostVars, requests,
                 failures, lost>>

sendTerminal(r, ok) == SendOrLose(Message("end", r, NoBuffer, ok))

\* Mutant of SendBytes: bytes that cannot be sent are passed over.
SendBytes_Skips(op, r, n) ==
  \/ /\ Works
     /\ buffers' = buffers \cup {<<r, op, n>>}
     /\ to_engine' = Append(to_engine, Message(op, r, <<r, op, n>>, TRUE))
     /\ UNCHANGED lost
  \/ Fails /\ UNCHANGED <<buffers, to_engine, lost>>

\* sendBytes or a terminal in its place, the buffer being released if only the
\* send failed.
SendBytes(op, r, n) ==
  \/ /\ Works
     /\ buffers' = buffers \cup {<<r, op, n>>}
     /\ to_engine' = Append(to_engine, Message(op, r, <<r, op, n>>, TRUE))
     /\ UNCHANGED lost
  \/ /\ failures < MaxFailures
     /\ \/ /\ failures' = failures + 1
           /\ to_engine' = Append(to_engine, Message("end", r, NoBuffer, FALSE))
           /\ UNCHANGED lost
        \/ /\ failures + 1 < MaxFailures
           /\ failures' = failures + 2
           /\ lost' = lost \cup {r}
           /\ UNCHANGED to_engine
     /\ UNCHANGED buffers

\* The result, a part of it being dealt with.
ReadyDone(c) == [c EXCEPT !.ready = FALSE]
HeadersDone(c) == [c EXCEPT !.headers = FALSE]
ChunkDone(c) == [c EXCEPT !.chunk = FALSE]

CallbackReady ==
  /\ cb # None /\ cb.ready
  /\ \/ Works /\ to_engine' = Append(to_engine,
                                     Message("ready", cb.request_id, NoBuffer, TRUE))
     \/ Fails /\ UNCHANGED to_engine
  /\ cb' = ReadyDone(cb)
  /\ UNCHANGED <<vmVars, to_host, buffers, hostVars, requests, client, lost>>

CallbackHeaders ==
  /\ cb # None /\ ~cb.ready /\ cb.headers
  /\ SendBytes("headers", cb.request_id, 0)
  /\ cb' = HeadersDone(cb)
  /\ UNCHANGED <<vmVars, to_host, hostVars, requests, client>>

CallbackBody ==
  /\ cb # None /\ ~cb.ready /\ ~cb.headers /\ cb.chunk
  /\ SendBytes("chunk", cb.request_id, client[cb.request_id].chunks)
  /\ cb' = ChunkDone(cb)
  /\ UNCHANGED <<vmVars, to_host, hostVars, requests, client>>

CallbackEnds == cb # None /\ ~cb.ready /\ ~cb.headers /\ ~cb.chunk

CallbackReturns ==
  /\ CallbackEnds /\ ~cb.last
  /\ cb' = None
  /\ UNCHANGED <<vmVars, to_host, to_engine, buffers, hostVars, requests,
                 client, failures, lost>>

CallbackTerminal ==
  /\ CallbackEnds /\ cb.last /\ client[cb.request_id].state = "running"
  /\ sendTerminal(cb.request_id, cb.ok)
  /\ client' = [client EXCEPT ![cb.request_id] = Ended(@)]
  /\ UNCHANGED <<vmVars, to_host, buffers, hostVars, requests, cb>>

destroy ==
  /\ CallbackEnds /\ client[cb.request_id].state = "ended"
  /\ requests' = requests \ {cb.request_id}
  /\ cb' = None
  /\ UNCHANGED <<vmVars, to_host, to_engine, buffers, hostVars, client,
                 failures, lost>>

-----------------------------------------------------------------------------

Vm ==
  \/ BridgePoll
  \/ \E r \in Request : onProgressUpdate(r)

Client ==
  \/ queue
  \/ \E r \in Request : \/ writeRequestData(r) \/ writeEndRequest(r)
                        \/ abortListener(r)

Host == HostReceive \/ start \/ find \/ Use

Callback ==
  \/ CallbackReady \/ CallbackHeaders \/ CallbackBody
  \/ CallbackReturns \/ CallbackTerminal \/ destroy

Next == Client \/ Vm \/ Host \/ Callback \/ \E r \in Request : Result(r)

Spec == Init /\ [][Next]_vars

\* The three threads run, and the client of a started request ends in the end
\* (its idle timeout sees to it).
FairSpec ==
  /\ Spec
  /\ WF_vars(BridgePoll) /\ WF_vars(Host) /\ WF_vars(Callback)
  /\ \A r \in Request :
       /\ WF_vars(onProgressUpdate(r))
       /\ SF_vars(Result(r) /\ cb'.last)

-----------------------------------------------------------------------------
(* Properties.                                                             *)

\* The state is well typed.
TypeOK ==
  /\ next_request_id \in 1..(MaxRequests + 1)
  /\ handlers \subseteq Request /\ requests \subseteq Request
  /\ ref_count \in [Request -> Nat]
  /\ \A s \in {scheduled, aborted, finalised, lost} : s \subseteq Request
  /\ sink \in [Request -> {"none", "waiting", "open", "paused", "closed"}]
  /\ writes \in [Request -> 0..MaxWrites]
  /\ result \in [Request -> [can_stream : BOOLEAN, headers : BOOLEAN,
                             chunks : Seq(1..MaxChunks),
                             end : {"none", "ok", "failed"}]]
  /\ client \in [Request -> [ready : BOOLEAN, headers : BOOLEAN,
                             chunks : 0..MaxChunks,
                             state : {"none", "running", "ended"}]]
  /\ found => current # None
  /\ failures \in 0..MaxFailures

Carried ==
  {to_host[i].buffer : i \in DOMAIN to_host}
  \cup {to_engine[i].buffer : i \in DOMAIN to_engine}
  \cup (IF current # None THEN {current.buffer} ELSE {})

\* contract.zig on Command.payload: whatever fails, is aborted or arrives too
\* late for its handler, a buffer of a fetch is allocated exactly while a
\* message or the host's current command carries it.
BuffersAreCarried == buffers = Carried \ {NoBuffer}

\* FetchTasklet.ref_count: one for the tasklet itself until its last progress
\* update, one for the registered handler, one for the sink, and no update is
\* queued after the last.  So two terminals for one request, or messages after
\* a terminal, release nothing twice, and nobody is left with a pointer to a
\* freed tasklet.
TaskletRefsExact ==
  \A r \in 1..(next_request_id - 1) :
    /\ ref_count[r] = Bit(r \notin finalised) + Bit(r \in handlers)
                      + Bit(sink[r] \in {"open", "paused"})
    /\ r \in scheduled => r \notin finalised

\* Request.callback and onHostMessage: a response that ends well is whole: it
\* has its headers and every chunk the client delivered, in order, unless the
\* report of a failure was itself lost.
ResponseIsWhole ==
  \A r \in Request : result[r].end = "ok" /\ r \notin lost =>
    /\ result[r].headers
    /\ result[r].chunks = [i \in 1..client[r].chunks |-> i]

\* A fetch settles: its handler gets its last message and the tasklet its last
\* progress update, unless the terminal was lost.
FetchSettles ==
  \A r \in Request : r \in handlers ~> r \in finalised \/ r \in lost

=============================================================================
