--------------------------- MODULE HostHttpProofs ---------------------------
(***************************************************************************)
(* Proofs about HostHttp, for any number of fetches, chunks and failures.  *)
(* The invariants come in layers, each proved on top of the ones before:   *)
(*                                                                         *)
(*   Typed       what each variable and each message can be                *)
(*   RefsInv     who holds a reference to a tasklet, and when it is over   *)
(*   BuffersInv  no two messages carry one buffer, and a buffer about to   *)
(*               be allocated is new                                       *)
(*   LifeInv     a request is started once and silent after its end        *)
(*   WholeInv    what is still to come of a response, in which order       *)
(***************************************************************************)
EXTENDS HostHttp, Integers, SequenceTheorems, TLAPS

-----------------------------------------------------------------------------
(* The invariants.                                                         *)

\* The names of buffers.
Buffer ==
  {NoBuffer} \cup (Request \X {"start", "body", "headers", "chunk"} \X Nat)

\* The commands FetchTasklet sends and the events Request.callback sends.
HostMessage ==
  {m \in [op : {"start", "body", "end", "cancel"}, request_id : Request,
          buffer : Buffer, ok : BOOLEAN] :
     /\ m.op = "start" => m.buffer = <<m.request_id, "start", 0>>
     /\ m.op = "body" => \E n \in 0..MaxWrites :
                           m.buffer = <<m.request_id, "body", n>>
     /\ m.op \in {"end", "cancel"} => m.buffer = NoBuffer}

EngineMessage ==
  {m \in [op : {"ready", "headers", "chunk", "end"}, request_id : Request,
          buffer : Buffer, ok : BOOLEAN] :
     /\ m.op = "headers" => m.buffer = <<m.request_id, "headers", 0>>
     /\ m.op = "chunk" => \E n \in 1..MaxChunks :
                            m.buffer = <<m.request_id, "chunk", n>>
     /\ m.op \in {"ready", "end"} => m.buffer = NoBuffer}

CallbackResult ==
  [op : {"callback"}, request_id : Request, ready : BOOLEAN,
   headers : BOOLEAN, chunk : BOOLEAN, last : BOOLEAN, ok : BOOLEAN]

ResultRecord ==
  [can_stream : BOOLEAN, headers : BOOLEAN, chunks : Seq(1..MaxChunks),
   end : {"none", "ok", "failed"}]

ClientRecord ==
  [ready : BOOLEAN, headers : BOOLEAN, chunks : 0..MaxChunks,
   state : {"none", "running", "ended"}]

\* TypeOK, the counts of references being integers, and the messages.
Typed ==
  /\ next_request_id \in 1..(MaxRequests + 1)
  /\ handlers \subseteq Request /\ requests \subseteq Request
  /\ ref_count \in [Request -> Int]
  /\ scheduled \subseteq Request /\ aborted \subseteq Request
  /\ finalised \subseteq Request /\ lost \subseteq Request
  /\ sink \in [Request -> {"none", "waiting", "open", "paused", "closed"}]
  /\ writes \in [Request -> 0..MaxWrites]
  /\ result \in [Request -> ResultRecord] /\ client \in [Request -> ClientRecord]
  /\ found \in BOOLEAN /\ (found => current.op \in {"body", "end", "cancel"})
  /\ failures \in 0..MaxFailures
  /\ to_host \in Seq(HostMessage) /\ current \in HostMessage \cup {None}
  /\ to_engine \in Seq(EngineMessage) /\ cb \in CallbackResult \cup {None}

\* What Request.callback has yet to send has been delivered.
ChunkInv ==
  cb.op = "callback" =>
    /\ cb.chunk => client[cb.request_id].chunks > 0
    /\ cb.headers => client[cb.request_id].headers

\* A tasklet that has not been made holds nothing, one whose handler is
\* registered has not ended, and one whose handler is gone has its last
\* progress update queued or behind it.
TaskletInv(r) ==
  /\ r >= next_request_id =>
       /\ ref_count[r] = 0 /\ sink[r] = "none" /\ result[r].end = "none"
       /\ r \notin handlers /\ r \notin scheduled /\ r \notin finalised
  /\ r < next_request_id =>
       ref_count[r] = Bit(r \notin finalised) + Bit(r \in handlers)
                      + Bit(sink[r] \in {"open", "paused"})
  /\ r \in scheduled => r \notin finalised
  /\ r \in handlers => r \notin finalised /\ result[r].end = "none"
  /\ r < next_request_id /\ r \notin handlers /\ r \notin finalised =>
       r \in scheduled /\ result[r].end # "none"

RefsInv == \A r \in Request : TaskletInv(r)

\* The callback that is working on a result of request r.
InCallback(r) == cb.op = "callback" /\ cb.request_id = r

\* How many chunks Request.callback has sent, or given up, of what the client
\* delivered, and the requests of which it has sent or given up the headers.
Tried(r) == client[r].chunks - Bit(InCallback(r) /\ cb.chunk)

HeadersTried ==
  {r \in Request : client[r].headers /\ ~(InCallback(r) /\ cb.headers)}

\* What the buffer of a command says of the tasklet that sent it: requests up
\* to n have been made, w chunks have been written to each, and s is the state
\* of the sinks.
HostBufferOK(b, n, w, s) ==
  /\ b[1] < n
  /\ b[2] = "body" => b[3] <= w[b[1]] /\ (b[3] = 0 => s[b[1]] = "closed")

\* What the buffer of an event says of the callback that sent it: t chunks
\* of each request and the headers of those in h have been tried.
EngineBufferOK(b, t, h) ==
  /\ b[2] = "headers" => b[1] \in h
  /\ b[2] = "chunk" => b[3] <= t[b[1]]

\* Two messages of a channel carry different buffers, or none.
Distinct(q) ==
  \A i, j \in 1..Len(q) :
    q[i].buffer = q[j].buffer /\ q[i].buffer # NoBuffer => i = j

\* The channel to the host with the command c that has been taken from it.
HostChannel(q, c, n, w, s) ==
  /\ Distinct(q)
  /\ \A i \in 1..Len(q) : q[i].buffer # NoBuffer =>
       /\ HostBufferOK(q[i].buffer, n, w, s)
       /\ c # None => c.buffer # q[i].buffer
  /\ c # None /\ c.buffer # NoBuffer => HostBufferOK(c.buffer, n, w, s)

EngineChannel(q, t, h) ==
  /\ Distinct(q)
  /\ \A i \in 1..Len(q) :
       q[i].buffer # NoBuffer => EngineBufferOK(q[i].buffer, t, h)

BuffersInv ==
  /\ BuffersAreCarried
  /\ HostChannel(to_host, current, next_request_id, writes, sink)
  /\ EngineChannel(to_engine, [r \in Request |-> Tried(r)], HeadersTried)

\* A request is started once, its client delivers nothing before and calls
\* back no more after its end, and nothing is sent of a request not yet made.
ClientLife(r) ==
  /\ r >= next_request_id => client[r].state = "none" /\ result[r].chunks = <<>>
  /\ client[r].state = "none" => client[r].chunks = 0 /\ ~client[r].headers
  /\ result[r].end = "ok" => client[r].state = "ended"

CallbackLife ==
  cb.op = "callback" =>
    /\ client[cb.request_id].state # "none"
    /\ client[cb.request_id].state = "ended" => ~cb.headers /\ ~cb.chunk
    /\ cb.last /\ cb.ok => client[cb.request_id].headers

EventLife(e) ==
  /\ e.request_id < next_request_id
  /\ e.op = "end" /\ e.ok => client[e.request_id].state = "ended"

CommandLife(c) == c.op = "start" => client[c.request_id].state = "none"

LifeInv ==
  /\ \A r \in Request : ClientLife(r)
  /\ CallbackLife
  /\ \A i \in 1..Len(to_engine) : EventLife(to_engine[i])
  /\ \A i \in 1..Len(to_host) : CommandLife(to_host[i])
  /\ CommandLife(current)

\* Event i of channel q is chunk n of request r, its headers, or its end.
ChunkAt(q, r, n, i) ==
  q[i].op = "chunk" /\ q[i].request_id = r /\ q[i].buffer[3] = n

HeadersAt(q, r, i) == q[i].op = "headers" /\ q[i].request_id = r

EndAt(q, r, ok, i) ==
  q[i].op = "end" /\ q[i].request_id = r /\ q[i].ok = ok

\* Some event before position j is chunk n, or gives the request up.
ChunkBefore(q, r, n, j) ==
  \E i \in 1..Len(q) : i < j /\ (ChunkAt(q, r, n, i) \/ EndAt(q, r, FALSE, i))

HeadersBefore(q, r, j) ==
  \E i \in 1..Len(q) : i < j /\ (HeadersAt(q, r, i) \/ EndAt(q, r, FALSE, i))

\* Of a request r with k chunks accepted and t tried: the chunks in the channel
\* come in ascending order, ...
Ascending(q, r, k, t) ==
  /\ \A j \in 1..Len(q) : \A n \in 1..MaxChunks :
       ChunkAt(q, r, n, j) => k < n /\ n <= t
  /\ \A i, j \in 1..Len(q) : \A m, n \in 1..MaxChunks :
       ChunkAt(q, r, n, i) /\ ChunkAt(q, r, m, j) /\ i < j => n < m

\* ... a chunk or a good end is preceded by every chunk before it that has not
\* been accepted yet, or by a bad end, and so is the next event to be sent, ...
Gapless(q, r, k, t) ==
  \A n \in 1..MaxChunks : k < n =>
    /\ \A j \in 1..Len(q) :
         /\ \A m \in 1..MaxChunks :
              n < m /\ ChunkAt(q, r, m, j) => ChunkBefore(q, r, n, j)
         /\ n <= t /\ EndAt(q, r, TRUE, j) => ChunkBefore(q, r, n, j)
    /\ n <= t => ChunkBefore(q, r, n, Len(q) + 1)

\* ... and so are the headers, unless they have been accepted; a and h are the
\* requests of which they have been accepted and tried.
HeadersFirst(q, r, a, h) ==
  r \notin a =>
    /\ \A j \in 1..Len(q) : EndAt(q, r, TRUE, j) => HeadersBefore(q, r, j)
    /\ r \in h => HeadersBefore(q, r, Len(q) + 1)

\* The chunks c accepted so far are the first ones.
Whole(q, r, c, t, a, h) ==
  /\ c = [i \in 1..Len(c) |-> i] /\ Len(c) <= t
  /\ Ascending(q, r, Len(c), t) /\ Gapless(q, r, Len(c), t)
  /\ HeadersFirst(q, r, a, h)

HeadersAccepted == {r \in Request : result[r].headers}

\* So it is for a request whose handler still waits, unless the report of a
\* failure of it was lost.
WholeInv ==
  /\ \A r \in handlers \ lost :
       Whole(to_engine, r, result[r].chunks, Tried(r), HeadersAccepted, HeadersTried)
  /\ ResponseIsWhole

-----------------------------------------------------------------------------
(* Typing.                                                                 *)

\* What a command carries follows from its operation.
LEMMA HostMessages ==
  ASSUME NEW m \in HostMessage
  PROVE  /\ m.request_id \in Request /\ m # None
         /\ m.op \in {"start", "body", "end", "cancel"}
         /\ m.op = "start" => m.buffer = <<m.request_id, "start", 0>>
         /\ m.op = "body" => \E n \in 0..MaxWrites :
                               m.buffer = <<m.request_id, "body", n>>
         /\ m.op \in {"end", "cancel"} => m.buffer = NoBuffer
  BY DEF HostMessage, None

\* What an event carries follows from its operation.
LEMMA EngineMessages ==
  ASSUME NEW m \in EngineMessage
  PROVE  /\ m.request_id \in Request /\ m.ok \in BOOLEAN
         /\ m.op \in {"ready", "headers", "chunk", "end"}
         /\ m.op = "headers" => m.buffer = <<m.request_id, "headers", 0>>
         /\ m.op = "chunk" => /\ m.buffer[3] \in 1..MaxChunks
                              /\ m.buffer = <<m.request_id, "chunk", m.buffer[3]>>
         /\ m.op \in {"ready", "end"} => m.buffer = NoBuffer
  BY DEF EngineMessage

\* No buffer is the absence of one.
LEMMA BufferNames ==
  ASSUME NEW r, NEW use, NEW n
  PROVE  <<r, use, n>> # NoBuffer
  BY DEF NoBuffer

\* The head of a channel is one of its messages, and the rest are the others.
LEMMA Taken ==
  ASSUME NEW S, NEW q \in Seq(S), q # <<>>
  PROVE  /\ Len(q) \in Nat /\ Len(q) >= 1
         /\ Head(q) = q[1] /\ q[1] \in S
         /\ Tail(q) \in Seq(S) /\ Len(Tail(q)) = Len(q) - 1
         /\ \A i \in 1..Len(Tail(q)) : Tail(q)[i] = q[i + 1]
         /\ \A i \in 1..Len(q) : q[i] \in S
<1>1. /\ Tail(q) \in Seq(S) /\ Len(Tail(q)) = Len(q) - 1
      /\ \A i \in 1..Len(Tail(q)) : Tail(q)[i] = q[i + 1]
      /\ Head(q) \in S
  BY HeadTailProperties
<1>2. Len(q) \in Nat /\ Len(q) # 0
  BY LenProperties, EmptySeq
<1>3. \A i \in 1..Len(q) : q[i] \in S
  BY ElementOfSeq
<1> QED
  BY <1>1, <1>2, <1>3

\* A message that is added comes last and leaves the others where they are.
LEMMA Added ==
  ASSUME NEW S, NEW q \in Seq(S), NEW m \in S
  PROVE  /\ Len(q) \in Nat
         /\ Append(q, m) \in Seq(S) /\ Len(Append(q, m)) = Len(q) + 1
         /\ \A i \in 1..Len(q) : Append(q, m)[i] = q[i] /\ q[i] \in S
         /\ Append(q, m)[Len(q) + 1] = m
  BY AppendProperties, LenProperties, ElementOfSeq

\* Typed holds of the initial state.
LEMMA InitTyped == Init => Typed
<1> SUFFICES ASSUME Init PROVE Typed
  OBVIOUS
<1>1. /\ next_request_id \in 1..(MaxRequests + 1) /\ failures \in 0..MaxFailures
      /\ ref_count \in [Request -> Int] /\ writes \in [Request -> 0..MaxWrites]
  BY BoundAssumption DEF Init
<1>2. sink \in [Request -> {"none", "waiting", "open", "paused", "closed"}]
  BY DEF Init
<1>3. result \in [Request -> ResultRecord]
  BY EmptySeq, Zenon DEF Init, ResultRecord
<1>4. client \in [Request -> ClientRecord]
  BY BoundAssumption DEF Init, ClientRecord
<1>5. to_host \in Seq(HostMessage) /\ to_engine \in Seq(EngineMessage)
  BY EmptySeq DEF Init
<1> QED
  BY <1>1, <1>2, <1>3, <1>4, <1>5 DEF Init, Typed

\* The commands that are sent are of the channel's type, each with its fields.
LEMMA NewCommands ==
  ASSUME NEW r \in Request
  PROVE  /\ Message("start", r, <<r, "start", 0>>, TRUE) \in HostMessage
         /\ \A n \in 0..MaxWrites :
              Message("body", r, <<r, "body", n>>, TRUE) \in HostMessage
         /\ Message("body", r, <<r, "body", 0>>, TRUE) \in HostMessage
         /\ Message("end", r, NoBuffer, TRUE) \in HostMessage
         /\ Cancel(r) \in HostMessage
  BY BoundAssumption DEF HostMessage, Message, Cancel, Buffer

\* The events that are sent are of the channel's type.
LEMMA NewEvents ==
  ASSUME NEW r \in Request
  PROVE  /\ Message("ready", r, NoBuffer, TRUE) \in EngineMessage
         /\ Message("headers", r, <<r, "headers", 0>>, TRUE) \in EngineMessage
         /\ \A n \in 1..MaxChunks :
              Message("chunk", r, <<r, "chunk", n>>, TRUE) \in EngineMessage
         /\ Message("end", r, NoBuffer, TRUE) \in EngineMessage
         /\ Message("end", r, NoBuffer, FALSE) \in EngineMessage
  BY BoundAssumption DEF EngineMessage, Message, Buffer

\* A result has headers when it had them or they have come.
KeepsHeaders(m, res) == Accepted(m, res).headers = (res.headers \/ m.op = "headers")

\* What onHostMessage makes of a result.
LEMMA Results ==
  ASSUME NEW res \in ResultRecord, NEW m \in EngineMessage
  PROVE  /\ Failed(res) \in ResultRecord /\ Failed(res).end = "failed"
         /\ Accepted(m, res) \in ResultRecord
         /\ m.op = "end" /\ m.ok => Accepted(m, res).end = "ok"
         /\ m.op = "end" /\ ~m.ok => Accepted(m, res).end = "failed"
         /\ m.op # "end" => Accepted(m, res).end = res.end
         /\ KeepsHeaders(m, res)
         /\ m.op = "chunk" =>
              Accepted(m, res).chunks = Append(res.chunks, m.buffer[3])
         /\ m.op # "chunk" => Accepted(m, res).chunks = res.chunks
<1>1. /\ m.op \in {"ready", "headers", "chunk", "end"} 
      /\ (m.ok = TRUE \/ m.ok = FALSE)
      /\ m.op = "chunk" => Append(res.chunks, m.buffer[3]) \in Seq(1..MaxChunks)
  BY EngineMessages, Added DEF ResultRecord
<1>2. Failed(res) \in ResultRecord /\ Failed(res).end = "failed"
      /\ Failed(res).headers = res.headers /\ Failed(res).chunks = res.chunks
  BY DEF Failed, ResultRecord
<1>3. CASE m.op = "ready"
  BY <1>2, <1>3 DEF Accepted, KeepsHeaders, ResultRecord
<1>4. CASE m.op = "headers"
  BY <1>2, <1>4 DEF Accepted, KeepsHeaders, ResultRecord
<1>5. CASE m.op = "chunk"
  BY <1>1, <1>2, <1>5 DEF Accepted, KeepsHeaders, ResultRecord
<1>6. CASE m.op = "end"
  BY <1>1, <1>2, <1>6 DEF Accepted, KeepsHeaders, ResultRecord
<1> QED
  BY <1>1, <1>3, <1>4, <1>5, <1>6

\* What happens to a client.
LEMMA Clients ==
  ASSUME NEW c \in ClientRecord
  PROVE  /\ Running(c) \in ClientRecord /\ Running(c).state = "running"
         /\ Running(c).headers = c.headers /\ Running(c).chunks = c.chunks
         /\ Ended(c) \in ClientRecord /\ Ended(c).state = "ended"
         /\ Ended(c).headers = c.headers /\ Ended(c).chunks = c.chunks
  BY DEF Running, Ended, ClientRecord

\* What a result of the client adds to what it has delivered.
LEMMA Deliveries ==
  ASSUME NEW c \in ClientRecord, NEW ready \in BOOLEAN, NEW headers \in BOOLEAN,
         NEW chunk \in BOOLEAN, chunk => c.chunks < MaxChunks
  PROVE  Delivered(c, ready, headers, chunk) \in ClientRecord
<1>1. (IF chunk THEN c.chunks + 1 ELSE c.chunks) \in 0..MaxChunks
  BY BoundAssumption DEF ClientRecord
<1>2. c.ready \in BOOLEAN /\ c.headers \in BOOLEAN
      /\ c.state \in {"none", "running", "ended"}
  BY Zenon DEF ClientRecord
<1>3. (c.ready \/ ready) \in BOOLEAN /\ (c.headers \/ headers) \in BOOLEAN
  BY <1>2, Zenon
<1> QED
  BY <1>1, <1>2, <1>3, Zenon DEF ClientRecord, Delivered

\* What is left of a result Request.callback works on.
LEMMA Callbacks ==
  ASSUME NEW c \in CallbackResult
  PROVE  /\ c # None /\ c.op = "callback" /\ c.request_id \in Request
         /\ \A d \in {ReadyDone(c), HeadersDone(c), ChunkDone(c)} :
              /\ d \in CallbackResult /\ d.request_id = c.request_id
              /\ d.last = c.last /\ d.ok = c.ok
         /\ ReadyDone(c).headers = c.headers /\ ReadyDone(c).chunk = c.chunk
         /\ ~HeadersDone(c).headers /\ HeadersDone(c).chunk = c.chunk
         /\ ~ChunkDone(c).chunk /\ ChunkDone(c).headers = c.headers
<1>1. c # None /\ c.op = "callback" /\ c.request_id \in Request
  BY DEF CallbackResult, None
<1>2. /\ ReadyDone(c) \in CallbackResult /\ ReadyDone(c).request_id = c.request_id
      /\ ReadyDone(c).last = c.last /\ ReadyDone(c).ok = c.ok
      /\ ReadyDone(c).headers = c.headers /\ ReadyDone(c).chunk = c.chunk
  BY Zenon DEF ReadyDone, CallbackResult
<1>3. /\ HeadersDone(c) \in CallbackResult
      /\ HeadersDone(c).request_id = c.request_id
      /\ HeadersDone(c).last = c.last /\ HeadersDone(c).ok = c.ok
      /\ ~HeadersDone(c).headers /\ HeadersDone(c).chunk = c.chunk
  BY Zenon DEF HeadersDone, CallbackResult
<1>4. /\ ChunkDone(c) \in CallbackResult
      /\ ChunkDone(c).request_id = c.request_id
      /\ ChunkDone(c).last = c.last /\ ChunkDone(c).ok = c.ok
      /\ ~ChunkDone(c).chunk /\ ChunkDone(c).headers = c.headers
  BY Zenon DEF ChunkDone, CallbackResult
<1> QED
  BY <1>1, <1>2, <1>3, <1>4, Zenon

\* A message of the right type can be added to a channel.
LEMMA Sends ==
  ASSUME Typed
  PROVE  /\ \A m \in HostMessage : Append(to_host, m) \in Seq(HostMessage)
         /\ \A m \in EngineMessage : Append(to_engine, m) \in Seq(EngineMessage)
  BY Added DEF Typed

\* A step counts at most one failure, or is written with its own count.
LEMMA Failures ==
  ASSUME Typed, Works \/ Fails
  PROVE  failures' \in 0..MaxFailures
  BY BoundAssumption DEF Works, Fails, Typed

\* abortTask: the signal is noted and a cancellation sent, or not.
LEMMA Aborts ==
  ASSUME Typed, NEW r \in Request, NEW channel, NEW before \in {0, 1},
         abortTask(r, channel, before)
  PROVE  /\ failures' \in 0..MaxFailures /\ aborted' = aborted \cup {r}
         /\ to_host' = channel \/ to_host' = Append(channel, Cancel(r))
<1>1. PICK fails \in {0, 1} :
        /\ failures' = failures + before + fails
        /\ failures' <= MaxFailures
        /\ to_host' = IF fails = 0 THEN Append(channel, Cancel(r)) ELSE channel
  BY Zenon DEF abortTask
<1>2. failures' \in 0..MaxFailures
  BY <1>1, BoundAssumption DEF Typed
<1> QED
  BY <1>1, <1>2 DEF abortTask

\* What the sink is before a failed update cancels it.
Opens(r) == sink[r] = "waiting" /\ result[r].can_stream /\ r \notin aborted

UpdatedTo(r, now) ==
  /\ Opens(r) => now = "open"
  /\ ~Opens(r) => now = sink[r] \/ (sink[r] = "waiting" /\ now = "closed")

\* onProgressUpdate on the sink, its reference and the channel.
LEMMA Updates ==
  ASSUME Typed, NEW r \in Request, onProgressUpdate(r)
  PROVE  /\ failures' \in 0..MaxFailures /\ aborted' \subseteq Request
         /\ to_host' = to_host \/ to_host' = Append(to_host, Cancel(r))
         /\ \E cancels \in BOOLEAN, now \in {"none", "waiting", "open", "paused", "closed"} :
              /\ UpdatedTo(r, now) /\ (cancels => now \in {"open", "paused"})
              /\ sink' = [sink EXCEPT ![r] = IF cancels THEN "closed" ELSE now]
              /\ ref_count' = [ref_count EXCEPT ![r] =
                   @ + Bit(Opens(r)) - Bit(result[r].end # "none") - Bit(cancels)]
<1> DEFINE starts == sink[r] = "waiting" /\ result[r].can_stream
           now == IF Opens(r) THEN "open" ELSE IF starts THEN "closed" ELSE sink[r]
<1>1. PICK cancels \in BOOLEAN :
        /\ cancels => now \in {"open", "paused"}
        /\ sink' = [sink EXCEPT ![r] = IF cancels THEN "closed" ELSE now]
        /\ ref_count' = [ref_count EXCEPT ![r] =
             @ + Bit(Opens(r)) - Bit(result[r].end # "none") - Bit(cancels)]
        /\ IF cancels /\ r \notin aborted THEN abortTask(r, to_host, 0)
           ELSE UNCHANGED <<aborted, to_host, failures>>
  BY Zenon DEF onProgressUpdate, Opens
<1>2. UpdatedTo(r, now) /\ now \in {"none", "waiting", "open", "paused", "closed"}
  BY DEF UpdatedTo, Opens, Typed
<1>3. /\ failures' \in 0..MaxFailures /\ aborted' \subseteq Request
      /\ to_host' = to_host \/ to_host' = Append(to_host, Cancel(r))
  <2>1. CASE abortTask(r, to_host, 0)
    BY <2>1, Aborts DEF Typed
  <2>2. CASE UNCHANGED <<aborted, to_host, failures>>
    BY <2>2 DEF Typed
  <2> QED
    BY <1>1, <2>1, <2>2
<1> HIDE DEF now
<1> QED
  BY <1>1, <1>2, <1>3

LastChunk(r) == Message("body", r, <<r, "body", 0>>, TRUE)
EndOfBody(r) == Message("end", r, NoBuffer, TRUE)

\* What writeEndRequest may add to the channel and to the buffers.
EndsBody(r) ==
  \E channel \in {to_host, Append(to_host, LastChunk(r))} :
    /\ \/ channel = to_host /\ buffers' = buffers
       \/ /\ channel = Append(to_host, LastChunk(r))
          /\ buffers' = buffers \cup {<<r, "body", 0>>}
    /\ to_host' \in {channel, Append(channel, EndOfBody(r)),
                     Append(channel, Cancel(r))}

\* writeEndRequest: the sink is closed and its reference given up; a last chunk
\* and the end or a cancellation are sent, or not.
LEMMA Closes ==
  ASSUME Typed, NEW r \in Request, writeEndRequest(r)
  PROVE  /\ failures' \in 0..MaxFailures
         /\ aborted' = aborted \/ aborted' = aborted \cup {r}
         /\ EndsBody(r)
<1>1. CASE r \notin aborted /\ abortTask(r, to_host, 0) /\ UNCHANGED buffers
  BY <1>1, Aborts DEF EndsBody
<1>2. ASSUME NEW framed \in BOOLEAN,
             buffers' = IF framed THEN buffers \cup {<<r, "body", 0>>} ELSE buffers,
             LET channel == IF framed THEN Append(to_host, LastChunk(r)) ELSE to_host IN
             \/ Works /\ to_host' = Append(channel, EndOfBody(r)) /\ UNCHANGED aborted
             \/ abortTask(r, channel, 1)
      PROVE  /\ failures' \in 0..MaxFailures
             /\ aborted' = aborted \/ aborted' = aborted \cup {r}
             /\ EndsBody(r)
  <2> DEFINE channel == IF framed THEN Append(to_host, LastChunk(r)) ELSE to_host
  <2>1. failures' \in 0..MaxFailures
        /\ (aborted' = aborted \/ aborted' = aborted \cup {r})
        /\ to_host' \in {channel, Append(channel, EndOfBody(r)), Append(channel, Cancel(r))}
    BY <1>2, Aborts DEF Works, Typed
  <2> QED
    BY <1>2, <2>1 DEF EndsBody
<1>3. \/ r \notin aborted /\ abortTask(r, to_host, 0) /\ UNCHANGED buffers
      \/ \E framed \in BOOLEAN :
           /\ buffers' = IF framed THEN buffers \cup {<<r, "body", 0>>} ELSE buffers
           /\ LET channel == IF framed THEN Append(to_host, LastChunk(r)) ELSE to_host IN
              \/ Works /\ to_host' = Append(channel, EndOfBody(r)) /\ UNCHANGED aborted
              \/ abortTask(r, channel, 1)
  BY DEF writeEndRequest, LastChunk, EndOfBody
<1> QED
  BY <1>1, <1>2, <1>3, Zenon

\* BridgePoll of an event whose handler is registered: one of two results is
\* stored, and the last one takes the handler and its reference away.
LEMMA Polls ==
  ASSUME Typed, BridgePoll, NEW r, r = Head(to_engine).request_id, r \in handlers
  PROVE  \E res \in {Accepted(Head(to_engine), result[r]), Failed(result[r])} :
           /\ res \in ResultRecord
           /\ res = Failed(result[r]) \/ failures' = failures
           /\ result' = [result EXCEPT ![r] = res]
           /\ scheduled' = scheduled \cup {r}
           /\ ref_count' = IF res.end # "none"
                           THEN [ref_count EXCEPT ![r] = @ - 1] ELSE ref_count
           /\ handlers' = IF res.end # "none" THEN handlers \ {r} ELSE handlers
           /\ failures' \in 0..MaxFailures
<1> DEFINE m == Head(to_engine)
<1>1. m \in EngineMessage /\ r \in Request
  BY Taken, EngineMessages DEF BridgePoll, Typed
<1>2. onHostMessage(m, result[r]) /\ handlers' = HandlersAfter(r, result'[r])
  BY DEF BridgePoll
<1> HIDE DEF m
<1>3. result[r] \in ResultRecord /\ r = m.request_id
  BY <1>1 DEF Typed, m
<1>4. PICK res \in {Accepted(m, result[r]), Failed(result[r])} :
        /\ Works \/ (res = Failed(result[r]) /\ Fails)
        /\ result' = [result EXCEPT ![r] = res]
        /\ scheduled' = scheduled \cup {r}
        /\ ref_count' = IF res.end # "none" THEN [ref_count EXCEPT ![r] = @ - 1]
                                            ELSE ref_count
  <2>1. CASE Works /\ acceptResult(m.request_id, Accepted(m, result[r]))
    BY <1>3, <2>1 DEF acceptResult
  <2>2. CASE Fails /\ acceptResult(m.request_id, Failed(result[r]))
    BY <1>3, <2>2 DEF acceptResult
  <2> QED
    BY <1>2, <2>1, <2>2, Zenon DEF onHostMessage
<1>5. res \in ResultRecord
  <2>1. Accepted(m, result[r]) \in ResultRecord /\ Failed(result[r]) \in ResultRecord
    BY <1>1, <1>3, Results
  <2> QED
    BY <2>1
<1>6. result'[r] = res
  BY <1>1, <1>4 DEF Typed
<1>7. failures' \in 0..MaxFailures
  BY <1>4, BoundAssumption DEF Works, Fails, Typed
<1> QED
  BY <1>2, <1>4, <1>5, <1>6, <1>7 DEF HandlersAfter, m, Works

\* The client calls back with some of what it has to deliver.
LEMMA CallsBack ==
  ASSUME Typed, NEW r \in Request, Result(r)
  PROVE  /\ cb = None /\ client[r].state = "running"
         /\ cb' \in CallbackResult /\ cb'.request_id = r
         /\ cb'.headers => ~client[r].headers
         /\ cb'.chunk => client[r].chunks < MaxChunks
         /\ cb'.last /\ cb'.ok => client'[r].headers
         /\ client' \in [Request -> ClientRecord]
         /\ \A q \in Request \ {r} : client'[q] = client[q]
         /\ client'[r].state = "running"
         /\ client'[r].headers = (client[r].headers \/ cb'.headers)
         /\ client'[r].chunks = IF cb'.chunk THEN client[r].chunks + 1
                                             ELSE client[r].chunks
<1>1. PICK ready, headers, chunk, last, ok \in BOOLEAN :
       /\ ready \/ headers \/ chunk \/ last
       /\ ready => sink[r] # "none" /\ ~client[r].ready
       /\ headers => ~client[r].headers
       /\ chunk => /\ client[r].headers \/ headers
                   /\ client[r].chunks < MaxChunks
       /\ last /\ ok => client[r].headers \/ headers
       /\ ~last => ok
       /\ cb' = [op |-> "callback", request_id |-> r, ready |-> ready,
                 headers |-> headers, chunk |-> chunk, last |-> last, ok |-> ok]
       /\ client' = [client EXCEPT ![r] = Delivered(client[r], ready, headers, chunk)]
  BY Zenon DEF Result
<1> DEFINE d == Delivered(client[r], ready, headers, chunk)
<1>2. /\ cb' \in CallbackResult /\ cb'.request_id = r /\ cb'.headers = headers
      /\ cb'.chunk = chunk /\ cb'.last = last /\ cb'.ok = ok
  BY <1>1, Zenon DEF CallbackResult
<1>3. client \in [Request -> ClientRecord] /\ client[r] \in ClientRecord
  BY DEF Typed
<1>4. /\ d \in ClientRecord /\ d.state = client[r].state
      /\ d.headers = (client[r].headers \/ headers)
      /\ d.chunks = IF chunk THEN client[r].chunks + 1 ELSE client[r].chunks
  <2>1. chunk => client[r].chunks < MaxChunks
    BY <1>1, Zenon
  <2>2. ready \in BOOLEAN /\ headers \in BOOLEAN /\ chunk \in BOOLEAN
    BY <1>1, Zenon
  <2>3. d \in ClientRecord
    BY <1>3, <2>1, <2>2, Deliveries, Zenon
  <2> QED
    BY <2>3, Zenon DEF Delivered
<1> HIDE DEF d
<1>5. client' = [client EXCEPT ![r] = d]
  BY <1>1 DEF d
<1>6. /\ client' \in [Request -> ClientRecord] /\ client'[r] = d
      /\ \A q \in Request \ {r} : client'[q] = client[q]
  BY <1>3, <1>4, <1>5
<1>7. cb = None /\ client[r].state = "running"
  BY DEF Result
<1> QED
  BY <1>1, <1>2, <1>4, <1>6, <1>7, Zenon

\* A request is scheduled, or cannot be made; Request.callback ends one.
LEMMA ClientSteps ==
  ASSUME Typed, start \/ CallbackTerminal
  PROVE  /\ client' \in [Request -> ClientRecord]
         /\ \A r \in Request : /\ client'[r].chunks = client[r].chunks
                               /\ client'[r].headers = client[r].headers
                               /\ \/ client'[r].state = client[r].state
                                  \/ /\ start /\ r = current.request_id
                                     /\ client'[r].state = "running"
                                  \/ /\ CallbackTerminal /\ r = cb.request_id
                                     /\ client'[r].state = "ended"
<1>1. client \in [Request -> ClientRecord]
  BY DEF Typed
<1>2. CASE start
  <2>1. \/ client' = client
        \/ client' = [client EXCEPT ![current.request_id] = Running(client[current.request_id])]
    BY <1>2 DEF start
  <2>2. \A r \in Request :
          /\ Running(client[r]) \in ClientRecord /\ Running(client[r]).state = "running"
          /\ Running(client[r]).headers = client[r].headers
          /\ Running(client[r]).chunks = client[r].chunks
    BY <1>1, Clients
  <2> QED
    BY <1>1, <1>2, <2>1, <2>2
<1>3. CASE CallbackTerminal
  <2>1. client' = [client EXCEPT ![cb.request_id] = Ended(client[cb.request_id])]
    BY <1>3 DEF CallbackTerminal
  <2>2. \A r \in Request :
          /\ Ended(client[r]) \in ClientRecord /\ Ended(client[r]).state = "ended"
          /\ Ended(client[r]).headers = client[r].headers
          /\ Ended(client[r]).chunks = client[r].chunks
    BY <1>1, Clients
  <2> QED
    BY <1>1, <1>3, <2>1, <2>2
<1> QED
  BY <1>2, <1>3

\* A terminal is sent, or the request is one whose end was lost.
LEMMA Terminals ==
  ASSUME Typed, NEW r \in Request, NEW ok \in BOOLEAN,
         SendOrLose(Message("end", r, NoBuffer, ok))
  PROVE  /\ failures' \in 0..MaxFailures
         /\ to_engine' \in Seq(EngineMessage) /\ lost' \subseteq Request
         /\ \/ /\ to_engine' = Append(to_engine, Message("end", r, NoBuffer, ok))
               /\ lost' = lost
            \/ to_engine' = to_engine /\ lost' = lost \cup {r}
<1>1. Message("end", r, NoBuffer, ok).request_id = r
  BY DEF Message
<1>2. Message("end", r, NoBuffer, ok) \in EngineMessage
  BY DEF Message, EngineMessage, Buffer
<1>3. failures' \in 0..MaxFailures
  BY BoundAssumption DEF SendOrLose, Works, Fails, Typed
<1>4. \/ /\ to_engine' = Append(to_engine, Message("end", r, NoBuffer, ok))
         /\ lost' = lost
      \/ to_engine' = to_engine /\ lost' = lost \cup {r}
  BY <1>1 DEF SendOrLose
<1>5. to_engine' \in Seq(EngineMessage) /\ lost' \subseteq Request
  BY <1>2, <1>4, Sends DEF Typed
<1> QED
  BY <1>3, <1>4, <1>5

\* Bytes are sent, or a terminal in their place, or that is lost too.
LEMMA Bytes ==
  ASSUME Typed, NEW r \in Request, NEW op, NEW n,
         Message(op, r, <<r, op, n>>, TRUE) \in EngineMessage,
         SendBytes(op, r, n)
  PROVE  /\ failures' \in 0..MaxFailures
         /\ to_engine' \in Seq(EngineMessage) /\ lost' \subseteq Request
         /\ \/ /\ to_engine' = Append(to_engine, Message(op, r, <<r, op, n>>, TRUE))
               /\ buffers' = buffers \cup {<<r, op, n>>} /\ lost' = lost
            \/ /\ to_engine' = Append(to_engine, Message("end", r, NoBuffer, FALSE))
               /\ buffers' = buffers /\ lost' = lost
            \/ /\ to_engine' = to_engine
               /\ buffers' = buffers /\ lost' = lost \cup {r}
<1>1. failures' \in 0..MaxFailures
  <2>1. \/ Works \/ Fails
        \/ failures + 1 < MaxFailures /\ failures' = failures + 2
    BY DEF SendBytes, Fails
  <2> QED
    BY <2>1, Failures, BoundAssumption DEF Typed
<1>2. \/ /\ to_engine' = Append(to_engine, Message(op, r, <<r, op, n>>, TRUE))
         /\ buffers' = buffers \cup {<<r, op, n>>} /\ lost' = lost
      \/ /\ to_engine' = Append(to_engine, Message("end", r, NoBuffer, FALSE))
         /\ buffers' = buffers /\ lost' = lost
      \/ /\ to_engine' = to_engine
         /\ buffers' = buffers /\ lost' = lost \cup {r}
  BY DEF SendBytes
<1>3. to_engine' \in Seq(EngineMessage) /\ lost' \subseteq Request
  BY <1>2, NewEvents, Sends DEF Typed
<1> QED
  BY <1>1, <1>2, <1>3

\* Every step keeps the types.
LEMMA TypedStep == Typed /\ ChunkInv /\ [Next]_vars => Typed'
<1> SUFFICES ASSUME Typed, ChunkInv, [Next]_vars PROVE Typed'
  OBVIOUS
<1> USE BoundAssumption
<1>1. CASE queue
  <2> DEFINE m == Message("start", next_request_id, <<next_request_id, "start", 0>>, TRUE)
  <2>1. next_request_id \in Request
    BY <1>1 DEF queue
  <2>2. m \in HostMessage
    BY <2>1, NewCommands
  <2>3. to_host' = to_host \/ to_host' = Append(to_host, m)
    BY <1>1 DEF queue
  <2> HIDE DEF m
  <2>4. to_host' \in Seq(HostMessage)
    BY <2>2, <2>3, Sends DEF Typed
  <2>5. failures' \in 0..MaxFailures
    <3>1. Works \/ Fails
      BY <1>1 DEF queue
    <3> QED
      BY <3>1, Failures
  <2>6. next_request_id' \in 1..(MaxRequests + 1)
    BY <1>1, <2>1 DEF queue, Request
  <2>7. sink' \in [Request -> {"none", "waiting", "open", "paused", "closed"}]
    BY <1>1, <2>1 DEF queue, Typed
  <2>9. ref_count' \in [Request -> Int]
    <3>1. ref_count' = ref_count \/ ref_count' = [ref_count EXCEPT ![next_request_id] = 2]
      BY <1>1 DEF queue
    <3> QED
      BY <2>1, <3>1 DEF Typed
  <2>8. handlers' \subseteq Request /\ finalised' \subseteq Request
    BY <1>1, <2>1 DEF queue, Typed
  <2> QED
    BY <1>1, <2>4, <2>5, <2>6, <2>7, <2>8, <2>9 DEF queue, Typed, hostVars, httpVars
<1>2. ASSUME NEW r \in Request, writeRequestData(r) PROVE Typed'
  <2> DEFINE m == Message("body", r, <<r, "body", writes[r] + 1>>, TRUE)
  <2>1. writes[r] + 1 \in 0..MaxWrites
    BY <1>2 DEF writeRequestData, Typed
  <2>2. m \in HostMessage
    BY <2>1, NewCommands, Zenon
  <2>3. to_host' = to_host \/ to_host' = Append(to_host, m)
    BY <1>2 DEF writeRequestData
  <2> HIDE DEF m
  <2>4. to_host' \in Seq(HostMessage)
    BY <2>2, <2>3, Sends DEF Typed
  <2>5. failures' \in 0..MaxFailures
    <3>1. Works \/ Fails
      BY <1>2 DEF writeRequestData
    <3> QED
      BY <3>1, Failures
  <2>6. /\ sink' \in [Request -> {"none", "waiting", "open", "paused", "closed"}]
        /\ writes' \in [Request -> 0..MaxWrites]
    BY <1>2, <2>1 DEF writeRequestData, Typed
  <2> QED
    BY <1>2, <2>4, <2>5, <2>6 DEF writeRequestData, Typed, hostVars, httpVars
<1>3. ASSUME NEW r \in Request, writeEndRequest(r) PROVE Typed'
  <2>1. failures' \in 0..MaxFailures /\ aborted' \subseteq Request
    BY <1>3, Closes DEF Typed
  <2>2. LastChunk(r) \in HostMessage /\ EndOfBody(r) \in HostMessage /\ Cancel(r) \in HostMessage
    BY NewCommands DEF LastChunk, EndOfBody
  <2>3. PICK channel \in {to_host, Append(to_host, LastChunk(r))} :
          to_host' \in {channel, Append(channel, EndOfBody(r)), Append(channel, Cancel(r))}
    BY <1>3, Closes DEF EndsBody
  <2>4. channel \in Seq(HostMessage)
    BY <2>2, <2>3, Sends DEF Typed
  <2>5. to_host' \in Seq(HostMessage)
    <3>1. /\ Append(channel, EndOfBody(r)) \in Seq(HostMessage)
          /\ Append(channel, Cancel(r)) \in Seq(HostMessage)
      BY <2>2, <2>4, Added
    <3> QED
      BY ONLY <2>3, <2>4, <3>1
  <2>6. /\ sink' \in [Request -> {"none", "waiting", "open", "paused", "closed"}]
        /\ ref_count' \in [Request -> Int]
    BY <1>3 DEF writeEndRequest, Typed
  <2> QED
    BY <1>3, <2>1, <2>5, <2>6 DEF writeEndRequest, Typed, hostVars, httpVars
<1>4. ASSUME NEW r \in Request, abortListener(r) PROVE Typed'
  <2>1. /\ failures' \in 0..MaxFailures /\ aborted' = aborted \cup {r}
        /\ to_host' = to_host \/ to_host' = Append(to_host, Cancel(r))
    BY <1>4, Aborts DEF abortListener
  <2>2. to_host' \in Seq(HostMessage)
    BY <2>1, NewCommands, Sends DEF Typed
  <2>3. /\ sink' \in [Request -> {"none", "waiting", "open", "paused", "closed"}]
        /\ ref_count' \in [Request -> Int]
    BY <1>4 DEF abortListener, Typed
  <2> QED
    BY <1>4, <2>1, <2>2, <2>3 DEF abortListener, Typed, hostVars, httpVars
<1>5. CASE BridgePoll
  <2> DEFINE r == Head(to_engine).request_id
  <2>1. Head(to_engine) \in EngineMessage /\ to_engine' \in Seq(EngineMessage)
    BY <1>5, Taken DEF BridgePoll, Typed
  <2>2. r \in Request
    BY <2>1, EngineMessages
  <2> HIDE DEF r
  <2>3. /\ failures' \in 0..MaxFailures /\ scheduled' \subseteq Request
        /\ handlers' \subseteq Request /\ ref_count' \in [Request -> Int]
        /\ result' \in [Request -> ResultRecord]
    <3>1. CASE r \in handlers
      <4>1. PICK res \in ResultRecord :
              /\ result' = [result EXCEPT ![r] = res]
              /\ scheduled' = scheduled \cup {r}
              /\ ref_count' = IF res.end # "none"
                              THEN [ref_count EXCEPT ![r] = @ - 1] ELSE ref_count
              /\ handlers' = IF res.end # "none" THEN handlers \ {r} ELSE handlers
              /\ failures' \in 0..MaxFailures
        BY <1>5, <3>1, Polls DEF r
      <4> QED
        BY <2>2, <4>1 DEF Typed
    <3>2. CASE r \notin handlers
      BY <1>5, <3>2 DEF BridgePoll, Typed, r
    <3> QED
      BY <3>1, <3>2
  <2> QED
    BY <1>5, <2>1, <2>3 DEF BridgePoll, Typed, hostVars, httpVars
<1>6. ASSUME NEW r \in Request, onProgressUpdate(r) PROVE Typed'
  <2>1. /\ failures' \in 0..MaxFailures /\ aborted' \subseteq Request
        /\ to_host' = to_host \/ to_host' = Append(to_host, Cancel(r))
    BY <1>6, Updates
  <2>2. to_host' \in Seq(HostMessage)
    BY <2>1, NewCommands, Sends DEF Typed
  <2>3. PICK cancels \in BOOLEAN, now \in {"none", "waiting", "open", "paused", "closed"} :
          /\ sink' = [sink EXCEPT ![r] = IF cancels THEN "closed" ELSE now]
          /\ ref_count' = [ref_count EXCEPT ![r] =
               @ + Bit(Opens(r)) - Bit(result[r].end # "none") - Bit(cancels)]
    BY <1>6, Updates
  <2>4. sink' \in [Request -> {"none", "waiting", "open", "paused", "closed"}]
    BY <2>3 DEF Typed
  <2>5. /\ Bit(Opens(r)) \in Int /\ Bit(result[r].end # "none") \in Int
        /\ Bit(cancels) \in Int
    BY DEF Bit
  <2>6. ref_count' \in [Request -> Int]
    <3>1. ref_count[r] + Bit(Opens(r)) - Bit(result[r].end # "none") - Bit(cancels) \in Int
      BY <2>5 DEF Typed
    <3> QED
      BY <2>3, <3>1 DEF Typed
  <2>7. /\ scheduled' \subseteq Request /\ finalised' \subseteq Request
        /\ UNCHANGED <<next_request_id, handlers, result, writes, to_engine, buffers,
                       hostVars, requests, httpVars, lost>>
    BY <1>6 DEF onProgressUpdate, Typed
  <2> QED
    BY <2>1, <2>2, <2>4, <2>6, <2>7 DEF Typed, hostVars, httpVars
<1>7. CASE HostReceive
  <2>1. current' \in HostMessage /\ to_host' \in Seq(HostMessage)
    BY <1>7, Taken DEF HostReceive, Typed
  <2>2. ~found /\ ~found'
    BY <1>7 DEF HostReceive, Typed, None
  <2> QED
    BY <1>7, <2>1, <2>2 DEF HostReceive, Typed, vmVars, httpVars
<1>8. CASE start
  <2>1. current \in HostMessage
    BY <1>8 DEF start, Typed, None
  <2> DEFINE r == current.request_id
  <2>2. r \in Request
    BY <2>1, HostMessages
  <2> HIDE DEF r
  <2>3. /\ failures' \in 0..MaxFailures /\ to_engine' \in Seq(EngineMessage)
        /\ lost' \subseteq Request /\ requests' \subseteq Request
        /\ client' \in [Request -> ClientRecord]
    <3>1. CASE /\ requests' = requests \cup {r}
               /\ client' = [client EXCEPT ![r] = Running(@)]
               /\ Works /\ UNCHANGED <<to_engine, lost>>
      BY <2>2, <3>1, Clients DEF Works, Typed
    <3>2. CASE /\ SendOrLose(Message("end", r, NoBuffer, FALSE))
               /\ UNCHANGED <<requests, client>>
      BY <2>2, <3>2, Terminals DEF Typed
    <3> QED
      BY <1>8, <3>1, <3>2 DEF start, r
  <2>4. ~found /\ found' \in BOOLEAN /\ ~found'
    BY <1>8, Zenon DEF start, Typed
  <2> QED
    BY <1>8, <2>3, <2>4 DEF start, Typed, vmVars
<1>9. CASE find
  <2>1. current # None
    BY <1>9 DEF find, None
  <2>2. found' \in BOOLEAN /\ (found' => current' # None)
    BY <1>9, <2>1, Zenon DEF find, Typed
  <2>3. current' \in HostMessage \cup {None}
    BY <1>9 DEF find, Typed
  <2> QED
    BY <1>9, <2>2, <2>3 DEF find, Typed, vmVars, httpVars
<1>10. CASE Use
  BY <1>10 DEF Use, Typed, vmVars, httpVars
<1>11. ASSUME NEW r \in Request, Result(r) PROVE Typed'
  <2>1. cb' \in CallbackResult /\ client' \in [Request -> ClientRecord]
    BY <1>11, CallsBack
  <2>2. UNCHANGED <<vmVars, to_host, to_engine, hostVars, requests, failures, lost>>
    BY <1>11 DEF Result
  <2> QED
    BY <2>1, <2>2 DEF Typed, vmVars, hostVars
<1>12. CASE CallbackReady
  <2>1. cb \in CallbackResult
    BY <1>12 DEF CallbackReady, Typed
  <2>2. ReadyDone(cb) \in CallbackResult /\ cb.request_id \in Request
    BY <2>1, Callbacks
  <2>3. failures' \in 0..MaxFailures
    <3>1. Works \/ Fails
      BY <1>12 DEF CallbackReady
    <3> QED
      BY <3>1, Failures
  <2>4. \/ to_engine' = Append(to_engine, Message("ready", cb.request_id, NoBuffer, TRUE))
        \/ to_engine' = to_engine
    BY <1>12 DEF CallbackReady
  <2>5. to_engine' \in Seq(EngineMessage)
    BY <2>2, <2>4, NewEvents, Sends DEF Typed
  <2> QED
    BY <1>12, <2>2, <2>3, <2>5 DEF CallbackReady, Typed, vmVars, hostVars
<1>13. CASE CallbackHeaders
  <2>1. cb \in CallbackResult
    BY <1>13 DEF CallbackHeaders, Typed
  <2>2. HeadersDone(cb) \in CallbackResult /\ cb.request_id \in Request
    BY <2>1, Callbacks
  <2>3. to_engine' \in Seq(EngineMessage) /\ failures' \in 0..MaxFailures
        /\ lost' \subseteq Request
    BY <1>13, <2>2, NewEvents, Bytes DEF CallbackHeaders
  <2> QED
    BY <1>13, <2>2, <2>3 DEF CallbackHeaders, Typed, vmVars, hostVars
<1>14. CASE CallbackBody
  <2>1. cb \in CallbackResult
    BY <1>14 DEF CallbackBody, Typed
  <2>2. ChunkDone(cb) \in CallbackResult /\ cb.request_id \in Request
    BY <2>1, Callbacks
  <2>3. to_engine' \in Seq(EngineMessage) /\ failures' \in 0..MaxFailures
        /\ lost' \subseteq Request
    <3>1. client[cb.request_id].chunks \in 1..MaxChunks
      <4>1. client[cb.request_id].chunks \in 0..MaxChunks
        BY <2>2 DEF Typed, ClientRecord
      <4>2. client[cb.request_id].chunks > 0
        BY <1>14, <2>1, Callbacks DEF CallbackBody, ChunkInv
      <4> QED
        BY <4>1, <4>2
    <3> QED
      BY <1>14, <2>2, <3>1, NewEvents, Bytes DEF CallbackBody
  <2> QED
    BY <1>14, <2>2, <2>3 DEF CallbackBody, Typed, vmVars, hostVars
<1>15. CASE CallbackReturns
  BY <1>15 DEF CallbackReturns, Typed, vmVars, hostVars
<1>16. CASE CallbackTerminal
  <2>1. cb \in CallbackResult
    BY <1>16 DEF CallbackTerminal, CallbackEnds, Typed
  <2>2. cb.request_id \in Request /\ cb.ok \in BOOLEAN
    BY <2>1, Zenon DEF CallbackResult
  <2>3. to_engine' \in Seq(EngineMessage) /\ failures' \in 0..MaxFailures
        /\ lost' \subseteq Request
    BY <1>16, <2>2, Terminals DEF CallbackTerminal, sendTerminal
  <2>4. client' \in [Request -> ClientRecord]
    BY <1>16, <2>2, Clients DEF CallbackTerminal, Typed
  <2> QED
    BY <1>16, <2>3, <2>4 DEF CallbackTerminal, Typed, vmVars, hostVars
<1>17. CASE destroy
  BY <1>17 DEF destroy, Typed, vmVars, hostVars
<1>18. CASE UNCHANGED vars
  BY <1>18 DEF vars, Typed
<1> QED
  BY <1>1, <1>2, <1>3, <1>4, <1>5, <1>6, <1>7, <1>8, <1>9, <1>10, <1>11, <1>12,
     <1>13, <1>14, <1>15, <1>16, <1>17, <1>18
  DEF Next, Client, Vm, Host, Callback

\* The actions that leave what the HTTP thread knows alone.
LEMMA OtherThreads ==
  ASSUME [Next]_vars
  PROVE  \/ UNCHANGED httpVars
         \/ start \/ \E r \in Request : Result(r)
         \/ CallbackReady \/ CallbackHeaders \/ CallbackBody
         \/ CallbackReturns \/ CallbackTerminal \/ destroy
<1>1. queue \/ (\E r \in Request : writeRequestData(r) \/ writeEndRequest(r)
                                      \/ abortListener(r)
                                      \/ onProgressUpdate(r))
        => UNCHANGED httpVars
  BY DEF queue, writeRequestData, writeEndRequest, abortListener, onProgressUpdate
<1>2. BridgePoll \/ HostReceive \/ find \/ Use \/ UNCHANGED vars => UNCHANGED httpVars
  BY DEF BridgePoll, HostReceive, find, Use, vars, httpVars
<1> QED
  BY <1>1, <1>2 DEF Next, Client, Vm, Host, Callback

\* Every step keeps the count of chunks ahead of what is sent.
LEMMA ChunkStep == Typed /\ ChunkInv /\ [Next]_vars => ChunkInv'
<1> SUFFICES ASSUME Typed, ChunkInv, [Next]_vars PROVE ChunkInv'
  OBVIOUS
<1>1. CASE UNCHANGED httpVars
  BY <1>1 DEF httpVars, ChunkInv
<1>2. CASE start \/ CallbackTerminal
  <2>1. cb' = cb
    BY <1>2 DEF start, CallbackTerminal
  <2>2. \A r \in Request : /\ client'[r].chunks = client[r].chunks
                           /\ client'[r].headers = client[r].headers
    BY <1>2, ClientSteps
  <2>3. cb.op = "callback" => cb.request_id \in Request
    BY DEF Typed, CallbackResult, None
  <2> QED
    BY <2>1, <2>2, <2>3 DEF ChunkInv
<1>3. ASSUME NEW r \in Request, Result(r) PROVE ChunkInv'
  <2>1. client[r].chunks \in 0..MaxChunks
    BY DEF Typed, ClientRecord
  <2> QED
    <3>1. cb'.chunk => client'[r].chunks > 0
      BY <1>3, <2>1, CallsBack
    <3>2. cb'.headers => client'[r].headers
      BY <1>3, CallsBack, Zenon
    <3>3. cb'.request_id = r
      BY <1>3, CallsBack
    <3> QED
      BY <3>1, <3>2, <3>3 DEF ChunkInv
<1>4. CASE CallbackReady
  <2>1. cb \in CallbackResult /\ client' = client /\ cb' = ReadyDone(cb)
    BY <1>4 DEF CallbackReady, Typed
  <2>2. /\ cb.op = "callback" /\ ReadyDone(cb).request_id = cb.request_id
        /\ ReadyDone(cb).headers = cb.headers /\ ReadyDone(cb).chunk = cb.chunk
    BY <2>1, Callbacks
  <2> QED
    BY <2>1, <2>2 DEF ChunkInv
<1>5. CASE CallbackHeaders
  <2>1. cb \in CallbackResult /\ client' = client /\ cb' = HeadersDone(cb)
    BY <1>5 DEF CallbackHeaders, Typed
  <2>2. /\ cb.op = "callback" /\ HeadersDone(cb).request_id = cb.request_id
        /\ ~HeadersDone(cb).headers /\ HeadersDone(cb).chunk = cb.chunk
    BY <2>1, Callbacks
  <2> QED
    BY <2>1, <2>2 DEF ChunkInv
<1>6. CASE CallbackBody
  BY <1>6, Callbacks DEF CallbackBody, ChunkInv, Typed
<1>7. CASE CallbackReturns \/ destroy
  BY <1>7 DEF CallbackReturns, destroy, ChunkInv, None
<1> QED
  BY <1>1, <1>2, <1>3, <1>4, <1>5, <1>6, <1>7, OtherThreads

\* Typed and ChunkInv hold throughout.
LEMMA Typing == Spec => [](Typed /\ ChunkInv)
<1>1. Init => ChunkInv
  BY DEF Init, ChunkInv, None
<1> QED
  BY <1>1, InitTyped, TypedStep, ChunkStep, PTL DEF Spec

-----------------------------------------------------------------------------
(* The references to a tasklet.                                            *)

\* The actions of the other threads leave the VM's state alone.
LEMMA OtherThanVm ==
  ASSUME [Next]_vars
  PROVE  \/ UNCHANGED vmVars
         \/ queue \/ BridgePoll
         \/ \E r \in Request : \/ writeRequestData(r) \/ writeEndRequest(r)
                               \/ abortListener(r) \/ onProgressUpdate(r)
<1>1. HostReceive \/ start \/ find \/ Use => UNCHANGED vmVars
  BY DEF HostReceive, start, find, Use
<1>2. Callback \/ (\E r \in Request : Result(r)) => UNCHANGED vmVars
  BY DEF Callback, Result, CallbackReady, CallbackHeaders, CallbackBody,
         CallbackReturns, CallbackTerminal, destroy
<1>3. UNCHANGED vars => UNCHANGED vmVars
  BY DEF vars, vmVars
<1> QED
  BY <1>1, <1>2, <1>3 DEF Next, Client, Vm, Host

\* RefsInv holds of the initial state.
LEMMA InitRefs == Init => RefsInv
  BY DEF Init, RefsInv, TaskletInv, Request

\* A tasklet whose fields and memberships stay the same stays in order.
Untouched(r) ==
  /\ ref_count'[r] = ref_count[r] /\ sink'[r] = sink[r]
  /\ result'[r] = result[r]
  /\ r \in handlers' <=> r \in handlers
  /\ r \in scheduled' <=> r \in scheduled
  /\ r \in finalised' <=> r \in finalised

\* Such a tasklet keeps its part of the invariant.
LEMMA UntouchedTasklet ==
  ASSUME NEW r \in Request, TaskletInv(r), Untouched(r),
         next_request_id' = next_request_id
  PROVE  TaskletInv(r)'
  BY DEF TaskletInv, Untouched, Bit

\* Every step keeps the references exact.
LEMMA RefsStep == Typed /\ RefsInv /\ [Next]_vars => RefsInv'
<1> SUFFICES ASSUME Typed, RefsInv, [Next]_vars, NEW q \in Request
             PROVE  TaskletInv(q)'
  BY DEF RefsInv
<1>0. TaskletInv(q)
  BY DEF RefsInv
<1> USE BoundAssumption
<1>1. CASE UNCHANGED vmVars
  BY <1>0, <1>1, UntouchedTasklet DEF vmVars, Untouched
<1>2. CASE queue
  <2> DEFINE r == next_request_id
  <2>1. r \in Request /\ next_request_id' = r + 1
        /\ UNCHANGED <<scheduled, result>>
    BY <1>2 DEF queue
  <2>2. \/ /\ handlers' = handlers \cup {r} /\ ref_count' = [ref_count EXCEPT ![r] = 2]
           /\ \E s \in {"none", "waiting"} : sink' = [sink EXCEPT ![r] = s]
           /\ UNCHANGED finalised
        \/ finalised' = finalised \cup {r} /\ UNCHANGED <<handlers, ref_count, sink>>
    BY <1>2 DEF queue
  <2>3. CASE q = r
    <3>1. /\ ref_count[q] = 0 /\ sink[q] = "none" /\ result[q].end = "none"
          /\ q \notin handlers /\ q \notin scheduled /\ q \notin finalised
      BY <1>0, <2>3 DEF TaskletInv, Request
    <3>2. q < next_request_id' /\ result'[q].end = "none" /\ q \notin scheduled'
      BY <2>1, <2>3, <3>1 DEF Request
    <3>3. \/ /\ q \in handlers' /\ q \notin finalised' /\ ref_count'[q] = 2
             /\ sink'[q] \in {"none", "waiting"}
          \/ /\ q \notin handlers' /\ q \in finalised' /\ ref_count'[q] = 0
             /\ sink'[q] = "none"
      BY <2>2, <2>3, <3>1 DEF Typed
    <3>4. ~(q >= next_request_id')
      BY <2>1, <2>3 DEF Request
    <3>5. ref_count'[q] = Bit(q \notin finalised') + Bit(q \in handlers')
                          + Bit(sink'[q] \in {"open", "paused"})
      BY <3>3 DEF Bit
    <3> QED
      BY <3>2, <3>3, <3>4, <3>5 DEF TaskletInv
  <2>4. CASE q # r
    <3>1. Untouched(q)
      BY <2>1, <2>2, <2>4 DEF Untouched, Typed
    <3> QED
      BY <1>0, <2>1, <2>4, <3>1 DEF TaskletInv, Untouched, Bit, Typed, Request
  <2> QED
    BY <2>3, <2>4
<1>3. ASSUME NEW r \in Request, writeRequestData(r) PROVE TaskletInv(q)'
  <2>1. /\ UNCHANGED <<next_request_id, handlers, ref_count, scheduled, result, finalised>>
        /\ sink[r] = "open"
        /\ sink' = sink \/ \E s \in {"open", "paused"} : sink' = [sink EXCEPT ![r] = s]
    BY <1>3 DEF writeRequestData
  <2> QED
    BY <1>0, <2>1 DEF TaskletInv, Typed, Bit
<1>4. ASSUME NEW r \in Request, writeEndRequest(r) PROVE TaskletInv(q)'
  <2>1. /\ UNCHANGED <<next_request_id, handlers, scheduled, result, finalised>>
        /\ sink[r] = "open" /\ sink' = [sink EXCEPT ![r] = "closed"]
        /\ ref_count' = [ref_count EXCEPT ![r] = @ - 1]
    BY <1>4 DEF writeEndRequest
  <2>2. CASE q = r
    <3>1. /\ ref_count'[q] = ref_count[q] - 1 /\ ref_count[q] \in Int
          /\ sink[q] = "open" /\ sink'[q] = "closed"
      BY <2>1, <2>2 DEF Typed
    <3> QED
      BY <1>0, <2>1, <3>1 DEF TaskletInv, Bit
  <2>3. CASE q # r
    BY <1>0, <2>1, <2>3, UntouchedTasklet DEF Untouched, Typed
  <2> QED
    BY <2>2, <2>3
<1>5. ASSUME NEW r \in Request, abortListener(r) PROVE TaskletInv(q)'
  <2>1. /\ UNCHANGED <<next_request_id, handlers, scheduled, result, finalised>>
        /\ sink' = [sink EXCEPT ![r] = IF sink[r] = "none" THEN sink[r] ELSE "closed"]
        /\ ref_count' = IF sink[r] \in {"open", "paused"}
                        THEN [ref_count EXCEPT ![r] = @ - 1] ELSE ref_count
    BY <1>5 DEF abortListener
  <2>2. CASE q = r
    <3>1. /\ ref_count'[q] = IF sink[q] \in {"open", "paused"}
                             THEN ref_count[q] - 1 ELSE ref_count[q]
          /\ ref_count[q] \in Int
          /\ sink'[q] = IF sink[q] = "none" THEN sink[q] ELSE "closed"
      BY <2>1, <2>2 DEF Typed
    <3> QED
      BY <1>0, <2>1, <3>1 DEF TaskletInv, Bit
  <2>3. CASE q # r
    BY <1>0, <2>1, <2>3, UntouchedTasklet DEF Untouched, Typed
  <2> QED
    BY <2>2, <2>3
<1>6. ASSUME NEW r \in Request, onProgressUpdate(r) PROVE TaskletInv(q)'
  <2>1. /\ UNCHANGED <<next_request_id, handlers, result>>
        /\ r \in scheduled /\ scheduled' = scheduled \ {r}
        /\ finalised' = IF result[r].end # "none" THEN finalised \cup {r} ELSE finalised
    BY <1>6 DEF onProgressUpdate
  <2>2. PICK cancels \in BOOLEAN, now \in {"none", "waiting", "open", "paused", "closed"} :
          /\ UpdatedTo(r, now) /\ (cancels => now \in {"open", "paused"})
          /\ sink' = [sink EXCEPT ![r] = IF cancels THEN "closed" ELSE now]
          /\ ref_count' = [ref_count EXCEPT ![r] =
               @ + Bit(Opens(r)) - Bit(result[r].end # "none") - Bit(cancels)]
    BY <1>6, Updates
  <2>3. CASE q = r
    <3>1. /\ ref_count'[q] = ref_count[q] + Bit(Opens(q)) - Bit(result[q].end # "none")
                             - Bit(cancels)
          /\ ref_count[q] \in Int
          /\ sink'[q] = IF cancels THEN "closed" ELSE now
          /\ cancels => now \in {"open", "paused"}
          /\ Opens(q) => now = "open" /\ sink[q] = "waiting"
          /\ ~Opens(q) => now = sink[q] \/ (sink[q] = "waiting" /\ now = "closed")
      BY <2>2, <2>3 DEF Typed, UpdatedTo, Opens
    <3>2. /\ q \in scheduled /\ q \notin scheduled'
          /\ q \in finalised' <=> (q \in finalised \/ result[q].end # "none")
      BY <2>1, <2>3
    <3>3. /\ UNCHANGED <<next_request_id, handlers>> /\ result'[q] = result[q]
      BY <2>1
    <3>4. q < next_request_id /\ q \notin finalised
      BY <1>0, <3>2 DEF TaskletInv, Request, Typed
    <3>5. ref_count'[q] = Bit(q \notin finalised') + Bit(q \in handlers')
                          + Bit(sink'[q] \in {"open", "paused"})
      <4>1. ref_count[q] = 1 + Bit(q \in handlers) + Bit(sink[q] \in {"open", "paused"})
        BY <1>0, <3>4 DEF TaskletInv, Bit
      <4>2. Bit(q \notin finalised') = 1 - Bit(result[q].end # "none")
        BY <3>2, <3>4 DEF Bit
      <4>3. Bit(sink'[q] \in {"open", "paused"}) =
              Bit(sink[q] \in {"open", "paused"}) + Bit(Opens(q)) - Bit(cancels)
        <5>1. Bit(now \in {"open", "paused"}) =
                Bit(sink[q] \in {"open", "paused"}) + Bit(Opens(q))
          BY <3>1 DEF Bit
        <5>2. Bit(sink'[q] \in {"open", "paused"}) =
                Bit(now \in {"open", "paused"}) - Bit(cancels)
          BY <3>1 DEF Bit
        <5>3. /\ Bit(sink[q] \in {"open", "paused"}) \in Int
              /\ Bit(Opens(q)) \in Int /\ Bit(cancels) \in Int
          BY DEF Bit
        <5> QED
          BY ONLY <5>1, <5>2, <5>3
      <4>4. /\ Bit(q \in handlers) \in Int /\ Bit(sink[q] \in {"open", "paused"}) \in Int
            /\ Bit(Opens(q)) \in Int /\ Bit(result[q].end # "none") \in Int
            /\ Bit(cancels) \in Int
        BY DEF Bit
      <4> QED
        BY <3>1, <3>3, <4>1, <4>2, <4>3, <4>4
    <3>6. ~(q >= next_request_id')
      BY <3>3, <3>4 DEF Request, Typed
    <3>7. q \in handlers => result[q].end = "none"
      BY <1>0 DEF TaskletInv
    <3> QED
      BY <3>2, <3>3, <3>4, <3>5, <3>6, <3>7, <1>0 DEF TaskletInv
  <2>4. CASE q # r
    BY <1>0, <2>1, <2>2, <2>4, UntouchedTasklet DEF Untouched, Typed
  <2> QED
    BY <2>3, <2>4
<1>7. CASE BridgePoll
  <2> DEFINE r == Head(to_engine).request_id
  <2>1. r \in Request
    BY <1>7, Taken, EngineMessages DEF BridgePoll, Typed
  <2>2. UNCHANGED <<next_request_id, sink, finalised>>
    BY <1>7 DEF BridgePoll
  <2> HIDE DEF r
  <2>3. CASE r \in handlers
    <3>1. PICK res \in ResultRecord :
            /\ result' = [result EXCEPT ![r] = res]
            /\ scheduled' = scheduled \cup {r}
            /\ ref_count' = IF res.end # "none"
                            THEN [ref_count EXCEPT ![r] = @ - 1] ELSE ref_count
            /\ handlers' = IF res.end # "none" THEN handlers \ {r} ELSE handlers
      BY <1>7, <2>3, Polls DEF r
    <3>2. CASE q = r
      <4>1. /\ result'[q] = res /\ q \in scheduled' /\ q \in handlers
            /\ ref_count'[q] = IF res.end # "none" THEN ref_count[q] - 1 ELSE ref_count[q]
            /\ q \in handlers' <=> res.end = "none"
            /\ ref_count[q] \in Int
        BY <2>3, <3>1, <3>2 DEF Typed
      <4>2. q < next_request_id /\ q \notin finalised
        BY <1>0, <4>1 DEF TaskletInv, Request, Typed
      <4>3. sink'[q] = sink[q] /\ next_request_id' = next_request_id /\ finalised' = finalised
        BY <2>2
      <4>4. ~(q >= next_request_id)
        BY <4>2 DEF Request, Typed
      <4> QED
        BY <1>0, <4>1, <4>2, <4>3, <4>4 DEF TaskletInv, Bit
    <3>3. CASE q # r
      BY <1>0, <2>2, <3>1, <3>3, UntouchedTasklet DEF Untouched, Typed
    <3> QED
      BY <3>2, <3>3
  <2>4. CASE r \notin handlers
    <3>1. UNCHANGED <<result, scheduled, ref_count, handlers>>
      BY <1>7, <2>4 DEF BridgePoll, r
    <3> QED
      BY <1>0, <2>2, <3>1, UntouchedTasklet DEF Untouched
  <2> QED
    BY <2>3, <2>4
<1> QED
  BY <1>1, <1>2, <1>3, <1>4, <1>5, <1>6, <1>7, OtherThanVm

\* References to tasklets are exact, and no progress update is queued after
\* the last one, for any number of fetches, chunks and failures.
THEOREM TaskletReferences == Spec => []TaskletRefsExact
<1>1. Typed /\ RefsInv => TaskletRefsExact
  BY BoundAssumption DEF Typed, RefsInv, TaskletInv, TaskletRefsExact, Request
<1> QED
  BY <1>1, Typing, InitRefs, RefsStep, PTL DEF Spec

\* The state is well typed; in particular no tasklet's count goes below zero.
THEOREM TypeCorrect == Spec => []TypeOK
<1>1. Typed /\ RefsInv => TypeOK
  <2> SUFFICES ASSUME Typed, RefsInv PROVE TypeOK
    OBVIOUS
  <2>1. ASSUME NEW r \in Request PROVE ref_count[r] \in Nat
    <3>1. TaskletInv(r) /\ (r >= next_request_id \/ r < next_request_id)
      BY BoundAssumption DEF RefsInv, Typed, Request
    <3> QED
      BY <3>1 DEF TaskletInv, Bit
  <2>2. ref_count \in [Request -> Nat]
    BY <2>1 DEF Typed
  <2>3. found => current # None
    BY DEF Typed, None
  <2> QED
    BY <2>2, <2>3 DEF Typed, TypeOK, ResultRecord, ClientRecord
<1> QED
  BY <1>1, Typing, InitRefs, RefsStep, PTL DEF Spec

-----------------------------------------------------------------------------
(* The buffers and the messages that carry them.                           *)

\* The buffers of commands and of events are never the same.
LEMMA Kinds ==
  ASSUME NEW h \in HostMessage, NEW e \in EngineMessage
  PROVE  /\ h.buffer # NoBuffer => /\ h.buffer[1] \in Request /\ h.buffer[3] \in Nat
                                   /\ h.buffer[2] \in {"start", "body"}
         /\ e.buffer # NoBuffer => /\ e.buffer[1] \in Request /\ e.buffer[3] \in Nat
                                   /\ e.buffer[2] \in {"headers", "chunk"}
         /\ h.buffer = e.buffer => h.buffer = NoBuffer
  BY BoundAssumption DEF HostMessage, EngineMessage

\* Adding a message whose buffer is new keeps the buffers distinct.
LEMMA DistinctAdded ==
  ASSUME NEW S, NEW q \in Seq(S), NEW m \in S, Distinct(q),
         m.buffer # NoBuffer => \A i \in 1..Len(q) : q[i].buffer # m.buffer
  PROVE  Distinct(Append(q, m))
<1> DEFINE w == Append(q, m)
<1>1. /\ Len(q) \in Nat /\ Len(w) = Len(q) + 1 /\ w[Len(q) + 1] = m
      /\ \A i \in 1..Len(q) : w[i] = q[i]
  BY Added
<1> HIDE DEF w
<1>2. Distinct(w)
  BY <1>1 DEF Distinct
<1> QED
  BY <1>2 DEF w

\* Taking the first message keeps them distinct, and from its own.
LEMMA DistinctTaken ==
  ASSUME NEW S, NEW q \in Seq(S), q # <<>>, Distinct(q)
  PROVE  /\ Distinct(Tail(q))
         /\ Head(q).buffer # NoBuffer =>
              \A i \in 1..Len(Tail(q)) : Tail(q)[i].buffer # Head(q).buffer
<1> DEFINE w == Tail(q)
<1>1. /\ Len(q) \in Nat /\ Len(q) >= 1 /\ Len(w) = Len(q) - 1 /\ Head(q) = q[1]
      /\ \A i \in 1..Len(w) : w[i] = q[i + 1]
  BY Taken
<1> HIDE DEF w
<1>2. Distinct(w) /\ (q[1].buffer # NoBuffer => \A i \in 1..Len(w) : w[i].buffer # q[1].buffer)
  <2>1. ASSUME NEW i \in 1..Len(w) PROVE i + 1 \in 1..Len(q) /\ w[i] = q[i + 1] /\ i + 1 # 1
    BY <1>1
  <2>2. 1 \in 1..Len(q)
    BY <1>1
  <2>3. ASSUME NEW i \in 1..Len(w), NEW j \in 1..Len(w), w[i].buffer = w[j].buffer,
               w[i].buffer # NoBuffer
        PROVE  i = j
    <3>1. i + 1 = j + 1
      BY <2>1, <2>3 DEF Distinct
    <3> QED
      BY <3>1
  <2>4. ASSUME q[1].buffer # NoBuffer, NEW i \in 1..Len(w) PROVE w[i].buffer # q[1].buffer
    BY <2>1, <2>2, <2>4 DEF Distinct
  <2> QED
    BY <2>3, <2>4 DEF Distinct
<1> QED
  BY <1>1, <1>2 DEF w

\* The channel to the host when a command with a new buffer, or none, is sent.
LEMMA HostSent ==
  ASSUME NEW q \in Seq(HostMessage), NEW c, NEW n, NEW w, NEW s,
         HostChannel(q, c, n, w, s), NEW m \in HostMessage,
         m.buffer # NoBuffer =>
           /\ HostBufferOK(m.buffer, n, w, s)
           /\ \A i \in 1..Len(q) : q[i].buffer # m.buffer
           /\ c # None => c.buffer # m.buffer
  PROVE  HostChannel(Append(q, m), c, n, w, s)
<1> DEFINE v == Append(q, m)
<1>1. /\ Len(q) \in Nat /\ Len(v) = Len(q) + 1 /\ v[Len(q) + 1] = m
      /\ \A i \in 1..Len(q) : v[i] = q[i]
  BY Added
<1>2. Distinct(v)
  BY DistinctAdded DEF HostChannel
<1> HIDE DEF v
<1>3. HostChannel(v, c, n, w, s)
  BY <1>1, <1>2 DEF HostChannel
<1> QED
  BY <1>3 DEF v

\* The channel to the host when its first command is taken.
LEMMA HostTaken ==
  ASSUME NEW q \in Seq(HostMessage), q # <<>>, NEW n, NEW w, NEW s,
         HostChannel(q, None, n, w, s)
  PROVE  HostChannel(Tail(q), Head(q), n, w, s)
<1>1. /\ Len(q) \in Nat /\ Len(q) >= 1 /\ Len(Tail(q)) = Len(q) - 1 /\ Head(q) = q[1]
      /\ \A i \in 1..Len(Tail(q)) : Tail(q)[i] = q[i + 1]
  BY Taken
<1>2. /\ Distinct(Tail(q))
      /\ Head(q).buffer # NoBuffer =>
           \A i \in 1..Len(Tail(q)) : Tail(q)[i].buffer # Head(q).buffer
  BY DistinctTaken DEF HostChannel
<1> DEFINE v == Tail(q)  h == Head(q)
<1> HIDE DEF v, h
<1>3. HostChannel(v, h, n, w, s)
  BY <1>1, <1>2 DEF HostChannel, v, h
<1> QED
  BY <1>3 DEF v, h

\* ... and when the host is through with it.
LEMMA HostDone ==
  ASSUME NEW q, NEW c, NEW n, NEW w, NEW s, HostChannel(q, c, n, w, s)
  PROVE  HostChannel(q, None, n, w, s)
  BY DEF HostChannel

\* What commands say of their tasklets stays true as the tasklets go on.
LEMMA HostLater ==
  ASSUME NEW q \in Seq(HostMessage), NEW c \in HostMessage \cup {None},
         NEW n \in Int, NEW m \in Int, n <= m,
         NEW w \in [Request -> Nat], NEW v \in [Request -> Nat],
         \A r \in Request : w[r] <= v[r],
         NEW s, NEW t, \A r \in Request : s[r] = "closed" => t[r] = "closed",
         HostChannel(q, c, n, w, s)
  PROVE  HostChannel(q, c, m, v, t)
<1>1. ASSUME NEW h \in HostMessage, h.buffer # NoBuffer, HostBufferOK(h.buffer, n, w, s)
      PROVE  HostBufferOK(h.buffer, m, v, t)
  <2>1. h.buffer[1] \in Request /\ h.buffer[3] \in Nat
    BY <1>1, BoundAssumption DEF HostMessage
  <2>2. h.buffer[1] \in Int
    BY <2>1 DEF Request
  <2> QED
    <3>1. PICK b : b = h.buffer
      OBVIOUS
    <3>2. b[1] \in Request /\ b[1] \in Int /\ b[3] \in Int /\ HostBufferOK(b, n, w, s)
      BY <1>1, <2>1, <2>2, <3>1
    <3>3. w[b[1]] \in Int /\ v[b[1]] \in Int /\ w[b[1]] <= v[b[1]]
      BY <3>2
    <3>4. s[b[1]] = "closed" => t[b[1]] = "closed"
      BY <3>2
    <3>5. b[1] < m
      BY <3>2 DEF HostBufferOK
    <3>6. b[2] = "body" => b[3] <= v[b[1]] /\ (b[3] = 0 => t[b[1]] = "closed")
      BY <3>2, <3>3, <3>4 DEF HostBufferOK
    <3> QED
      BY <3>1, <3>5, <3>6 DEF HostBufferOK
<1>2. \A i \in 1..Len(q) : q[i] \in HostMessage
  BY ElementOfSeq
<1>3. c # None => c \in HostMessage
  OBVIOUS
<1> QED
  BY <1>1, <1>2, <1>3 DEF HostChannel

\* The channel to the engine when an event with a new buffer, or none, is sent.
LEMMA EngineSent ==
  ASSUME NEW q \in Seq(EngineMessage), NEW t, NEW h, EngineChannel(q, t, h),
         NEW m \in EngineMessage,
         m.buffer # NoBuffer =>
           /\ EngineBufferOK(m.buffer, t, h)
           /\ \A i \in 1..Len(q) : q[i].buffer # m.buffer
  PROVE  EngineChannel(Append(q, m), t, h)
<1> DEFINE v == Append(q, m)
<1>1. /\ Len(q) \in Nat /\ Len(v) = Len(q) + 1 /\ v[Len(q) + 1] = m
      /\ \A i \in 1..Len(q) : v[i] = q[i]
  BY Added
<1>2. Distinct(v)
  BY DistinctAdded DEF EngineChannel
<1> HIDE DEF v
<1>3. EngineChannel(v, t, h)
  BY <1>1, <1>2 DEF EngineChannel
<1> QED
  BY <1>3 DEF v

\* The channel to the engine when its first event is taken.
LEMMA EngineTaken ==
  ASSUME NEW q \in Seq(EngineMessage), q # <<>>, NEW t, NEW h,
         EngineChannel(q, t, h)
  PROVE  EngineChannel(Tail(q), t, h)
<1> DEFINE v == Tail(q)
<1>1. /\ Len(q) \in Nat /\ Len(q) >= 1 /\ Len(v) = Len(q) - 1
      /\ \A i \in 1..Len(v) : v[i] = q[i + 1]
  BY Taken
<1>2. Distinct(v)
  BY DistinctTaken DEF EngineChannel
<1> HIDE DEF v
<1>3. EngineChannel(v, t, h)
  BY <1>1, <1>2 DEF EngineChannel
<1> QED
  BY <1>3 DEF v

\* What events say of the callback stays true as it goes on.
LEMMA EngineLater ==
  ASSUME NEW q \in Seq(EngineMessage), NEW h, NEW g, h \subseteq g,
         NEW t \in [Request -> Int], NEW u \in [Request -> Int],
         \A r \in Request : t[r] <= u[r],
         EngineChannel(q, t, h)
  PROVE  EngineChannel(q, u, g)
<1>1. ASSUME NEW e \in EngineMessage, e.buffer # NoBuffer, EngineBufferOK(e.buffer, t, h)
      PROVE  EngineBufferOK(e.buffer, u, g)
  <2>1. e.buffer[1] \in Request /\ e.buffer[3] \in Nat
    BY <1>1, BoundAssumption DEF EngineMessage
  <2> QED
    BY <1>1, <2>1 DEF EngineBufferOK
<1>2. \A i \in 1..Len(q) : q[i] \in EngineMessage
  BY ElementOfSeq
<1> QED
  BY <1>1, <1>2 DEF EngineChannel

\* The buffers that two channels and the command in hand carry.
CarriedBy(q) == {q[i].buffer : i \in 1..Len(q)}
InHand(c) == IF c # None THEN {c.buffer} ELSE {}
AllBuffers(q, p, c) == (CarriedBy(q) \cup CarriedBy(p) \cup InHand(c)) \ {NoBuffer}

\* BuffersAreCarried in these terms.
LEMMA CarriedIs ==
  ASSUME NEW q \in Seq(HostMessage), NEW p \in Seq(EngineMessage), NEW c
  PROVE  ({q[i].buffer : i \in DOMAIN q} \cup {p[i].buffer : i \in DOMAIN p}
            \cup (IF c # None THEN {c.buffer} ELSE {})) \ {NoBuffer}
         = AllBuffers(q, p, c)
<1>1. DOMAIN q = 1..Len(q) /\ DOMAIN p = 1..Len(p)
  BY LenProperties
<1> QED
  BY <1>1 DEF AllBuffers, CarriedBy, InHand

\* A channel carries what it did, and the buffer of a message sent on it.
LEMMA CarriedAdded ==
  ASSUME NEW S, NEW q \in Seq(S), NEW m \in S
  PROVE  CarriedBy(Append(q, m)) = CarriedBy(q) \cup {m.buffer}
<1> DEFINE v == Append(q, m)
<1>1. /\ Len(q) \in Nat /\ Len(v) = Len(q) + 1 /\ v[Len(q) + 1] = m
      /\ \A i \in 1..Len(q) : v[i] = q[i]
  BY Added
<1> HIDE DEF v
<1>2. 1..Len(v) = (1..Len(q)) \cup {Len(q) + 1}
  BY <1>1
<1>3. CarriedBy(v) = CarriedBy(q) \cup {m.buffer}
  BY <1>1, <1>2 DEF CarriedBy
<1> QED
  BY <1>3 DEF v

\* What is taken from a channel and what is left are what it carried.
LEMMA CarriedTaken ==
  ASSUME NEW S, NEW q \in Seq(S), q # <<>>
  PROVE  CarriedBy(q) = CarriedBy(Tail(q)) \cup {Head(q).buffer}
<1> DEFINE v == Tail(q)
<1>1. /\ Len(q) \in Nat /\ Len(q) >= 1 /\ Len(v) = Len(q) - 1 /\ Head(q) = q[1]
      /\ \A i \in 1..Len(v) : v[i] = q[i + 1]
  BY Taken
<1> HIDE DEF v
<1>2. \A i \in 1..Len(q) : i = 1 \/ (i - 1 \in 1..Len(v) /\ v[i - 1] = q[i])
  BY <1>1
<1>3. \A i \in 1..Len(v) : i + 1 \in 1..Len(q) /\ v[i] = q[i + 1]
  BY <1>1
<1>4. 1 \in 1..Len(q)
  BY <1>1
<1>5. CarriedBy(q) \subseteq CarriedBy(v) \cup {q[1].buffer}
  BY <1>2 DEF CarriedBy
<1>6. CarriedBy(v) \cup {q[1].buffer} \subseteq CarriedBy(q)
  BY <1>3, <1>4 DEF CarriedBy
<1> QED
  BY <1>1, <1>5, <1>6 DEF v

\* A command in hand is given back with its buffer.
LEMMA HandReleased ==
  ASSUME NEW q \in Seq(HostMessage), NEW p \in Seq(EngineMessage),
         NEW c \in HostMessage, NEW n, NEW w, NEW s, HostChannel(q, c, n, w, s)
  PROVE  AllBuffers(q, p, None) = AllBuffers(q, p, c) \ {c.buffer}
<1>1. c # None
  BY HostMessages
<1>2. c.buffer # NoBuffer => c.buffer \notin CarriedBy(q)
  BY <1>1 DEF HostChannel, CarriedBy
<1>3. c.buffer # NoBuffer => c.buffer \notin CarriedBy(p)
  BY Kinds, ElementOfSeq DEF CarriedBy
<1> QED
  BY <1>1, <1>2, <1>3 DEF AllBuffers, InHand

\* An event is dispatched and its buffer released.
LEMMA EventReleased ==
  ASSUME NEW q \in Seq(HostMessage), NEW p \in Seq(EngineMessage), p # <<>>,
         NEW c \in HostMessage \cup {None}, NEW t, NEW h, EngineChannel(p, t, h)
  PROVE  AllBuffers(q, Tail(p), c) = AllBuffers(q, p, c) \ {Head(p).buffer}
<1> DEFINE b == Head(p).buffer
<1>1. Head(p) \in EngineMessage /\ CarriedBy(p) = CarriedBy(Tail(p)) \cup {b}
  BY CarriedTaken, Taken
<1>2. b # NoBuffer => b \notin CarriedBy(Tail(p))
  BY DistinctTaken DEF CarriedBy, EngineChannel
<1>3. b # NoBuffer => b \notin CarriedBy(q)
  BY <1>1, Kinds, ElementOfSeq DEF CarriedBy
<1>4. b # NoBuffer => b \notin InHand(c)
  BY <1>1, Kinds DEF InHand
<1> QED
  BY <1>1, <1>2, <1>3, <1>4 DEF AllBuffers

\* What Request.callback has tried changes only when it sends bytes.
LEMMA TriedStays ==
  ASSUME Typed, ChunkInv,
         \/ UNCHANGED httpVars
         \/ start \/ \E r \in Request : Result(r)
         \/ CallbackReady \/ CallbackReturns \/ CallbackTerminal \/ destroy
  PROVE  /\ \A r \in Request : Tried(r)' = Tried(r)
         /\ HeadersTried' = HeadersTried
<1> SUFFICES ASSUME NEW r \in Request
             PROVE  /\ Tried(r)' = Tried(r)
                    /\ r \in HeadersTried' <=> r \in HeadersTried
  BY DEF HeadersTried
<1>0. client[r].chunks \in 0..MaxChunks
  BY DEF Typed, ClientRecord
<1>1. CASE UNCHANGED httpVars
  BY <1>1 DEF httpVars, Tried, HeadersTried, InCallback
<1>2. CASE start \/ CallbackTerminal
  <2>1. cb' = cb
    BY <1>2 DEF start, CallbackTerminal
  <2>2. client'[r].chunks = client[r].chunks /\ client'[r].headers = client[r].headers
    BY <1>2, ClientSteps
  <2> QED
    BY <2>1, <2>2 DEF Tried, HeadersTried, InCallback
<1>3. ASSUME NEW q \in Request, Result(q)
      PROVE  /\ Tried(r)' = Tried(r)
             /\ r \in HeadersTried' <=> r \in HeadersTried
  <2>1. ~InCallback(r) /\ (InCallback(r)' <=> r = q)
    BY <1>3, CallsBack DEF InCallback, None, CallbackResult
  <2>2. CASE r # q
    BY <1>3, <2>1, <2>2, CallsBack DEF Tried, HeadersTried
  <2>3. CASE r = q
    <3>1. Tried(r)' = Tried(r)
      BY <1>0, <1>3, <2>1, <2>3, CallsBack DEF Tried, Bit
    <3>2. r \in HeadersTried' <=> r \in HeadersTried
      BY <1>3, <2>1, <2>3, CallsBack DEF HeadersTried
    <3> QED
      BY <3>1, <3>2
  <2> QED
    BY <2>2, <2>3
<1>4. CASE CallbackReady
  <2>1. cb \in CallbackResult /\ cb' = ReadyDone(cb) /\ client' = client
    BY <1>4 DEF CallbackReady, Typed
  <2> QED
    BY <2>1, Callbacks DEF Tried, HeadersTried, InCallback
<1>5. CASE CallbackReturns \/ destroy
  <2>1. cb \in CallbackResult /\ cb' = None /\ client' = client /\ ~cb.headers /\ ~cb.chunk
    BY <1>5 DEF CallbackReturns, destroy, CallbackEnds, Typed
  <2> QED
    BY <2>1 DEF Tried, HeadersTried, InCallback, None
<1> QED
  BY <1>1, <1>2, <1>3, <1>4, <1>5

\* ... the headers of its request,
LEMMA TriedHeaders ==
  ASSUME Typed, ChunkInv, CallbackHeaders
  PROVE  /\ cb \in CallbackResult /\ cb.request_id \in Request
         /\ cb.request_id \notin HeadersTried
         /\ HeadersTried' = HeadersTried \cup {cb.request_id}
         /\ \A r \in Request : Tried(r)' = Tried(r)
<1>1. /\ cb \in CallbackResult /\ cb.headers
      /\ cb' = HeadersDone(cb) /\ client' = client
  BY DEF CallbackHeaders, Typed
<1>2. /\ cb.request_id \in Request /\ cb.op = "callback" /\ cb'.op = "callback"
      /\ ~cb'.headers /\ cb'.chunk = cb.chunk /\ cb'.request_id = cb.request_id
  BY <1>1, Callbacks
<1>3. client[cb.request_id].headers
  BY <1>1, <1>2 DEF ChunkInv
<1>4. cb.request_id \notin HeadersTried
      /\ HeadersTried' = HeadersTried \cup {cb.request_id}
  BY <1>1, <1>2, <1>3 DEF HeadersTried, InCallback
<1>5. \A r \in Request : Tried(r)' = Tried(r)
  BY <1>1, <1>2 DEF Tried, InCallback
<1> QED
  BY <1>1, <1>2, <1>4, <1>5

\* ... or its latest chunk.
LEMMA TriedBody ==
  ASSUME Typed, ChunkInv, CallbackBody
  PROVE  /\ cb \in CallbackResult /\ cb.request_id \in Request
         /\ HeadersTried' = HeadersTried
         /\ \A r \in Request : r # cb.request_id => Tried(r)' = Tried(r)
         /\ client[cb.request_id].chunks \in 1..MaxChunks
         /\ Tried(cb.request_id) = client[cb.request_id].chunks - 1
         /\ \A r \in Request :
              r = cb.request_id => Tried(r)' = client[cb.request_id].chunks
<1>1. /\ cb \in CallbackResult /\ cb.chunk
      /\ cb' = ChunkDone(cb) /\ client' = client
  BY DEF CallbackBody, Typed
<1>2. /\ cb.request_id \in Request /\ cb.op = "callback" /\ cb'.op = "callback"
      /\ ~cb'.chunk /\ cb'.headers = cb.headers /\ cb'.request_id = cb.request_id
  BY <1>1, Callbacks
<1>3. client[cb.request_id].chunks \in 0..MaxChunks
  BY <1>2 DEF Typed, ClientRecord
<1>4. client[cb.request_id].chunks > 0
  BY <1>1, <1>2 DEF ChunkInv
<1>5. HeadersTried' = HeadersTried
  BY <1>1, <1>2 DEF HeadersTried, InCallback
<1>6. \A r \in Request : r # cb.request_id => Tried(r)' = Tried(r)
  BY <1>1, <1>2 DEF Tried, InCallback
<1>7. /\ Tried(cb.request_id) = client[cb.request_id].chunks - 1
      /\ \A r \in Request :
           r = cb.request_id => Tried(r)' = client[cb.request_id].chunks
  BY <1>1, <1>2, <1>3 DEF Tried, InCallback, Bit
<1> QED
  BY <1>1, <1>2, <1>3, <1>4, <1>5, <1>6, <1>7

TriedChunks == [r \in Request |-> Tried(r)]

\* BuffersInv, its parts stated of the channels.
BuffersAre(bufs, q, p, c, n, w, s, t, h) ==
  /\ bufs = AllBuffers(q, p, c)
  /\ HostChannel(q, c, n, w, s)
  /\ EngineChannel(p, t, h)

\* BuffersInv is the same statement.
LEMMA BuffersInvIs ==
  ASSUME Typed
  PROVE  BuffersInv <=> BuffersAre(buffers, to_host, to_engine, current,
                                   next_request_id, writes, sink,
                                   TriedChunks, HeadersTried)
  BY CarriedIs DEF Typed, BuffersInv, BuffersAreCarried, Carried, BuffersAre, TriedChunks

\* BuffersInv holds of the initial state.
LEMMA InitBuffers == Init => BuffersInv
  BY EmptySeq DEF Init, BuffersInv, BuffersAreCarried, Carried, HostChannel,
                  EngineChannel, Distinct

\* Every step keeps buffers and messages together.
LEMMA BuffersStep ==
  Typed /\ Typed' /\ ChunkInv /\ RefsInv /\ BuffersInv /\ [Next]_vars => BuffersInv'
<1> SUFFICES ASSUME Typed, Typed', ChunkInv, RefsInv, BuffersInv, [Next]_vars
             PROVE  BuffersInv'
  OBVIOUS
<1> DEFINE Goal == BuffersAre(buffers', to_host', to_engine', current',
                              next_request_id', writes', sink',
                              TriedChunks', HeadersTried')
<1>0. Goal => BuffersInv'
  BY CarriedIs DEF Typed, BuffersInv, BuffersAreCarried, Carried, BuffersAre, TriedChunks
<1> SUFFICES Goal
  BY <1>0
<1>a. /\ buffers = AllBuffers(to_host, to_engine, current)
      /\ HostChannel(to_host, current, next_request_id, writes, sink)
      /\ EngineChannel(to_engine, TriedChunks, HeadersTried)
  BY BuffersInvIs DEF BuffersAre
<1>b. /\ to_host \in Seq(HostMessage) /\ to_engine \in Seq(EngineMessage)
      /\ current \in HostMessage \cup {None}
      /\ next_request_id \in Int /\ next_request_id' \in Int
      /\ writes \in [Request -> Nat] /\ writes' \in [Request -> Nat]
      /\ sink \in [Request -> {"none", "waiting", "open", "paused", "closed"}]
  BY BoundAssumption DEF Typed
<1>c. \/ UNCHANGED httpVars
      \/ start \/ \E r \in Request : Result(r)
      \/ CallbackReady \/ CallbackReturns \/ CallbackTerminal \/ destroy
      => TriedChunks' = TriedChunks /\ HeadersTried' = HeadersTried
  BY TriedStays DEF TriedChunks
<1>d. ASSUME NEW r \in Request, sink[r] # "none" PROVE r < next_request_id
  BY <1>d, BoundAssumption DEF RefsInv, TaskletInv, Typed, Request
<1>e. ASSUME next_request_id <= next_request_id',
             \A x \in Request : writes[x] <= writes'[x],
             \A x \in Request : sink[x] = "closed" => sink'[x] = "closed"
      PROVE  HostChannel(to_host, current, next_request_id', writes', sink')
  BY <1>a, <1>b, <1>e, HostLater
<1>1. CASE queue
  <2> DEFINE r == next_request_id  b == <<r, "start", 0>>  m == Message("start", r, b, TRUE)
  <2>1. /\ r \in Request /\ next_request_id' = r + 1
        /\ UNCHANGED <<writes, to_engine, current>>
    BY <1>1 DEF queue, hostVars
  <2>2. \A x \in Request : x # r => sink'[x] = sink[x]
    BY <1>1, <1>b DEF queue
  <2>3. \A x \in Request : sink[x] = "closed" => sink'[x] = "closed"
    BY <1>b, <1>d, <2>1, <2>2
  <2>4. HostChannel(to_host, current, next_request_id', writes', sink')
    <3>1. next_request_id <= next_request_id' /\ \A x \in Request : writes[x] <= writes'[x]
      BY <1>b, <2>1
    <3> QED
      BY <1>e, <2>3, <3>1
  <2>5. TriedChunks' = TriedChunks /\ HeadersTried' = HeadersTried
    BY <1>1, <1>c DEF queue
  <2>6. CASE to_host' = to_host /\ buffers' = buffers
    BY <1>a, <2>1, <2>4, <2>5, <2>6 DEF BuffersAre
  <2>7. CASE to_host' = Append(to_host, m) /\ buffers' = buffers \cup {b}
    <3>1. m \in HostMessage /\ m.buffer = b /\ b # NoBuffer
      BY <2>1, NewCommands, BufferNames DEF Message
    <3>2. HostBufferOK(b, next_request_id', writes', sink')
      BY <1>b, <2>1 DEF HostBufferOK
    <3>3. ~HostBufferOK(b, next_request_id, writes, sink)
      BY <1>b DEF HostBufferOK
    <3>4. (\A i \in 1..Len(to_host) : to_host[i].buffer # b) /\ (current # None => current.buffer # b)
      BY <1>a, <3>1, <3>3 DEF HostChannel
    <3> HIDE DEF m, b, r
    <3>5. HostChannel(to_host', current', next_request_id', writes', sink')
      BY <1>b, <2>1, <2>4, <2>7, <3>1, <3>2, <3>4, HostSent
    <3>6. buffers' = AllBuffers(to_host', to_engine', current')
      BY <1>a, <1>b, <2>1, <2>7, <3>1, CarriedAdded DEF AllBuffers
    <3> QED
      BY <1>a, <2>1, <2>5, <3>5, <3>6 DEF BuffersAre
  <2> QED
    BY <1>1, <2>6, <2>7 DEF queue
<1>2. ASSUME NEW r \in Request, writeRequestData(r) PROVE Goal
  <2> DEFINE k == writes[r] + 1  b == <<r, "body", k>>  m == Message("body", r, b, TRUE)
  <2>1. /\ UNCHANGED <<next_request_id, to_engine, current>>
        /\ sink[r] = "open" /\ writes' = [writes EXCEPT ![r] = k]
        /\ sink' = sink \/ \E s \in {"open", "paused"} : sink' = [sink EXCEPT ![r] = s]
    BY <1>2 DEF writeRequestData, hostVars
  <2>2. k \in 0..MaxWrites /\ k # 0 /\ writes'[r] = k
    BY <1>2, <1>b, <2>1, BoundAssumption DEF writeRequestData, Typed
  <2>3. HostChannel(to_host, current, next_request_id', writes', sink')
    <3>1. next_request_id <= next_request_id' /\ \A x \in Request : writes[x] <= writes'[x]
      BY <1>b, <2>1
    <3>2. \A x \in Request : sink[x] = "closed" => sink'[x] = "closed"
      BY <1>b, <2>1
    <3> QED
      BY <1>e, <3>1, <3>2
  <2>4. TriedChunks' = TriedChunks /\ HeadersTried' = HeadersTried
    BY <1>2, <1>c DEF writeRequestData
  <2>5. CASE to_host' = to_host /\ buffers' = buffers
    BY <1>a, <2>1, <2>3, <2>4, <2>5 DEF BuffersAre
  <2>6. CASE to_host' = Append(to_host, m) /\ buffers' = buffers \cup {b}
    <3>1. m \in HostMessage
      BY <2>2, NewCommands, Zenon
    <3>2. m.buffer = b /\ b # NoBuffer /\ b[1] = r /\ b[2] = "body" /\ b[3] = k
      BY BufferNames DEF Message
    <3>3. r < next_request_id
      BY <1>d, <2>1
    <3> HIDE DEF m, b
    <3>4. HostBufferOK(b, next_request_id', writes', sink')
      BY <1>b, <2>1, <2>2, <3>2, <3>3 DEF HostBufferOK
    <3>5. ~HostBufferOK(b, next_request_id, writes, sink)
      BY <1>b, <3>2 DEF HostBufferOK
    <3>6. (\A i \in 1..Len(to_host) : to_host[i].buffer # b) /\ (current # None => current.buffer # b)
      BY <1>a, <3>2, <3>5 DEF HostChannel
    <3>7. HostChannel(to_host', current', next_request_id', writes', sink')
      BY <1>b, <2>1, <2>3, <2>6, <3>1, <3>2, <3>4, <3>6, HostSent
    <3>8. buffers' = AllBuffers(to_host', to_engine', current')
      BY <1>a, <1>b, <2>1, <2>6, <3>1, <3>2, CarriedAdded DEF AllBuffers
    <3> QED
      BY <1>a, <2>1, <2>4, <3>7, <3>8 DEF BuffersAre
  <2> QED
    BY <1>2, <2>5, <2>6 DEF writeRequestData
<1>3. ASSUME NEW r \in Request, writeEndRequest(r) PROVE Goal
  <2> DEFINE b == <<r, "body", 0>>
  <2>1. /\ UNCHANGED <<next_request_id, writes, to_engine, current>>
        /\ sink[r] = "open" /\ sink' = [sink EXCEPT ![r] = "closed"]
    BY <1>3 DEF writeEndRequest, hostVars
  <2>2. HostChannel(to_host, current, next_request_id', writes', sink')
    <3>1. next_request_id <= next_request_id' /\ \A x \in Request : writes[x] <= writes'[x]
      BY <1>b, <2>1
    <3>2. \A x \in Request : sink[x] = "closed" => sink'[x] = "closed"
      BY <1>b, <2>1
    <3> QED
      BY <1>e, <3>1, <3>2
  <2>3. TriedChunks' = TriedChunks /\ HeadersTried' = HeadersTried
    BY <1>3, <1>c DEF writeEndRequest
  <2>4. PICK channel \in {to_host, Append(to_host, LastChunk(r))} :
          /\ \/ channel = to_host /\ buffers' = buffers
             \/ channel = Append(to_host, LastChunk(r)) /\ buffers' = buffers \cup {b}
          /\ to_host' \in {channel, Append(channel, EndOfBody(r)), Append(channel, Cancel(r))}
    BY <1>3, Closes DEF EndsBody
  <2>5. /\ LastChunk(r) \in HostMessage /\ EndOfBody(r) \in HostMessage
        /\ Cancel(r) \in HostMessage
        /\ LastChunk(r).buffer = b /\ b # NoBuffer /\ b[1] = r /\ b[2] = "body" /\ b[3] = 0
        /\ EndOfBody(r).buffer = NoBuffer /\ Cancel(r).buffer = NoBuffer
    BY NewCommands, BufferNames DEF LastChunk, EndOfBody, Message, Cancel
  <2>6. channel \in Seq(HostMessage)
    BY <1>b, <2>4, <2>5, Sends
  <2> HIDE DEF b
  <2>7. /\ HostChannel(channel, current, next_request_id', writes', sink')
        /\ buffers' = AllBuffers(channel, to_engine, current)
    <3>1. CASE channel = to_host /\ buffers' = buffers
      BY <1>a, <2>2, <3>1
    <3>2. CASE channel = Append(to_host, LastChunk(r)) /\ buffers' = buffers \cup {b}
      <4>1. r < next_request_id
        BY <1>d, <2>1
      <4>2. HostBufferOK(b, next_request_id', writes', sink')
        BY <1>b, <2>1, <2>5, <4>1 DEF HostBufferOK
      <4>3. ~HostBufferOK(b, next_request_id, writes, sink)
        BY <1>b, <2>1, <2>5 DEF HostBufferOK
      <4>4. (\A i \in 1..Len(to_host) : to_host[i].buffer # b) /\ (current # None => current.buffer # b)
        BY <1>a, <2>5, <4>3 DEF HostChannel
      <4>5. HostChannel(channel, current, next_request_id', writes', sink')
        BY <1>b, <2>2, <2>5, <3>2, <4>2, <4>4, HostSent
      <4>6. buffers' = AllBuffers(channel, to_engine, current)
        BY <1>a, <1>b, <2>5, <3>2, CarriedAdded DEF AllBuffers
      <4> QED
        BY <4>5, <4>6
    <3> QED
      BY <2>4, <3>1, <3>2
  <2>8. /\ HostChannel(to_host', current, next_request_id', writes', sink')
        /\ buffers' = AllBuffers(to_host', to_engine, current)
    <3>1. ASSUME NEW m \in HostMessage, m.buffer = NoBuffer
          PROVE  /\ HostChannel(Append(channel, m), current, next_request_id', writes', sink')
                 /\ AllBuffers(Append(channel, m), to_engine, current) =
                      AllBuffers(channel, to_engine, current)
      <4>1. CarriedBy(Append(channel, m)) = CarriedBy(channel) \cup {NoBuffer}
        BY <2>6, <3>1, CarriedAdded
      <4> QED
        BY <2>6, <2>7, <3>1, <4>1, HostSent DEF AllBuffers
    <3> QED
      BY <2>4, <2>5, <2>7, <3>1
  <2> QED
    BY <1>a, <2>1, <2>3, <2>8 DEF BuffersAre
<1>4. ASSUME NEW r \in Request, abortListener(r) PROVE Goal
  <2>1. /\ UNCHANGED <<next_request_id, writes, to_engine, current, buffers>>
        /\ sink' = [sink EXCEPT ![r] = IF sink[r] = "none" THEN sink[r] ELSE "closed"]
    BY <1>4 DEF abortListener, hostVars
  <2>2. HostChannel(to_host, current, next_request_id', writes', sink')
    <3>1. next_request_id <= next_request_id' /\ \A x \in Request : writes[x] <= writes'[x]
      BY <1>b, <2>1
    <3>2. \A x \in Request : sink[x] = "closed" => sink'[x] = "closed"
      BY <1>b, <2>1
    <3> QED
      BY <1>e, <3>1, <3>2
  <2>3. TriedChunks' = TriedChunks /\ HeadersTried' = HeadersTried
    BY <1>4, <1>c DEF abortListener
  <2>4. to_host' = to_host \/ to_host' = Append(to_host, Cancel(r))
    BY <1>4, Aborts DEF abortListener
  <2>5. Cancel(r) \in HostMessage /\ Cancel(r).buffer = NoBuffer
    BY NewCommands DEF Cancel, Message
  <2>6. CarriedBy(Append(to_host, Cancel(r))) = CarriedBy(to_host) \cup {NoBuffer}
    BY <1>b, <2>5, CarriedAdded
  <2>7. HostChannel(to_host', current', next_request_id', writes', sink')
    BY <1>b, <2>1, <2>2, <2>4, <2>5, HostSent
  <2>8. buffers' = AllBuffers(to_host', to_engine', current')
    BY <1>a, <2>1, <2>4, <2>6 DEF AllBuffers
  <2> QED
    BY <1>a, <2>1, <2>3, <2>7, <2>8 DEF BuffersAre
<1>5. ASSUME NEW r \in Request, onProgressUpdate(r) PROVE Goal
  <2>1. UNCHANGED <<next_request_id, writes, to_engine, current, buffers>>
    BY <1>5 DEF onProgressUpdate, hostVars
  <2>2. \A x \in Request : sink[x] = "closed" => sink'[x] = "closed"
    <3>1. PICK cancels \in BOOLEAN, now \in {"none", "waiting", "open", "paused", "closed"} :
            /\ UpdatedTo(r, now) /\ (cancels => now \in {"open", "paused"})
            /\ sink' = [sink EXCEPT ![r] = IF cancels THEN "closed" ELSE now]
            /\ ref_count' = [ref_count EXCEPT ![r] =
                 @ + Bit(Opens(r)) - Bit(result[r].end # "none") - Bit(cancels)]
      BY <1>5, <1>b, Updates
    <3> QED
      BY <1>b, <3>1 DEF UpdatedTo, Opens, Typed
  <2>3. HostChannel(to_host, current, next_request_id', writes', sink')
    <3>1. next_request_id <= next_request_id' /\ \A x \in Request : writes[x] <= writes'[x]
      BY <1>b, <2>1
    <3> QED
      BY <1>e, <2>2, <3>1
  <2>4. TriedChunks' = TriedChunks /\ HeadersTried' = HeadersTried
    BY <1>5, <1>c DEF onProgressUpdate
  <2>5. to_host' = to_host \/ to_host' = Append(to_host, Cancel(r))
    BY <1>5, <1>b, Updates
  <2>6. Cancel(r) \in HostMessage /\ Cancel(r).buffer = NoBuffer
    BY NewCommands DEF Cancel, Message
  <2>7. CarriedBy(Append(to_host, Cancel(r))) = CarriedBy(to_host) \cup {NoBuffer}
    BY <1>b, <2>6, CarriedAdded
  <2>8. HostChannel(to_host', current', next_request_id', writes', sink')
    BY <1>b, <2>1, <2>3, <2>5, <2>6, HostSent
  <2>9. buffers' = AllBuffers(to_host', to_engine', current')
    BY <1>a, <2>1, <2>5, <2>7 DEF AllBuffers
  <2> QED
    BY <1>a, <2>1, <2>4, <2>8, <2>9 DEF BuffersAre
<1>6. CASE BridgePoll
  <2>1. /\ to_engine # <<>> /\ to_engine' = Tail(to_engine)
        /\ buffers' = buffers \ {Head(to_engine).buffer}
        /\ UNCHANGED <<next_request_id, writes, sink, to_host, current>>
    BY <1>6 DEF BridgePoll, Release, hostVars
  <2>2. TriedChunks' = TriedChunks /\ HeadersTried' = HeadersTried
    BY <1>6, <1>c DEF BridgePoll
  <2>3. EngineChannel(to_engine', TriedChunks, HeadersTried)
    BY <1>a, <1>b, <2>1, EngineTaken
  <2>4. buffers' = AllBuffers(to_host', to_engine', current')
    BY <1>a, <1>b, <2>1, EventReleased
  <2> QED
    BY <1>a, <2>1, <2>2, <2>3, <2>4 DEF BuffersAre
<1>7. CASE HostReceive
  <2>1. /\ current = None /\ to_host # <<>>
        /\ current' = Head(to_host) /\ to_host' = Tail(to_host)
        /\ UNCHANGED <<next_request_id, writes, sink, to_engine, buffers>>
    BY <1>7 DEF HostReceive, vmVars
  <2>2. TriedChunks' = TriedChunks /\ HeadersTried' = HeadersTried
    BY <1>7, <1>c DEF HostReceive
  <2>3. HostChannel(to_host', current', next_request_id', writes', sink')
    BY <1>a, <1>b, <2>1, HostTaken
  <2>4. buffers' = AllBuffers(to_host', to_engine', current')
    <3>1. CarriedBy(to_host) = CarriedBy(to_host') \cup {current'.buffer}
      BY <1>b, <2>1, CarriedTaken
    <3>2. current' # None
      BY <1>b, <2>1, Taken, HostMessages
    <3> QED
      BY <1>a, <2>1, <3>1, <3>2 DEF AllBuffers, InHand
  <2> QED
    BY <1>a, <2>1, <2>2, <2>3, <2>4 DEF BuffersAre
<1>f. ASSUME current # None, current' = None, buffers' = buffers \ {current.buffer},
             UNCHANGED <<next_request_id, writes, sink, to_host>>,
             NEW e \in EngineMessage, e.buffer = NoBuffer,
             to_engine' = to_engine \/ to_engine' = Append(to_engine, e),
             TriedChunks' = TriedChunks, HeadersTried' = HeadersTried
      PROVE  Goal
  <2>1. HostChannel(to_host', current', next_request_id', writes', sink')
    BY <1>a, <1>f, HostDone
  <2>2. EngineChannel(to_engine', TriedChunks', HeadersTried')
    BY <1>a, <1>b, <1>f, EngineSent
  <2>3. buffers' = AllBuffers(to_host, to_engine, None)
    BY <1>a, <1>b, <1>f, HandReleased
  <2>4. CarriedBy(Append(to_engine, e)) = CarriedBy(to_engine) \cup {NoBuffer}
    BY <1>b, <1>f, CarriedAdded
  <2>5. buffers' = AllBuffers(to_host', to_engine', current')
    BY <1>f, <2>3, <2>4 DEF AllBuffers
  <2> QED
    BY <2>1, <2>2, <2>5 DEF BuffersAre
<1>8. CASE start
  <2> DEFINE e == Message("end", current.request_id, NoBuffer, FALSE)
  <2>1. /\ current # None /\ current' = None /\ buffers' = buffers \ {current.buffer}
        /\ UNCHANGED <<next_request_id, writes, sink, to_host>>
    BY <1>8 DEF start, Release, vmVars, None
  <2>2. e \in EngineMessage /\ e.buffer = NoBuffer
    BY <1>b, <2>1, HostMessages, NewEvents DEF Message
  <2>3. to_engine' = to_engine \/ to_engine' = Append(to_engine, e)
    BY <1>8 DEF start, SendOrLose
  <2>4. TriedChunks' = TriedChunks /\ HeadersTried' = HeadersTried
    BY <1>8, <1>c
  <2> HIDE DEF e
  <2> QED
    BY <1>f, <2>1, <2>2, <2>3, <2>4
<1>9. CASE find \/ Use
  <2>1. UNCHANGED <<next_request_id, writes, sink, to_host, to_engine>>
    BY <1>9 DEF find, Use, vmVars
  <2>2. TriedChunks' = TriedChunks /\ HeadersTried' = HeadersTried
    BY <1>9, <1>c DEF find, Use
  <2>3. CASE UNCHANGED <<current, buffers>>
    BY <1>a, <2>1, <2>2, <2>3 DEF BuffersAre
  <2>4. CASE current # None /\ current' = None /\ buffers' = buffers \ {current.buffer}
    <3>1. PICK e \in EngineMessage : e.buffer = NoBuffer
      <4>1. current.request_id \in Request
        BY <1>b, <2>4, HostMessages
      <4>2. /\ Message("ready", current.request_id, NoBuffer, TRUE) \in EngineMessage
            /\ Message("ready", current.request_id, NoBuffer, TRUE).buffer = NoBuffer
        BY <4>1, NewEvents DEF Message
      <4> QED
        BY <4>2
    <3> QED
      BY <1>f, <2>1, <2>2, <2>4, <3>1
  <2> QED
    BY <1>9, <2>3, <2>4 DEF find, Use, Release, None
<1>g. ASSUME UNCHANGED <<next_request_id, writes, sink, to_host, current, buffers>>,
             \/ to_engine' = to_engine
             \/ \E e \in EngineMessage : e.buffer = NoBuffer
                                         /\ to_engine' = Append(to_engine, e),
             EngineChannel(to_engine, TriedChunks', HeadersTried')
      PROVE  Goal
  <2>1. EngineChannel(to_engine', TriedChunks', HeadersTried')
    BY <1>b, <1>g, EngineSent
  <2>2. \A e \in EngineMessage : e.buffer = NoBuffer =>
          CarriedBy(Append(to_engine, e)) = CarriedBy(to_engine) \cup {NoBuffer}
    BY <1>b, CarriedAdded
  <2>3. buffers' = AllBuffers(to_host', to_engine', current')
    BY <1>a, <1>g, <2>2 DEF AllBuffers
  <2> QED
    BY <1>a, <1>g, <2>1, <2>3 DEF BuffersAre
<1>10. CASE \/ \E r \in Request : Result(r)
            \/ CallbackReady \/ CallbackReturns \/ CallbackTerminal \/ destroy
  <2>1. TriedChunks' = TriedChunks /\ HeadersTried' = HeadersTried
    BY <1>10, <1>c
  <2>2. UNCHANGED <<next_request_id, writes, sink, to_host, current, buffers>>
    BY <1>10 DEF Result, CallbackReady, CallbackReturns, CallbackTerminal, destroy,
                 vmVars, hostVars
  <2>3. \/ to_engine' = to_engine
        \/ \E e \in EngineMessage : e.buffer = NoBuffer
                                    /\ to_engine' = Append(to_engine, e)
    <3>1. CASE (\E r \in Request : Result(r)) \/ CallbackReturns \/ destroy
      BY <3>1 DEF Result, CallbackReturns, destroy
    <3>2. CASE CallbackReady
      <4>1. cb.request_id \in Request
        BY <3>2, Callbacks DEF CallbackReady, Typed
      <4> DEFINE e == Message("ready", cb.request_id, NoBuffer, TRUE)
      <4>2. e \in EngineMessage /\ e.buffer = NoBuffer
        BY <4>1, NewEvents DEF Message
      <4>3. to_engine' = to_engine \/ to_engine' = Append(to_engine, e)
        BY <3>2 DEF CallbackReady
      <4> QED
        BY <4>2, <4>3
    <3>3. CASE CallbackTerminal
      <4>1. cb \in CallbackResult
        BY <3>3 DEF CallbackTerminal, CallbackEnds, Typed
      <4>2. cb.request_id \in Request /\ cb.ok \in BOOLEAN
        BY <4>1, Zenon DEF CallbackResult
      <4> DEFINE e == Message("end", cb.request_id, NoBuffer, cb.ok)
      <4>3. e \in EngineMessage /\ e.buffer = NoBuffer
        BY <4>2, NewEvents DEF Message
      <4>4. to_engine' = to_engine \/ to_engine' = Append(to_engine, e)
        BY <3>3 DEF CallbackTerminal, sendTerminal, SendOrLose
      <4> QED
        BY <4>3, <4>4
    <3> QED
      BY <1>10, <3>1, <3>2, <3>3
  <2> QED
    BY <1>a, <1>g, <2>1, <2>2, <2>3
<1>h. ASSUME UNCHANGED <<next_request_id, writes, sink, to_host, current>>,
             NEW r \in Request, NEW op, NEW k,
             Message(op, r, <<r, op, k>>, TRUE) \in EngineMessage,
             SendBytes(op, r, k),
             EngineChannel(to_engine, TriedChunks', HeadersTried'),
             EngineBufferOK(<<r, op, k>>, TriedChunks', HeadersTried'),
             ~EngineBufferOK(<<r, op, k>>, TriedChunks, HeadersTried)
      PROVE  Goal
  <2> DEFINE b == <<r, op, k>>
             m == Message(op, r, b, TRUE)
             e == Message("end", r, NoBuffer, FALSE)
  <2>1. e \in EngineMessage /\ e.buffer = NoBuffer
    BY NewEvents DEF Message
  <2>2. \/ to_engine' = Append(to_engine, m) /\ buffers' = buffers \cup {b}
        \/ to_engine' = Append(to_engine, e) /\ buffers' = buffers
        \/ to_engine' = to_engine /\ buffers' = buffers
    BY <1>h, Bytes
  <2>3. m.buffer = b /\ b # NoBuffer
    BY BufferNames DEF Message
  <2>4. CASE to_engine' = Append(to_engine, m) /\ buffers' = buffers \cup {b}
    <3>1. \A i \in 1..Len(to_engine) : to_engine[i].buffer # b
      BY <1>a, <1>h, <2>3 DEF EngineChannel
    <3>2. m \in EngineMessage /\ EngineBufferOK(b, TriedChunks', HeadersTried')
      BY <1>h
    <3> HIDE DEF m, b
    <3>3. EngineChannel(to_engine', TriedChunks', HeadersTried')
      BY <1>b, <1>h, <2>3, <2>4, <3>1, <3>2, EngineSent
    <3>4. buffers' = AllBuffers(to_host', to_engine', current')
      BY <1>a, <1>b, <1>h, <2>3, <2>4, <3>2, CarriedAdded DEF AllBuffers
    <3> QED
      BY <1>a, <1>h, <3>3, <3>4 DEF BuffersAre
  <2>5. CASE to_engine' \in {to_engine, Append(to_engine, e)} /\ buffers' = buffers
    <3> HIDE DEF e
    <3> QED
      BY <1>g, <1>h, <2>1, <2>5
  <2> QED
    BY <2>2, <2>4, <2>5
<1>11. CASE CallbackHeaders
  <2> DEFINE r == cb.request_id  b == <<r, "headers", 0>>
  <2>1. /\ r \in Request /\ r \notin HeadersTried
        /\ HeadersTried' = HeadersTried \cup {r} /\ TriedChunks' = TriedChunks
    BY <1>11, TriedHeaders DEF TriedChunks
  <2>2. EngineChannel(to_engine, TriedChunks', HeadersTried')
    <3>1. TriedChunks \in [Request -> Int]
      BY DEF TriedChunks, Tried, Bit, Typed, ClientRecord
    <3>2. \A x \in Request : TriedChunks[x] <= TriedChunks'[x]
      BY <2>1, <3>1
    <3>3. TriedChunks' \in [Request -> Int] /\ HeadersTried \subseteq HeadersTried'
      BY <2>1, <3>1
    <3> QED
      BY <1>a, <1>b, <3>1, <3>2, <3>3, EngineLater
  <2>3. b[1] = r /\ b[2] = "headers"
    OBVIOUS
  <2>4. /\ EngineBufferOK(b, TriedChunks', HeadersTried')
        /\ ~EngineBufferOK(b, TriedChunks, HeadersTried)
    BY <2>1, <2>3 DEF EngineBufferOK
  <2>5. /\ UNCHANGED <<next_request_id, writes, sink, to_host, current>>
        /\ SendBytes("headers", r, 0)
    BY <1>11 DEF CallbackHeaders, vmVars, hostVars
  <2>6. Message("headers", r, b, TRUE) \in EngineMessage
    BY <2>1, NewEvents
  <2> QED
    BY <1>h, <2>1, <2>2, <2>4, <2>5, <2>6
<1>12. CASE CallbackBody
  <2> DEFINE r == cb.request_id  k == client[r].chunks  b == <<r, "chunk", k>>
  <2>1. /\ r \in Request /\ k \in 1..MaxChunks
        /\ HeadersTried' = HeadersTried
        /\ TriedChunks \in [Request -> Int] /\ TriedChunks' \in [Request -> Int]
        /\ TriedChunks[r] = k - 1 /\ TriedChunks'[r] = k
        /\ \A x \in Request : x # r => TriedChunks'[x] = TriedChunks[x]
    <3>1. TriedChunks \in [Request -> Int]
      BY DEF TriedChunks, Tried, Bit, Typed, ClientRecord
    <3>2. TriedChunks' \in [Request -> Int]
      BY DEF TriedChunks, Tried, Bit, Typed, ClientRecord
    <3>3. \A x \in Request : TriedChunks[x] = Tried(x) /\ TriedChunks'[x] = Tried(x)'
      BY DEF TriedChunks
    <3>4. /\ r \in Request /\ k \in 1..MaxChunks /\ HeadersTried' = HeadersTried
          /\ \A x \in Request : x # r => Tried(x)' = Tried(x)
      BY <1>12, TriedBody
    <3>5. Tried(r) = k - 1
      BY <1>12, TriedBody
    <3>6. TriedChunks'[r] = k
      <4>1. client' = client /\ cb'.request_id = r /\ ~cb'.chunk
        BY <1>12, Callbacks DEF CallbackBody, Typed
      <4> QED
        BY <3>4, <4>1, BoundAssumption DEF TriedChunks, Tried, Bit
    <3> QED
      BY <3>1, <3>2, <3>3, <3>4, <3>5, <3>6
  <2>2. EngineChannel(to_engine, TriedChunks', HeadersTried')
    <3>1. \A x \in Request : TriedChunks[x] <= TriedChunks'[x]
      BY <2>1
    <3> QED
      BY <1>a, <1>b, <2>1, <3>1, EngineLater
  <2>3. b[1] = r /\ b[2] = "chunk" /\ b[3] = k
    OBVIOUS
  <2>4. UNCHANGED <<next_request_id, writes, sink, to_host, current>>
        /\ SendBytes("chunk", r, k)
    BY <1>12 DEF CallbackBody, vmVars, hostVars
  <2>5. Message("chunk", r, b, TRUE) \in EngineMessage
    BY <2>1, NewEvents
  <2>6. /\ EngineBufferOK(b, TriedChunks', HeadersTried')
        /\ ~EngineBufferOK(b, TriedChunks, HeadersTried)
    <3> HIDE DEF b, k
    <3> QED
      BY <2>1, <2>3 DEF EngineBufferOK
  <2> QED
    BY <1>h, <2>1, <2>2, <2>4, <2>5, <2>6
<1>13. CASE UNCHANGED vars
  <2>1. TriedChunks' = TriedChunks /\ HeadersTried' = HeadersTried
    BY <1>13, <1>c DEF vars, httpVars
  <2> QED
    BY <1>13, <1>a, <2>1 DEF vars, BuffersAre
<1> QED
  BY <1>1, <1>2, <1>3, <1>4, <1>5, <1>6, <1>7, <1>8, <1>9, <1>10, <1>11, <1>12,
     <1>13
  DEF Next, Client, Vm, Host, Callback

\* Whatever fails, is aborted or comes too late, a buffer of a fetch is
\* allocated exactly while a message or the host's current command carries it.
THEOREM BuffersCarried == Spec => []BuffersAreCarried
<1>1. BuffersInv => BuffersAreCarried
  BY DEF BuffersInv
<1> QED
  BY <1>1, Typing, InitRefs, RefsStep, InitBuffers, BuffersStep, PTL DEF Spec

-----------------------------------------------------------------------------
(* The order of a response in the channel to the engine.                   *)

\* An event that is sent leaves what is before the others as it was.
LEMMA BeforeSent ==
  ASSUME NEW q \in Seq(EngineMessage), NEW e \in EngineMessage, NEW r, NEW p,
         p = Append(q, e)
  PROVE  /\ Len(q) \in Nat /\ Len(p) = Len(q) + 1 /\ p[Len(p)] = e
         /\ \A n : \A i \in 1..Len(q) :
              ChunkAt(p, r, n, i) <=> ChunkAt(q, r, n, i)
         /\ \A i \in 1..Len(q) : EndAt(p, r, TRUE, i) <=> EndAt(q, r, TRUE, i)
         /\ \A n : \A j \in 1..Len(p) :
              ChunkBefore(p, r, n, j) <=> ChunkBefore(q, r, n, j)
         /\ \A j \in 1..Len(p) :
              HeadersBefore(p, r, j) <=> HeadersBefore(q, r, j)
         /\ \A n : \/ ChunkBefore(q, r, n, Len(p))
                   \/ ChunkAt(p, r, n, Len(p)) \/ EndAt(p, r, FALSE, Len(p))
                   => ChunkBefore(p, r, n, Len(p) + 1)
         /\ \/ HeadersBefore(q, r, Len(p))
            \/ HeadersAt(p, r, Len(p)) \/ EndAt(p, r, FALSE, Len(p))
            => HeadersBefore(p, r, Len(p) + 1)
<1>1. /\ Len(q) \in Nat /\ Len(p) = Len(q) + 1 /\ p[Len(p)] = e
      /\ \A i \in 1..Len(q) : p[i] = q[i]
  BY Added
<1>2. /\ \A n : \A i \in 1..Len(q) : ChunkAt(p, r, n, i) <=> ChunkAt(q, r, n, i)
      /\ \A ok : \A i \in 1..Len(q) : EndAt(p, r, ok, i) <=> EndAt(q, r, ok, i)
      /\ \A i \in 1..Len(q) : HeadersAt(p, r, i) <=> HeadersAt(q, r, i)
  BY <1>1 DEF ChunkAt, HeadersAt, EndAt
<1>3. /\ \A j \in 1..Len(p) : \A i \in 1..Len(p) : i < j => i \in 1..Len(q)
      /\ \A i \in 1..Len(q) : i \in 1..Len(p)
  BY <1>1
<1>4. \A n : \A j \in 1..Len(p) :
        ChunkBefore(p, r, n, j) <=> ChunkBefore(q, r, n, j)
  BY <1>2, <1>3 DEF ChunkBefore
<1>5. \A j \in 1..Len(p) : HeadersBefore(p, r, j) <=> HeadersBefore(q, r, j)
  BY <1>2, <1>3 DEF HeadersBefore
<1>6. /\ Len(p) \in 1..Len(p) /\ Len(p) < Len(p) + 1
      /\ \A i \in 1..Len(q) : i \in 1..Len(p) /\ i < Len(p) + 1
  BY <1>1
<1>7. \A n : \/ ChunkBefore(q, r, n, Len(p))
             \/ ChunkAt(p, r, n, Len(p)) \/ EndAt(p, r, FALSE, Len(p))
             => ChunkBefore(p, r, n, Len(p) + 1)
  BY <1>2, <1>6 DEF ChunkBefore
<1>8. \/ HeadersBefore(q, r, Len(p))
      \/ HeadersAt(p, r, Len(p)) \/ EndAt(p, r, FALSE, Len(p))
      => HeadersBefore(p, r, Len(p) + 1)
  BY <1>2, <1>6 DEF HeadersBefore
<1> QED
  BY <1>1, <1>2, <1>4, <1>5, <1>7, <1>8

\* The event e is the next chunk of request r and so on.
ChunkOf(e, r, n) == e.op = "chunk" /\ e.request_id = r /\ e.buffer[3] = n
HeadersOf(e, r) == e.op = "headers" /\ e.request_id = r
EndOf(e, r, ok) == e.op = "end" /\ e.request_id = r /\ e.ok = ok

\* A response stays whole when an event is sent: a chunk is the next one, a
\* good end comes after the headers, and whatever is tried is sent or the
\* request given up, which no longer happens after a good end.
LEMMA WholeSent ==
  ASSUME NEW q \in Seq(EngineMessage), NEW e \in EngineMessage, NEW r, NEW c,
         NEW t \in Nat, NEW u \in Nat, NEW a, NEW h, NEW g, Len(c) \in Nat,
         Whole(q, r, c, t, a, h),
         \A n \in 1..MaxChunks : ChunkOf(e, r, n) => n = u /\ u = t + 1,
         EndOf(e, r, TRUE) => r \in h /\ u = t,
         u = t \/ (u = t + 1 /\ (ChunkOf(e, r, u) \/ EndOf(e, r, FALSE))),
         (r \in g => r \in h) \/ HeadersOf(e, r) \/ EndOf(e, r, FALSE),
         u = t \/ \A j \in 1..Len(q) : ~EndAt(q, r, TRUE, j)
  PROVE  Whole(Append(q, e), r, c, u, a, g)
<1> DEFINE p == Append(q, e)
           k == Len(c)
<1>0. /\ k \in Nat /\ (u = t \/ u = t + 1)
      /\ u # t => ChunkOf(e, r, u) \/ EndOf(e, r, FALSE)
  BY Zenon
<1>1. /\ Len(q) \in Nat /\ Len(p) = Len(q) + 1 /\ p[Len(p)] = e
      /\ \A n : \A i \in 1..Len(q) : ChunkAt(p, r, n, i) <=> ChunkAt(q, r, n, i)
      /\ \A i \in 1..Len(q) : EndAt(p, r, TRUE, i) <=> EndAt(q, r, TRUE, i)
  BY BeforeSent
<1>2. /\ \A n : \A j \in 1..Len(p) :
           ChunkBefore(p, r, n, j) <=> ChunkBefore(q, r, n, j)
      /\ \A j \in 1..Len(p) : HeadersBefore(p, r, j) <=> HeadersBefore(q, r, j)
  BY BeforeSent
<1>3. /\ \A n : \/ ChunkBefore(q, r, n, Len(p))
                \/ ChunkAt(p, r, n, Len(p)) \/ EndAt(p, r, FALSE, Len(p))
                => ChunkBefore(p, r, n, Len(p) + 1)
      /\ \/ HeadersBefore(q, r, Len(p))
         \/ HeadersAt(p, r, Len(p)) \/ EndAt(p, r, FALSE, Len(p))
         => HeadersBefore(p, r, Len(p) + 1)
  BY BeforeSent
<1>4. /\ \A n : ChunkAt(p, r, n, Len(p)) <=> ChunkOf(e, r, n)
      /\ HeadersAt(p, r, Len(p)) <=> HeadersOf(e, r)
      /\ \A ok : EndAt(p, r, ok, Len(p)) <=> EndOf(e, r, ok)
  BY <1>1 DEF ChunkAt, HeadersAt, EndAt, ChunkOf, HeadersOf, EndOf
<1> HIDE DEF p, k
<1>5. /\ Len(p) \in Nat /\ Len(p) \in 1..Len(p)
      /\ \A i \in 1..Len(p) : i \in 1..Len(q) \/ i = Len(p)
  BY <1>1
<1>a. c = [i \in 1..Len(c) |-> i] /\ k <= t
      /\ Ascending(q, r, k, t) /\ Gapless(q, r, k, t) /\ HeadersFirst(q, r, a, h)
  BY Zenon DEF Whole, k
<1>6. c = [i \in 1..Len(c) |-> i] /\ k <= t /\ k <= u
      /\ Ascending(q, r, k, t) /\ Gapless(q, r, k, t) /\ HeadersFirst(q, r, a, h)
  BY <1>0, <1>a
<1>7. Ascending(p, r, k, u)
  <2>1. ASSUME NEW j \in 1..Len(p), NEW n \in 1..MaxChunks, ChunkAt(p, r, n, j)
        PROVE  k < n /\ n <= u
    <3>1. CASE j \in 1..Len(q)
      BY <1>0, <1>1, <1>6, <2>1, <3>1 DEF Ascending
    <3>2. CASE j = Len(p)
      BY <1>0, <1>4, <1>6, <2>1, <3>2
    <3> QED
      BY <1>5, <3>1, <3>2
  <2>2. ASSUME NEW i \in 1..Len(p), NEW j \in 1..Len(p), NEW m \in 1..MaxChunks,
               NEW n \in 1..MaxChunks, ChunkAt(p, r, n, i), ChunkAt(p, r, m, j), i < j
        PROVE  n < m
    <3>0. i \in 1..Len(q)
      BY <1>1, <2>2
    <3>1. CASE j \in 1..Len(q)
      BY <1>1, <1>6, <2>2, <3>0, <3>1 DEF Ascending
    <3>2. CASE j = Len(p)
      <4>1. n <= t
        BY <1>1, <1>6, <2>2, <3>0 DEF Ascending
      <4>2. m = t + 1
        BY <1>4, <2>2, <3>2
      <4> QED
        BY <4>1, <4>2
    <3> QED
      BY <1>5, <3>1, <3>2
  <2> QED
    BY <2>1, <2>2 DEF Ascending
<1>8. Gapless(p, r, k, u)
  <2> SUFFICES ASSUME NEW n \in 1..MaxChunks, k < n
               PROVE  /\ \A j \in 1..Len(p) :
                           /\ \A m \in 1..MaxChunks :
                                n < m /\ ChunkAt(p, r, m, j) => ChunkBefore(p, r, n, j)
                           /\ n <= u /\ EndAt(p, r, TRUE, j) => ChunkBefore(p, r, n, j)
                      /\ n <= u => ChunkBefore(p, r, n, Len(p) + 1)
    BY DEF Gapless
  <2>0. n <= t => ChunkBefore(q, r, n, Len(p))
    BY <1>1, <1>6 DEF Gapless
  <2>1. ASSUME NEW j \in 1..Len(p), NEW m \in 1..MaxChunks, n < m, ChunkAt(p, r, m, j)
        PROVE  ChunkBefore(p, r, n, j)
    <3>1. CASE j \in 1..Len(q)
      BY <1>1, <1>2, <1>6, <2>1, <3>1 DEF Gapless
    <3>2. CASE j = Len(p)
      <4>1. n <= t
        BY <1>4, <2>1, <3>2
      <4> QED
        BY <1>2, <2>0, <3>2, <4>1
    <3> QED
      BY <1>5, <3>1, <3>2
  <2>2. ASSUME NEW j \in 1..Len(p), n <= u, EndAt(p, r, TRUE, j)
        PROVE  ChunkBefore(p, r, n, j)
    <3>1. CASE j \in 1..Len(q)
      BY <1>1, <1>2, <1>6, <2>2, <3>1 DEF Gapless
    <3>2. CASE j = Len(p)
      BY <1>2, <1>4, <2>0, <2>2, <3>2
    <3> QED
      BY <1>5, <3>1, <3>2
  <2>3. ASSUME n <= u PROVE ChunkBefore(p, r, n, Len(p) + 1)
    <3>1. CASE n <= t
      BY <1>3, <2>0, <3>1
    <3>2. CASE ~(n <= t)
      <4>1. n = u /\ u # t
        BY <1>0, <2>3, <3>2
      <4> QED
        BY <1>0, <1>3, <1>4, <4>1
    <3> QED
      BY <3>1, <3>2
  <2> QED
    BY <2>1, <2>2, <2>3
<1>9. HeadersFirst(p, r, a, g)
  <2> SUFFICES ASSUME r \notin a
               PROVE  /\ \A j \in 1..Len(p) :
                           EndAt(p, r, TRUE, j) => HeadersBefore(p, r, j)
                      /\ r \in g => HeadersBefore(p, r, Len(p) + 1)
    BY DEF HeadersFirst
  <2>0. /\ \A j \in 1..Len(q) : EndAt(q, r, TRUE, j) => HeadersBefore(q, r, j)
        /\ r \in h => HeadersBefore(q, r, Len(p))
    BY <1>1, <1>6 DEF HeadersFirst
  <2> QED
    BY <1>1, <1>2, <1>3, <1>4, <1>5, <2>0
<1> QED
  BY <1>6, <1>7, <1>8, <1>9 DEF Whole, p, k

\* When the first event is taken, the others move up.
LEMMA BeforeTaken ==
  ASSUME NEW q \in Seq(EngineMessage), q # <<>>, NEW r, NEW p, p = Tail(q)
  PROVE  /\ Len(q) \in Nat /\ Len(p) \in Nat /\ Len(q) = Len(p) + 1
         /\ Head(q) = q[1] /\ 1 \in 1..Len(q)
         /\ \A n : \A i \in 1..Len(p) :
              ChunkAt(p, r, n, i) <=> ChunkAt(q, r, n, i + 1)
         /\ \A i \in 1..Len(p) : EndAt(p, r, TRUE, i) <=> EndAt(q, r, TRUE, i + 1)
         /\ \A n : ~ChunkBefore(q, r, n, 1)
         /\ ~HeadersBefore(q, r, 1)
         /\ \A n : \A j \in 1..(Len(p) + 1) :
              ChunkBefore(q, r, n, j + 1) =>
                \/ ChunkBefore(p, r, n, j)
                \/ ChunkOf(Head(q), r, n) \/ EndOf(Head(q), r, FALSE)
         /\ \A j \in 1..(Len(p) + 1) :
              HeadersBefore(q, r, j + 1) =>
                \/ HeadersBefore(p, r, j)
                \/ HeadersOf(Head(q), r) \/ EndOf(Head(q), r, FALSE)
<1>1. /\ Len(q) \in Nat /\ Len(p) \in Nat /\ Len(q) = Len(p) + 1
      /\ Head(q) = q[1] /\ 1 \in 1..Len(q)
      /\ \A i \in 1..Len(p) : p[i] = q[i + 1]
  BY Taken
<1>2. /\ \A n : \A i \in 1..Len(p) : ChunkAt(p, r, n, i) <=> ChunkAt(q, r, n, i + 1)
      /\ \A ok : \A i \in 1..Len(p) : EndAt(p, r, ok, i) <=> EndAt(q, r, ok, i + 1)
      /\ \A i \in 1..Len(p) : HeadersAt(p, r, i) <=> HeadersAt(q, r, i + 1)
  BY <1>1 DEF ChunkAt, HeadersAt, EndAt
<1>3. /\ \A n : ~ChunkBefore(q, r, n, 1)
      /\ ~HeadersBefore(q, r, 1)
  <2>1. \A i \in 1..Len(q) : ~(i < 1)
    BY <1>1
  <2> QED
    BY <2>1 DEF ChunkBefore, HeadersBefore
<1>4. \A j \in 1..(Len(p) + 1) : \A i \in 1..Len(q) :
        i < j + 1 => i = 1 \/ \E l \in 1..Len(p) : i = l + 1 /\ l < j
  <2> SUFFICES ASSUME NEW j \in 1..(Len(p) + 1), NEW i \in 1..Len(q), i # 1, i < j + 1
               PROVE  \E l \in 1..Len(p) : i = l + 1 /\ l < j
    OBVIOUS
  <2>1. i - 1 < j /\ i = (i - 1) + 1 /\ i - 1 \in 1..Len(p)
    BY <1>1
  <2> QED
    BY <2>1
<1>5. \A n : \A j \in 1..(Len(p) + 1) :
        ChunkBefore(q, r, n, j + 1) =>
          \/ ChunkBefore(p, r, n, j)
          \/ ChunkOf(Head(q), r, n) \/ EndOf(Head(q), r, FALSE)
  <2> SUFFICES ASSUME NEW n, NEW j \in 1..(Len(p) + 1), ChunkBefore(q, r, n, j + 1)
               PROVE  \/ ChunkBefore(p, r, n, j)
                      \/ ChunkOf(Head(q), r, n) \/ EndOf(Head(q), r, FALSE)
    OBVIOUS
  <2>1. PICK i \in 1..Len(q) :
          i < j + 1 /\ (ChunkAt(q, r, n, i) \/ EndAt(q, r, FALSE, i))
    BY DEF ChunkBefore
  <2>2. CASE i = 1
    BY <1>1, <2>1, <2>2 DEF ChunkAt, EndAt, ChunkOf, EndOf
  <2>3. CASE \E l \in 1..Len(p) : i = l + 1 /\ l < j
    BY <1>2, <2>1, <2>3 DEF ChunkBefore
  <2> QED
    BY <1>4, <2>1, <2>2, <2>3
<1>6. \A j \in 1..(Len(p) + 1) :
        HeadersBefore(q, r, j + 1) =>
          \/ HeadersBefore(p, r, j)
          \/ HeadersOf(Head(q), r) \/ EndOf(Head(q), r, FALSE)
  <2> SUFFICES ASSUME NEW j \in 1..(Len(p) + 1), HeadersBefore(q, r, j + 1)
               PROVE  \/ HeadersBefore(p, r, j)
                      \/ HeadersOf(Head(q), r) \/ EndOf(Head(q), r, FALSE)
    OBVIOUS
  <2>1. PICK i \in 1..Len(q) :
          i < j + 1 /\ (HeadersAt(q, r, i) \/ EndAt(q, r, FALSE, i))
    BY DEF HeadersBefore
  <2>2. CASE i = 1
    BY <1>1, <2>1, <2>2 DEF HeadersAt, EndAt, HeadersOf, EndOf
  <2>3. CASE \E l \in 1..Len(p) : i = l + 1 /\ l < j
    BY <1>2, <2>1, <2>3 DEF HeadersBefore
  <2> QED
    BY <1>4, <2>1, <2>2, <2>3
<1> QED
  BY <1>1, <1>2, <1>3, <1>5, <1>6

\* A response stays whole when the first event, which is not a bad end of it,
\* is taken; a chunk of it is the next one, and at a good end it is complete.
LEMMA WholeTaken ==
  ASSUME NEW q \in Seq(EngineMessage), q # <<>>, NEW r, NEW c \in Seq(1..MaxChunks),
         NEW t \in 0..MaxChunks, NEW a, NEW h, NEW b,
         Whole(q, r, c, t, a, h), r \in a => r \in b
  PROVE  /\ Head(q).request_id # r \/ Head(q).op = "ready" =>
              Whole(Tail(q), r, c, t, b, h)
         /\ HeadersOf(Head(q), r) /\ r \in b => Whole(Tail(q), r, c, t, b, h)
         /\ \A n \in 1..MaxChunks : ChunkOf(Head(q), r, n) =>
              /\ n = Len(c) + 1
              /\ Whole(Tail(q), r, Append(c, n), t, b, h)
         /\ EndOf(Head(q), r, TRUE) => r \in a /\ c = [i \in 1..t |-> i]
<1> DEFINE p == Tail(q)
           e == Head(q)
           k == Len(c)
<1>1. /\ Len(q) \in Nat /\ Len(p) \in Nat /\ Len(q) = Len(p) + 1
      /\ e = q[1] /\ 1 \in 1..Len(q)
      /\ \A n : \A i \in 1..Len(p) :
           ChunkAt(p, r, n, i) <=> ChunkAt(q, r, n, i + 1)
      /\ \A i \in 1..Len(p) : EndAt(p, r, TRUE, i) <=> EndAt(q, r, TRUE, i + 1)
  BY BeforeTaken
<1>2. /\ \A n : ~ChunkBefore(q, r, n, 1)
      /\ ~HeadersBefore(q, r, 1)
      /\ \A n : \A j \in 1..(Len(p) + 1) :
           ChunkBefore(q, r, n, j + 1) =>
             \/ ChunkBefore(p, r, n, j)
             \/ ChunkOf(e, r, n) \/ EndOf(e, r, FALSE)
      /\ \A j \in 1..(Len(p) + 1) :
           HeadersBefore(q, r, j + 1) =>
             \/ HeadersBefore(p, r, j)
             \/ HeadersOf(e, r) \/ EndOf(e, r, FALSE)
  BY BeforeTaken
<1>3. /\ \A n : ChunkAt(q, r, n, 1) <=> ChunkOf(e, r, n)
      /\ EndAt(q, r, TRUE, 1) <=> EndOf(e, r, TRUE)
  BY <1>1 DEF ChunkAt, EndAt, ChunkOf, EndOf
<1>4. k \in Nat
  BY LenProperties
<1>5. /\ \A n : ChunkOf(e, r, n) => ~EndOf(e, r, FALSE) /\ ~HeadersOf(e, r)
      /\ HeadersOf(e, r) => ~EndOf(e, r, FALSE) /\ \A n : ~ChunkOf(e, r, n)
      /\ e.request_id # r \/ e.op = "ready" =>
           ~EndOf(e, r, FALSE) /\ ~HeadersOf(e, r) /\ \A n : ~ChunkOf(e, r, n)
      /\ \A m, n : ChunkOf(e, r, m) /\ ChunkOf(e, r, n) => m = n
  BY DEF ChunkOf, EndOf, HeadersOf
<1> HIDE DEF p, e, k
<1>6. /\ c = [i \in 1..k |-> i] /\ k <= t
      /\ Ascending(q, r, k, t) /\ Gapless(q, r, k, t) /\ HeadersFirst(q, r, a, h)
  BY Zenon DEF Whole, k
<1>7. \A j \in 1..Len(p) : j + 1 \in 1..Len(q) /\ j \in 1..(Len(p) + 1)
  BY <1>1
<1>8. ASSUME NEW l \in {k, k + 1},
             \A n \in 1..MaxChunks : l < n => ~ChunkOf(e, r, n),
             l = k + 1 => ChunkOf(e, r, l) /\ l \in 1..MaxChunks,
             ~EndOf(e, r, FALSE)
      PROVE  Ascending(p, r, l, t) /\ Gapless(p, r, l, t)
  <2>1. ASSUME NEW j \in 1..Len(p), NEW n \in 1..MaxChunks, ChunkAt(p, r, n, j)
        PROVE  l < n /\ n <= t
    <3>1. ChunkAt(q, r, n, j + 1) /\ j + 1 \in 1..Len(q)
      BY <1>1, <1>7, <2>1
    <3>2. k < n /\ n <= t
      BY <1>6, <3>1 DEF Ascending
    <3>3. l = k + 1 => l < n
      <4> SUFFICES ASSUME l = k + 1 PROVE l < n
        OBVIOUS
      <4>1. ChunkAt(q, r, l, 1) /\ l \in 1..MaxChunks /\ 1 < j + 1
        BY <1>3, <1>8
      <4> QED
        BY <1>1, <1>6, <3>1, <4>1 DEF Ascending
    <3> QED
      BY <1>8, <3>2, <3>3
  <2>2. ASSUME NEW i \in 1..Len(p), NEW j \in 1..Len(p), NEW m \in 1..MaxChunks,
               NEW n \in 1..MaxChunks, ChunkAt(p, r, n, i), ChunkAt(p, r, m, j), i < j
        PROVE  n < m
    <3>1. /\ ChunkAt(q, r, n, i + 1) /\ i + 1 \in 1..Len(q)
          /\ ChunkAt(q, r, m, j + 1) /\ j + 1 \in 1..Len(q) /\ i + 1 < j + 1
      BY <1>1, <1>7, <2>2
    <3> QED
      BY <1>6, <3>1 DEF Ascending
  <2>3. ASSUME NEW n \in 1..MaxChunks, l < n
        PROVE  /\ \A j \in 1..Len(p) :
                    /\ \A m \in 1..MaxChunks :
                         n < m /\ ChunkAt(p, r, m, j) => ChunkBefore(p, r, n, j)
                    /\ n <= t /\ EndAt(p, r, TRUE, j) => ChunkBefore(p, r, n, j)
               /\ n <= t => ChunkBefore(p, r, n, Len(p) + 1)
    <3>1. k < n /\ ~ChunkOf(e, r, n)
      BY <1>4, <1>8, <2>3
    <3>2. \A j \in 1..(Len(p) + 1) : ChunkBefore(q, r, n, j + 1) => ChunkBefore(p, r, n, j)
      BY <1>2, <1>8, <3>1
    <3>3. /\ \A j \in 1..Len(q) :
               /\ \A m \in 1..MaxChunks :
                    n < m /\ ChunkAt(q, r, m, j) => ChunkBefore(q, r, n, j)
               /\ n <= t /\ EndAt(q, r, TRUE, j) => ChunkBefore(q, r, n, j)
          /\ n <= t => ChunkBefore(q, r, n, Len(q) + 1)
      BY <1>6, <3>1 DEF Gapless
    <3>4. n <= t => ChunkBefore(p, r, n, Len(p) + 1)
      BY <1>1, <3>2, <3>3
    <3>5. ASSUME NEW j \in 1..Len(p)
          PROVE  /\ \A m \in 1..MaxChunks :
                      n < m /\ ChunkAt(p, r, m, j) => ChunkBefore(p, r, n, j)
                 /\ n <= t /\ EndAt(p, r, TRUE, j) => ChunkBefore(p, r, n, j)
      BY <1>1, <1>7, <3>2, <3>3
    <3> QED
      BY <3>4, <3>5
  <2> QED
    BY <2>1, <2>2, <2>3 DEF Ascending, Gapless
<1>9. ASSUME ~HeadersOf(e, r), ~EndOf(e, r, FALSE)
      PROVE  HeadersFirst(p, r, b, h)
  <2> SUFFICES ASSUME r \notin b
               PROVE  /\ \A j \in 1..Len(p) :
                           EndAt(p, r, TRUE, j) => HeadersBefore(p, r, j)
                      /\ r \in h => HeadersBefore(p, r, Len(p) + 1)
    BY DEF HeadersFirst
  <2>1. /\ \A j \in 1..Len(q) : EndAt(q, r, TRUE, j) => HeadersBefore(q, r, j)
        /\ r \in h => HeadersBefore(q, r, Len(q) + 1)
    BY <1>6 DEF HeadersFirst
  <2>2. \A j \in 1..(Len(p) + 1) : HeadersBefore(q, r, j + 1) => HeadersBefore(p, r, j)
    BY <1>2, <1>9
  <2>3. r \in h => HeadersBefore(p, r, Len(p) + 1)
    <3>1. Len(p) + 1 \in 1..(Len(p) + 1) /\ Len(q) + 1 = (Len(p) + 1) + 1
      BY <1>1
    <3> QED
      BY <2>1, <2>2, <3>1
  <2>4. ASSUME NEW j \in 1..Len(p), EndAt(p, r, TRUE, j)
        PROVE  HeadersBefore(p, r, j)
    BY <1>1, <1>7, <2>1, <2>2, <2>4
  <2> QED
    BY <2>3, <2>4
<1>10. ASSUME e.request_id # r \/ e.op = "ready"
       PROVE  Whole(p, r, c, t, b, h)
  <2>1. /\ ~EndOf(e, r, FALSE) /\ ~HeadersOf(e, r)
        /\ \A n \in 1..MaxChunks : k < n => ~ChunkOf(e, r, n)
        /\ k = k + 1 => ChunkOf(e, r, k) /\ k \in 1..MaxChunks
    <3>1. k # k + 1
      BY <1>4
    <3> QED
      BY <1>5, <1>10, <3>1, Zenon
  <2>2. Ascending(p, r, k, t) /\ Gapless(p, r, k, t) /\ HeadersFirst(p, r, b, h)
    BY <1>8, <1>9, <2>1
  <2> QED
    BY <1>6, <2>2 DEF Whole, k
<1>11. ASSUME HeadersOf(e, r), r \in b
       PROVE  Whole(p, r, c, t, b, h)
  <2>1. /\ ~EndOf(e, r, FALSE)
        /\ \A n \in 1..MaxChunks : k < n => ~ChunkOf(e, r, n)
        /\ k = k + 1 => ChunkOf(e, r, k) /\ k \in 1..MaxChunks
    <3>1. k # k + 1
      BY <1>4
    <3> QED
      BY <1>5, <1>11, <3>1, Zenon
  <2>2. Ascending(p, r, k, t) /\ Gapless(p, r, k, t)
    BY <1>8, <2>1
  <2> QED
    BY <1>6, <1>11, <2>2 DEF Whole, k, HeadersFirst
<1>12. ASSUME NEW n \in 1..MaxChunks, ChunkOf(e, r, n)
       PROVE  /\ n = k + 1
              /\ Whole(p, r, Append(c, n), t, b, h)
  <2>1. k < n /\ n <= t
    BY <1>1, <1>3, <1>6, <1>12 DEF Ascending
  <2>2. n = k + 1
    <3> SUFFICES ASSUME n # k + 1 PROVE FALSE
      OBVIOUS
    <3>1. k + 1 \in 1..MaxChunks /\ k < k + 1 /\ k + 1 < n
      BY <1>4, <2>1, BoundAssumption
    <3>2. ChunkAt(q, r, n, 1)
      BY <1>3, <1>12
    <3>3. ChunkBefore(q, r, k + 1, 1)
      BY <1>1, <1>6, <3>1, <3>2 DEF Gapless
    <3> QED
      BY <1>2, <3>3
  <2>3. /\ Ascending(p, r, k + 1, t) /\ Gapless(p, r, k + 1, t)
        /\ HeadersFirst(p, r, b, h)
    <3>1. \A m \in 1..MaxChunks : k + 1 < m => ~ChunkOf(e, r, m)
      BY <1>5, <1>12, <2>2
    <3>2. ~EndOf(e, r, FALSE) /\ ~HeadersOf(e, r)
      BY <1>5, <1>12
    <3>3. k + 1 = k + 1 => ChunkOf(e, r, k + 1) /\ k + 1 \in 1..MaxChunks
      BY <1>12, <2>2
    <3> QED
      BY <1>4, <1>8, <1>9, <3>1, <3>2, <3>3
  <2>4. /\ Len(Append(c, n)) = k + 1
        /\ Append(c, n) = [i \in 1..(k + 1) |-> i]
    <3>1. /\ Len(Append(c, n)) = k + 1 /\ Append(c, n) \in Seq(1..MaxChunks)
          /\ \A i \in 1..k : Append(c, n)[i] = c[i]
          /\ Append(c, n)[k + 1] = n
      BY AppendProperties DEF k
    <3>2. \A i \in 1..(k + 1) : Append(c, n)[i] = i
      BY <1>4, <1>6, <2>2, <3>1
    <3>3. Append(c, n) = [i \in 1..(k + 1) |-> Append(c, n)[i]]
      BY <3>1, LenProperties
    <3> QED
      BY <3>1, <3>2, <3>3
  <2> QED
    BY <2>1, <2>2, <2>3, <2>4 DEF Whole
<1>13. ASSUME EndOf(e, r, TRUE)
       PROVE  r \in a /\ c = [i \in 1..t |-> i]
  <2>1. EndAt(q, r, TRUE, 1)
    BY <1>3, <1>13
  <2>2. r \in a
    BY <1>1, <1>2, <1>6, <2>1 DEF HeadersFirst
  <2>3. k = t
    <3> SUFFICES ASSUME k < t PROVE FALSE
      BY <1>4, <1>6
    <3>1. k + 1 \in 1..MaxChunks /\ k < k + 1 /\ k + 1 <= t
      BY <1>4, BoundAssumption
    <3>2. ChunkBefore(q, r, k + 1, 1)
      BY <1>1, <1>6, <2>1, <3>1 DEF Gapless
    <3> QED
      BY <1>2, <3>2
  <2> QED
    BY <1>6, <2>2, <2>3
<1> QED
  BY <1>10, <1>11, <1>12, <1>13 DEF p, e, k

-----------------------------------------------------------------------------
(* The life of a request.                                                  *)

\* The request that is about to be started has been made, and no other command
\* starts it.
LEMMA Starts ==
  ASSUME Typed, BuffersInv, current.op = "start"
  PROVE  /\ current \in HostMessage /\ current.request_id \in Request
         /\ current.request_id < next_request_id
         /\ \A i \in 1..Len(to_host) :
              to_host[i].op = "start" => to_host[i].request_id # current.request_id
<1>1. current \in HostMessage /\ current # None
  BY HostMessages DEF Typed, None
<1>2. /\ current.request_id \in Request
      /\ current.buffer = <<current.request_id, "start", 0>>
  BY <1>1, HostMessages
<1>3. current.buffer # NoBuffer /\ current.buffer[1] = current.request_id
  BY <1>2, BufferNames
<1>4. current.request_id < next_request_id
  BY <1>1, <1>3 DEF BuffersInv, HostChannel, HostBufferOK
<1>5. ASSUME NEW i \in 1..Len(to_host), to_host[i].op = "start",
             to_host[i].request_id = current.request_id
      PROVE  FALSE
  <2>1. to_host[i] \in HostMessage
    BY ElementOfSeq DEF Typed
  <2>2. to_host[i].buffer = current.buffer
    BY <1>2, <1>5, <2>1, HostMessages
  <2> QED
    BY <1>1, <1>3, <2>2 DEF BuffersInv, HostChannel
<1> QED
  BY <1>1, <1>2, <1>4, <1>5

\* A client is never started twice, and delivers only while it runs.
LEMMA ClientsLive ==
  ASSUME Typed, ChunkInv, BuffersInv, LifeInv, [Next]_vars, NEW r \in Request
  PROVE  /\ client[r].state = "ended" =>
              /\ client'[r].state = "ended"
              /\ client'[r].chunks = client[r].chunks
         /\ client'[r].state = "none" =>
              /\ client[r].state = "none"
              /\ client'[r].chunks = client[r].chunks
              /\ client'[r].headers = client[r].headers
         /\ client[r].state = "none" =>
              \/ client'[r].state = "none"
              \/ start /\ r = current.request_id
         /\ r >= next_request_id => client'[r].state = "none"
<1>0. /\ client[r].state \in {"none", "running", "ended"}
      /\ next_request_id \in Int /\ r \in Int
  BY BoundAssumption DEF Typed, ClientRecord, Request
<1>x. ~(start /\ CallbackTerminal)
  <2>1. start => current.op = "start" /\ current' = None
    BY DEF start
  <2>2. CallbackTerminal => current' = current
    BY DEF CallbackTerminal, hostVars
  <2> QED
    BY <2>1, <2>2 DEF None
<1>1. r >= next_request_id => client[r].state = "none"
  BY DEF LifeInv, ClientLife
<1>2. CASE client' = client
  BY <1>1, <1>2
<1>3. CASE start
  <2>1. /\ client'[r].chunks = client[r].chunks /\ client'[r].headers = client[r].headers
        /\ \/ client'[r].state = client[r].state
           \/ r = current.request_id /\ client'[r].state = "running"
    BY <1>3, <1>x, ClientSteps
  <2>2. /\ current.request_id < next_request_id /\ current.request_id \in Request
        /\ client[current.request_id].state = "none"
    BY <1>3, Starts DEF start, LifeInv, CommandLife
  <2> QED
    BY <1>0, <1>1, <1>3, <2>1, <2>2
<1>4. CASE CallbackTerminal
  <2>1. client[cb.request_id].state = "running"
    BY <1>4 DEF CallbackTerminal
  <2>2. /\ client'[r].chunks = client[r].chunks /\ client'[r].headers = client[r].headers
        /\ \/ client'[r].state = client[r].state
           \/ r = cb.request_id /\ client'[r].state = "ended"
           \/ r = current.request_id /\ start
    BY <1>4, ClientSteps
  <2>3. ~start
    BY <1>4, <1>x
  <2> QED
    BY <1>0, <1>1, <2>1, <2>2, <2>3
<1>5. ASSUME NEW q \in Request, Result(q)
      PROVE  /\ r = q => client[r].state = "running" /\ client'[r].state = "running"
             /\ r # q => client'[r] = client[r]
  BY <1>5, CallsBack
<1>6. CASE \E q \in Request : Result(q)
  BY <1>0, <1>1, <1>5, <1>6
<1>7. CASE UNCHANGED httpVars \/ CallbackReady \/ CallbackHeaders \/ CallbackBody
           \/ CallbackReturns \/ destroy
  <2>1. client' = client
    BY <1>7 DEF httpVars, CallbackReady, CallbackHeaders, CallbackBody,
                CallbackReturns, destroy
  <2> QED
    BY <1>2, <2>1
<1> QED
  BY <1>3, <1>4, <1>6, <1>7, OtherThreads

\* Only an event changes a result, and it becomes good by a good end only.
LEMMA ResultsLive ==
  ASSUME Typed, [Next]_vars, NEW r \in Request
  PROVE  /\ next_request_id <= next_request_id'
         /\ \/ result'[r] = result[r]
            \/ /\ BridgePoll /\ to_engine # <<>>
               /\ r = Head(to_engine).request_id /\ r \in handlers
         /\ result'[r].end = "ok" =>
              \/ result[r].end = "ok"
              \/ BridgePoll /\ EndOf(Head(to_engine), r, TRUE)
<1>1. CASE BridgePoll /\ r = Head(to_engine).request_id /\ r \in handlers
  <2> DEFINE m == Head(to_engine)
  <2>1. m \in EngineMessage /\ to_engine # <<>> /\ result[r] \in ResultRecord
    BY <1>1, Taken DEF BridgePoll, Typed
  <2>2. PICK res \in {Accepted(m, result[r]), Failed(result[r])} :
          result' = [result EXCEPT ![r] = res]
    BY <1>1, Polls
  <2>3. next_request_id' = next_request_id /\ next_request_id \in Int
    BY <1>1 DEF BridgePoll, Typed
  <2> HIDE DEF m
  <2>4. result'[r] = res
    BY <2>2 DEF Typed
  <2>5. res.end = "ok" => result[r].end = "ok" \/ (m.op = "end" /\ m.ok = TRUE)
    <3>1. /\ Failed(result[r]).end = "failed" /\ m.ok \in BOOLEAN
          /\ m.op = "end" /\ ~m.ok => Accepted(m, result[r]).end = "failed"
          /\ m.op # "end" => Accepted(m, result[r]).end = result[r].end
      BY <2>1, Results, EngineMessages
    <3> QED
      BY <2>2, <3>1
  <2> QED
    BY <1>1, <2>1, <2>3, <2>4, <2>5 DEF EndOf, m
<1>2. CASE BridgePoll /\ ~(r = Head(to_engine).request_id /\ r \in handlers)
  <2>1. next_request_id' = next_request_id /\ next_request_id \in Int
    BY <1>2 DEF BridgePoll, Typed
  <2>2. result'[r] = result[r]
    <3>1. CASE Head(to_engine).request_id \in handlers
      <4>1. PICK res :
              result' = [result EXCEPT ![Head(to_engine).request_id] = res]
        BY <1>2, <3>1, Polls
      <4> QED
        BY <1>2, <3>1, <4>1 DEF Typed
    <3>2. CASE Head(to_engine).request_id \notin handlers
      BY <1>2, <3>2 DEF BridgePoll
    <3> QED
      BY <3>1, <3>2
  <2>3. next_request_id <= next_request_id'
    BY <2>1
  <2> QED
    BY <2>2, <2>3, Zenon
<1>3. CASE ~BridgePoll
  <2>1. result' = result /\ (next_request_id' = next_request_id
                             \/ next_request_id' = next_request_id + 1)
    BY <1>3, OtherThanVm
    DEF vmVars, queue, writeRequestData, writeEndRequest, abortListener, onProgressUpdate
  <2>2. next_request_id <= next_request_id'
    BY <2>1 DEF Typed
  <2> QED
    BY <2>1, <2>2, Zenon
<1> QED
  BY <1>1, <1>2, <1>3

\* What a step sends to the engine: of a request that has been made, and a good
\* end only of one whose client has ended.
LEMMA EventsLive ==
  ASSUME Typed, ChunkInv, BuffersInv, LifeInv, [Next]_vars
  PROVE  \/ to_engine' = to_engine
         \/ BridgePoll
         \/ \E e \in EngineMessage :
              /\ to_engine' = Append(to_engine, e)
              /\ e.request_id < next_request_id
              /\ e.op = "end" /\ e.ok => client'[e.request_id].state = "ended"
<1>0. ASSUME cb \in CallbackResult
      PROVE  cb.request_id < next_request_id /\ cb.request_id \in Request
  <2>1. cb.op = "callback" /\ cb.request_id \in Request
    BY <1>0, Callbacks
  <2>2. client[cb.request_id].state # "none"
    BY <2>1 DEF LifeInv, CallbackLife
  <2>3. ~(cb.request_id >= next_request_id)
    BY <2>1, <2>2 DEF LifeInv, ClientLife
  <2> QED
    BY <2>1, <2>3, BoundAssumption DEF Typed, Request
<1>1. ASSUME NEW r \in Request, r < next_request_id, NEW e \in EngineMessage,
             e.request_id = r, e.op # "end" \/ ~e.ok,
             to_engine' = Append(to_engine, e)
      PROVE  \E d \in EngineMessage :
               /\ to_engine' = Append(to_engine, d)
               /\ d.request_id < next_request_id
               /\ d.op = "end" /\ d.ok => client'[d.request_id].state = "ended"
  BY <1>1
<1>2. \A r \in Request :
        LET e == Message("end", r, NoBuffer, FALSE)
        IN  e \in EngineMessage /\ e.request_id = r /\ ~e.ok
  BY NewEvents DEF Message
<1>3. CASE start
  <2>1. current.request_id < next_request_id /\ current.request_id \in Request
    BY <1>3, Starts DEF start
  <2>2. \/ to_engine' = to_engine
        \/ SendOrLose(Message("end", current.request_id, NoBuffer, FALSE))
    BY <1>3 DEF start
  <2>3. \/ to_engine' = to_engine
        \/ to_engine' = Append(to_engine, Message("end", current.request_id, NoBuffer, FALSE))
    BY <2>1, <2>2, Terminals
  <2> QED
    BY <1>1, <1>2, <2>1, <2>3
<1>4. CASE CallbackReady
  <2>1. cb \in CallbackResult
    BY <1>4 DEF CallbackReady, Typed
  <2> DEFINE e == Message("ready", cb.request_id, NoBuffer, TRUE)
  <2>2. e \in EngineMessage /\ e.request_id = cb.request_id /\ e.op # "end"
    BY <1>0, <2>1, NewEvents DEF Message
  <2>3. to_engine' = to_engine \/ to_engine' = Append(to_engine, e)
    BY <1>4 DEF CallbackReady
  <2> HIDE DEF e
  <2> QED
    BY <1>0, <1>1, <2>1, <2>2, <2>3
<1>5. ASSUME cb \in CallbackResult, NEW op, op # "end", NEW n,
             Message(op, cb.request_id, <<cb.request_id, op, n>>, TRUE) \in EngineMessage,
             SendBytes(op, cb.request_id, n)
      PROVE  \/ to_engine' = to_engine
             \/ \E d \in EngineMessage :
                  /\ to_engine' = Append(to_engine, d)
                  /\ d.request_id < next_request_id
                  /\ d.op = "end" /\ d.ok => client'[d.request_id].state = "ended"
  <2> DEFINE m == Message(op, cb.request_id, <<cb.request_id, op, n>>, TRUE)
             e == Message("end", cb.request_id, NoBuffer, FALSE)
  <2>1. m.request_id = cb.request_id /\ m.op # "end" /\ m \in EngineMessage
    BY <1>5 DEF Message
  <2>2. \/ to_engine' = to_engine
        \/ to_engine' = Append(to_engine, m)
        \/ to_engine' = Append(to_engine, e)
    BY <1>0, <1>5, Bytes
  <2>3. e \in EngineMessage /\ e.request_id = cb.request_id /\ ~e.ok
    BY <1>0, <1>2, <1>5
  <2> HIDE DEF m, e
  <2> QED
    BY <1>0, <1>1, <1>5, <2>1, <2>2, <2>3
<1>6. CASE CallbackHeaders
  <2>1. cb \in CallbackResult /\ SendBytes("headers", cb.request_id, 0)
    BY <1>6 DEF CallbackHeaders, Typed
  <2>2. Message("headers", cb.request_id, <<cb.request_id, "headers", 0>>, TRUE)
          \in EngineMessage
    BY <1>0, <2>1, NewEvents
  <2> QED
    BY <1>5, <2>1, <2>2
<1>7. CASE CallbackBody
  <2> DEFINE k == client[cb.request_id].chunks
  <2>1. cb \in CallbackResult /\ SendBytes("chunk", cb.request_id, k)
    BY <1>7 DEF CallbackBody, Typed
  <2>2. k \in 1..MaxChunks
    BY <1>7, TriedBody
  <2>3. Message("chunk", cb.request_id, <<cb.request_id, "chunk", k>>, TRUE)
          \in EngineMessage
    BY <1>0, <2>1, <2>2, NewEvents
  <2> QED
    BY <1>5, <2>1, <2>3
<1>8. CASE CallbackTerminal
  <2> DEFINE e == Message("end", cb.request_id, NoBuffer, cb.ok)
  <2>1. cb \in CallbackResult /\ cb.ok \in BOOLEAN
    <3>1. cb \in CallbackResult
      BY <1>8 DEF CallbackTerminal, CallbackEnds, Typed
    <3> QED
      BY <3>1, Zenon DEF CallbackResult
  <2>2. /\ e \in EngineMessage /\ e.request_id = cb.request_id
    BY <1>0, <2>1, NewEvents DEF Message
  <2>3. to_engine' = to_engine \/ to_engine' = Append(to_engine, e)
    BY <1>8 DEF CallbackTerminal, sendTerminal, SendOrLose
  <2>4. client'[cb.request_id].state = "ended"
    <3>1. client' = [client EXCEPT ![cb.request_id] = Ended(client[cb.request_id])]
      BY <1>8 DEF CallbackTerminal
    <3>2. /\ client \in [Request -> ClientRecord]
          /\ Ended(client[cb.request_id]).state = "ended"
      BY <1>0, <2>1, Clients DEF Typed
    <3> QED
      BY <1>0, <2>1, <3>1, <3>2
  <2> HIDE DEF e
  <2> QED
    BY <1>0, <2>1, <2>2, <2>3, <2>4
<1>9. CASE queue \/ (\E r \in Request : \/ writeRequestData(r) \/ writeEndRequest(r)
                                        \/ abortListener(r) \/ onProgressUpdate(r)
                                        \/ Result(r))
  BY <1>9 DEF queue, writeRequestData, writeEndRequest, abortListener,
              onProgressUpdate, Result
<1>10. CASE HostReceive \/ find \/ Use \/ CallbackReturns \/ destroy \/ UNCHANGED vars
  BY <1>10 DEF HostReceive, find, Use, CallbackReturns, destroy, vars
<1> QED
  BY <1>3, <1>4, <1>6, <1>7, <1>8, <1>9, <1>10 DEF Next, Client, Vm, Host, Callback

\* Only queue sends a command that starts a request, the next one.
LEMMA CommandsLive ==
  ASSUME Typed, [Next]_vars, NEW i \in 1..Len(to_host'), to_host'[i].op = "start"
  PROVE  \/ \E j \in 1..Len(to_host) : to_host'[i] = to_host[j]
         \/ queue /\ to_host'[i].request_id = next_request_id
<1> DEFINE Old == \E j \in 1..Len(to_host) : to_host'[i] = to_host[j]
<1>0. to_host \in Seq(HostMessage)
  BY DEF Typed
<1>1. ASSUME NEW q \in Seq(HostMessage), NEW m \in HostMessage, NEW l \in 1..Len(Append(q, m))
      PROVE  \/ \E j \in 1..Len(q) : Append(q, m)[l] = q[j]
             \/ Append(q, m)[l] = m
  BY <1>1, Added
<1>2. CASE to_host' = to_host
  BY <1>2
<1>3. ASSUME NEW m \in HostMessage, m.op # "start", to_host' = Append(to_host, m)
      PROVE  Old
  BY <1>0, <1>1, <1>3
<1>4. CASE queue
  <2> DEFINE m == Message("start", next_request_id, <<next_request_id, "start", 0>>, TRUE)
  <2>1. to_host' = to_host \/ to_host' = Append(to_host, m)
    BY <1>4 DEF queue
  <2>2. m \in HostMessage /\ m.request_id = next_request_id
    BY <1>4, NewCommands DEF queue, Message
  <2> HIDE DEF m
  <2>3. CASE to_host' = Append(to_host, m)
    <3>1. Old \/ to_host'[i] = m
      BY <1>0, <1>1, <2>2, <2>3
    <3> QED
      BY <1>4, <2>2, <3>1
  <2> QED
    BY <1>2, <2>1, <2>3
<1>5. ASSUME NEW r \in Request, writeRequestData(r) PROVE Old
  <2> DEFINE m == Message("body", r, <<r, "body", writes[r] + 1>>, TRUE)
  <2>1. to_host' = to_host \/ to_host' = Append(to_host, m)
    BY <1>5 DEF writeRequestData
  <2>2. writes[r] + 1 \in 0..MaxWrites
    <3>1. writes[r] < MaxWrites /\ writes[r] \in 0..MaxWrites
      BY <1>5 DEF writeRequestData, Typed
    <3> QED
      BY <3>1, BoundAssumption
  <2>3. m \in HostMessage /\ m.op # "start"
    BY <2>2, NewCommands DEF Message
  <2> HIDE DEF m
  <2> QED
    BY <1>3, <2>1, <2>3
<1>6. ASSUME NEW r \in Request, abortListener(r) PROVE Old
  <2>1. to_host' = to_host \/ to_host' = Append(to_host, Cancel(r))
    BY <1>6, Aborts DEF abortListener
  <2>2. Cancel(r) \in HostMessage /\ Cancel(r).op # "start"
    BY NewCommands DEF Cancel, Message
  <2> QED
    BY <1>3, <2>1, <2>2
<1>7. ASSUME NEW r \in Request, writeEndRequest(r) PROVE Old
  <2>1. /\ LastChunk(r) \in HostMessage /\ LastChunk(r).op # "start"
        /\ EndOfBody(r) \in HostMessage /\ EndOfBody(r).op # "start"
        /\ Cancel(r) \in HostMessage /\ Cancel(r).op # "start"
    BY NewCommands DEF LastChunk, EndOfBody, Cancel, Message
  <2>2. PICK channel \in {to_host, Append(to_host, LastChunk(r))} :
          to_host' \in {channel, Append(channel, EndOfBody(r)), Append(channel, Cancel(r))}
    BY <1>7, Closes DEF EndsBody
  <2>3. channel \in Seq(HostMessage)
    BY <1>0, <2>1, <2>2, Added
  <2>4. ASSUME NEW l \in 1..Len(channel), channel[l].op = "start"
        PROVE  \E j \in 1..Len(to_host) : channel[l] = to_host[j]
    <3>1. CASE channel = to_host
      BY <2>4, <3>1
    <3>2. CASE channel = Append(to_host, LastChunk(r))
      <4>1. /\ Len(to_host) \in Nat /\ Len(channel) = Len(to_host) + 1
            /\ \A j \in 1..Len(to_host) : channel[j] = to_host[j]
            /\ channel[Len(to_host) + 1] = LastChunk(r)
        BY <1>0, <2>1, <3>2, Added
      <4>2. l # Len(to_host) + 1
        BY <2>1, <2>4, <4>1
      <4>3. l \in 1..Len(to_host)
        BY <4>1, <4>2
      <4> QED
        BY <4>1, <4>3
    <3> QED
      BY <2>2, <3>1, <3>2
  <2>5. CASE to_host' = channel
    BY <2>4, <2>5
  <2>6. ASSUME NEW m \in HostMessage, m.op # "start", to_host' = Append(channel, m)
        PROVE  Old
    <3>1. \/ \E l \in 1..Len(channel) : to_host'[i] = channel[l]
          \/ to_host'[i] = m
      BY <1>1, <2>3, <2>6
    <3> QED
      BY <2>4, <2>6, <3>1
  <2> QED
    BY <2>1, <2>2, <2>5, <2>6
<1>8. CASE HostReceive
  <2>1. to_host # <<>> /\ to_host' = Tail(to_host)
    BY <1>8 DEF HostReceive
  <2>2. /\ Len(to_host) \in Nat /\ Len(to_host') = Len(to_host) - 1
        /\ to_host'[i] = to_host[i + 1]
    BY <1>0, <2>1, Taken
  <2>3. i + 1 \in 1..Len(to_host)
    BY <2>2
  <2> QED
    BY <2>2, <2>3
<1>11. ASSUME NEW r \in Request, onProgressUpdate(r) PROVE Old
  <2>1. to_host' = to_host \/ to_host' = Append(to_host, Cancel(r))
    BY <1>11, Updates
  <2>2. Cancel(r) \in HostMessage /\ Cancel(r).op # "start"
    BY NewCommands DEF Cancel, Message
  <2> QED
    BY <1>3, <2>1, <2>2
<1>9. CASE (\E r \in Request : Result(r)) \/ Callback
  BY <1>2, <1>9 DEF Result, Callback, CallbackReady, CallbackHeaders,
                    CallbackBody, CallbackReturns, CallbackTerminal, destroy
<1>10. CASE BridgePoll \/ start \/ find \/ Use \/ UNCHANGED vars
  BY <1>2, <1>10 DEF BridgePoll, start, find, Use, vars
<1> QED
  BY <1>4, <1>5, <1>6, <1>7, <1>8, <1>9, <1>10, <1>11 DEF Next, Client, Vm, Host

\* LifeInv holds of the initial state.
LEMMA InitLife == Init => LifeInv
<1> SUFFICES ASSUME Init PROVE LifeInv
  OBVIOUS
<1>1. \A r \in Request : ClientLife(r)
  BY DEF Init, ClientLife
<1>2. /\ CallbackLife /\ CommandLife(current)
      /\ \A i \in 1..Len(to_engine) : EventLife(to_engine[i])
      /\ \A i \in 1..Len(to_host) : CommandLife(to_host[i])
  BY EmptySeq DEF Init, CallbackLife, CommandLife, None
<1> QED
  BY <1>1, <1>2 DEF LifeInv

\* Every step keeps LifeInv.
LEMMA LifeStep ==
  Typed /\ Typed' /\ ChunkInv /\ RefsInv /\ BuffersInv /\ LifeInv /\ [Next]_vars
    => LifeInv'
<1> SUFFICES ASSUME Typed, Typed', ChunkInv, RefsInv, BuffersInv, LifeInv, [Next]_vars
             PROVE  LifeInv'
  OBVIOUS
<1>0. /\ next_request_id \in Int /\ next_request_id' \in Int
      /\ \A r \in Request : r \in Int
  BY BoundAssumption DEF Typed, Request
<1>n. ASSUME NEW r \in Request PROVE next_request_id <= next_request_id'
  BY ResultsLive
<1>1. ASSUME NEW r \in Request PROVE ClientLife(r)'
  <2>1. r >= next_request_id' => r >= next_request_id
    BY <1>0, <1>n
  <2>2. r >= next_request_id =>
          client'[r].state = "none" /\ result[r].chunks = <<>> /\ r \notin handlers
    BY ClientsLive DEF LifeInv, ClientLife, RefsInv, TaskletInv
  <2>3. r >= next_request_id' => client'[r].state = "none" /\ result'[r].chunks = <<>>
    BY <2>1, <2>2, ResultsLive
  <2>4. client'[r].state = "none" => client'[r].chunks = 0 /\ ~client'[r].headers
    BY ClientsLive DEF LifeInv, ClientLife
  <2>5. result'[r].end = "ok" => client'[r].state = "ended"
    <3>1. CASE result[r].end = "ok"
      BY <3>1, ClientsLive DEF LifeInv, ClientLife
    <3>2. CASE BridgePoll /\ EndOf(Head(to_engine), r, TRUE)
      <4>1. to_engine # <<>> /\ client' = client
        BY <3>2 DEF BridgePoll, httpVars
      <4>2. 1 \in 1..Len(to_engine) /\ Head(to_engine) = to_engine[1]
        BY <4>1, Taken DEF Typed
      <4>3. client[r].state = "ended"
        BY <3>2, <4>2 DEF LifeInv, EventLife, EndOf
      <4> QED
        BY <4>1, <4>3
    <3> QED
      BY <3>1, <3>2, ResultsLive
  <2> QED
    BY <2>3, <2>4, <2>5 DEF ClientLife
<1>2. CallbackLife'
  <2>1. CASE UNCHANGED httpVars
    BY <2>1 DEF httpVars, LifeInv, CallbackLife
  <2>2. CASE start
    <3>1. cb' = cb
      BY <2>2 DEF start
    <3>2. cb.op = "callback" => cb.request_id \in Request
      BY Callbacks DEF Typed, None
    <3>3. ~CallbackTerminal
      <4>1. current.op = "start" /\ current' = None
        BY <2>2 DEF start
      <4>2. CallbackTerminal => current' = current
        BY DEF CallbackTerminal, hostVars
      <4> QED
        BY <4>1, <4>2 DEF None
    <3>4. \A r \in Request : /\ client'[r].headers = client[r].headers
                             /\ \/ client'[r].state = client[r].state
                                \/ client'[r].state = "running"
      BY <2>2, <3>3, ClientSteps
    <3> QED
      BY <3>1, <3>2, <3>4 DEF LifeInv, CallbackLife
  <2>3. ASSUME NEW r \in Request, Result(r) PROVE CallbackLife'
    BY <2>3, CallsBack DEF CallbackLife
  <2>4. CASE CallbackReady \/ CallbackHeaders \/ CallbackBody
    <3>1. /\ cb \in CallbackResult /\ client' = client
          /\ cb' \in {ReadyDone(cb), HeadersDone(cb), ChunkDone(cb)}
      BY <2>4 DEF CallbackReady, CallbackHeaders, CallbackBody, Typed
    <3>2. /\ cb.op = "callback" /\ cb'.request_id = cb.request_id
          /\ cb'.last = cb.last /\ cb'.ok = cb.ok
      BY <3>1, Callbacks
    <3>3. /\ ~cb.headers => ~cb'.headers
          /\ ~cb.chunk => ~cb'.chunk
      BY <3>1, Zenon DEF CallbackResult, ReadyDone, HeadersDone, ChunkDone
    <3> QED
      BY <3>1, <3>2, <3>3 DEF LifeInv, CallbackLife
  <2>5. CASE CallbackReturns \/ destroy
    BY <2>5 DEF CallbackReturns, destroy, CallbackLife, None
  <2>6. CASE CallbackTerminal
    <3>1. cb' = cb /\ ~cb.headers /\ ~cb.chunk
      BY <2>6 DEF CallbackTerminal, CallbackEnds
    <3>2. cb \in CallbackResult
      BY <2>6 DEF CallbackTerminal, CallbackEnds, Typed
    <3>3. cb.op = "callback" /\ cb.request_id \in Request
      BY <3>2, Callbacks
    <3>4. client'[cb.request_id].headers = client[cb.request_id].headers
      BY <2>6, <3>3, ClientSteps
    <3>5. client'[cb.request_id].state # "none"
      BY <3>3, ClientsLive DEF LifeInv, CallbackLife
    <3> QED
      BY <3>1, <3>3, <3>4, <3>5 DEF LifeInv, CallbackLife
  <2> QED
    BY <2>1, <2>2, <2>3, <2>4, <2>5, <2>6, OtherThreads
<1>3. ASSUME NEW i \in 1..Len(to_engine') PROVE EventLife(to_engine[i])'
  <2>0. \A e \in EngineMessage : e.request_id \in Request
    BY EngineMessages
  <2>1. ASSUME NEW e \in EngineMessage, EventLife(e)
        PROVE  /\ e.request_id < next_request_id'
               /\ e.op = "end" /\ e.ok => client'[e.request_id].state = "ended"
    <3>1. e.request_id \in Request /\ e.request_id < next_request_id
      BY <2>0, <2>1 DEF EventLife
    <3>2. e.request_id < next_request_id'
      BY <1>0, <1>n, <3>1
    <3>3. e.op = "end" /\ e.ok => client[e.request_id].state = "ended"
      BY <2>1 DEF EventLife
    <3> QED
      BY <3>1, <3>2, <3>3, ClientsLive
  <2>2. \A j \in 1..Len(to_engine) : to_engine[j] \in EngineMessage /\ EventLife(to_engine[j])
    BY ElementOfSeq DEF Typed, LifeInv
  <2>3. CASE to_engine' = to_engine
    BY <2>1, <2>2, <2>3 DEF EventLife
  <2>4. CASE BridgePoll
    <3>1. to_engine # <<>> /\ to_engine' = Tail(to_engine)
      BY <2>4 DEF BridgePoll
    <3>2. i + 1 \in 1..Len(to_engine) /\ to_engine'[i] = to_engine[i + 1]
      BY <3>1, Taken DEF Typed
    <3> QED
      BY <2>1, <2>2, <3>2 DEF EventLife
  <2>5. ASSUME NEW e \in EngineMessage, to_engine' = Append(to_engine, e),
               e.request_id < next_request_id,
               e.op = "end" /\ e.ok => client'[e.request_id].state = "ended"
        PROVE  EventLife(to_engine[i])'
    <3>1. \/ i \in 1..Len(to_engine) /\ to_engine'[i] = to_engine[i]
          \/ to_engine'[i] = e
      BY <2>5, Added DEF Typed
    <3>2. e.request_id < next_request_id'
      BY <1>0, <1>n, <2>0, <2>5
    <3> QED
      BY <2>1, <2>2, <2>5, <3>1, <3>2 DEF EventLife
  <2> QED
    BY <2>3, <2>4, <2>5, EventsLive
<1>4. ASSUME NEW i \in 1..Len(to_host') PROVE CommandLife(to_host[i])'
  <2> SUFFICES ASSUME to_host'[i].op = "start"
               PROVE  client'[to_host'[i].request_id].state = "none"
    BY DEF CommandLife
  <2>1. ASSUME NEW j \in 1..Len(to_host), to_host'[i] = to_host[j]
        PROVE  client'[to_host'[i].request_id].state = "none"
    <3>1. to_host[j] \in HostMessage /\ to_host[j].request_id \in Request
      BY ElementOfSeq, HostMessages DEF Typed
    <3>2. client[to_host[j].request_id].state = "none"
      BY <2>1 DEF LifeInv, CommandLife
    <3>3. start => to_host[j].request_id # current.request_id
      BY <2>1, Starts DEF start
    <3> QED
      BY <2>1, <3>1, <3>2, <3>3, ClientsLive
  <2>2. CASE queue /\ to_host'[i].request_id = next_request_id
    <3>1. next_request_id \in Request /\ client' = client
      BY <2>2 DEF queue, httpVars
    <3>2. client[next_request_id].state = "none"
      BY <1>0, <3>1 DEF LifeInv, ClientLife
    <3> QED
      BY <2>2, <3>1, <3>2
  <2> QED
    BY <2>1, <2>2, CommandsLive
<1>5. CommandLife(current)'
  <2> SUFFICES ASSUME current'.op = "start"
               PROVE  client'[current'.request_id].state = "none"
    BY DEF CommandLife
  <2>1. CASE HostReceive
    <3>1. /\ to_host # <<>> /\ current' = Head(to_host) /\ client' = client
      BY <2>1 DEF HostReceive, httpVars
    <3>2. 1 \in 1..Len(to_host) /\ Head(to_host) = to_host[1]
      BY <3>1, Taken DEF Typed
    <3> QED
      BY <3>1, <3>2 DEF LifeInv, CommandLife
  <2>2. CASE current' = current
    <3>1. current.request_id \in Request /\ client[current.request_id].state = "none"
      BY <2>2, Starts DEF LifeInv, CommandLife
    <3>2. ~start
      <4>1. start => current' = None
        BY DEF start
      <4> QED
        BY <4>1 DEF None
    <3> QED
      BY <2>2, <3>1, <3>2, ClientsLive
  <2>3. CASE start \/ find \/ Use
    <3>1. current' = current \/ current' = None
      BY <2>3 DEF start, find, Use
    <3> QED
      BY <2>2, <3>1 DEF None
  <2>4. CASE (\E r \in Request : \/ writeRequestData(r) \/ writeEndRequest(r)
                                 \/ abortListener(r) \/ onProgressUpdate(r) \/ Result(r))
             \/ queue \/ BridgePoll
    BY <2>2, <2>4 DEF writeRequestData, writeEndRequest, abortListener, onProgressUpdate,
                      Result, queue, BridgePoll, hostVars
  <2>5. CASE Callback \/ UNCHANGED vars
    BY <2>2, <2>5 DEF Callback, CallbackReady, CallbackHeaders, CallbackBody,
                      CallbackReturns, CallbackTerminal, destroy, hostVars, vars
  <2> QED
    BY <2>1, <2>3, <2>4, <2>5 DEF Next, Client, Vm, Host
<1> QED
  BY <1>1, <1>2, <1>3, <1>4, <1>5 DEF LifeInv

-----------------------------------------------------------------------------
(* A response that ends well is whole.                                     *)

\* Event e is what request r needs next, when u chunks have been tried after it
\* and t before, and g and h say the same of the headers.
Follows(e, r, t, u, h, g) ==
  /\ \A n \in 1..MaxChunks : ChunkOf(e, r, n) => n = u /\ u = t + 1
  /\ EndOf(e, r, TRUE) => r \in h /\ u = t
  /\ u = t \/ (u = t + 1 /\ (ChunkOf(e, r, u) \/ EndOf(e, r, FALSE)))
  /\ (r \in g => r \in h) \/ HeadersOf(e, r) \/ EndOf(e, r, FALSE)

\* Which events neither carry a chunk of request r nor end it well.
LEMMA PlainEvents ==
  ASSUME NEW e, NEW r,
         \/ e.op = "ready" \/ (e.op = "end" /\ ~e.ok) \/ e.request_id # r
         \/ EndOf(e, r, FALSE)
  PROVE  /\ \A n : ~ChunkOf(e, r, n)
         /\ ~EndOf(e, r, TRUE)
  BY DEF ChunkOf, EndOf

\* The chunks that have been tried are at most those the client may deliver.
LEMMA TriedTyped ==
  ASSUME Typed, ChunkInv, NEW r \in Request
  PROVE  Tried(r) \in 0..MaxChunks
<1>1. client[r].chunks \in 0..MaxChunks
  BY DEF Typed, ClientRecord
<1>2. InCallback(r) /\ cb.chunk => client[r].chunks > 0
  BY DEF InCallback, ChunkInv
<1> QED
  BY <1>1, <1>2, BoundAssumption DEF Tried, Bit

\* What a step sends follows what was sent before, unless it is lost.
LEMMA EventsFollow ==
  ASSUME Typed, ChunkInv, BuffersInv, LifeInv, [Next]_vars,
         NEW r \in Request, r \notin lost'
  PROVE  \/ BridgePoll
         \/ /\ to_engine' = to_engine /\ Tried(r)' = Tried(r)
            /\ r \in HeadersTried' <=> r \in HeadersTried
         \/ \E e \in EngineMessage :
              /\ to_engine' = Append(to_engine, e)
              /\ Follows(e, r, Tried(r), Tried(r)', HeadersTried, HeadersTried')
              /\ Tried(r)' = Tried(r) \/ client[r].state # "ended"
<1> DEFINE t == Tried(r)
           u == Tried(r)'
           h == HeadersTried
           g == HeadersTried'
           Adds(e) == /\ to_engine' = Append(to_engine, e)
                      /\ Follows(e, r, t, u, h, g)
                      /\ u = t \/ client[r].state # "ended"
           Goal == \/ BridgePoll
                   \/ to_engine' = to_engine /\ u = t /\ (r \in g <=> r \in h)
                   \/ \E e \in EngineMessage : Adds(e)
<1> SUFFICES Goal
  OBVIOUS
<1>0. t \in Nat
  BY TriedTyped
<1>1. ASSUME \/ UNCHANGED httpVars
             \/ start \/ \E q \in Request : Result(q)
             \/ CallbackReady \/ CallbackReturns \/ CallbackTerminal \/ destroy
      PROVE  u = t /\ g = h
  BY <1>1, TriedStays
<1>2. ASSUME NEW e \in EngineMessage, to_engine' = Append(to_engine, e), u = t, g = h,
             e.op = "ready" \/ (e.op = "end" /\ ~e.ok)
      PROVE  Goal
  <2> HIDE DEF t, u, h, g
  <2>1. Follows(e, r, t, u, h, g)
    BY <1>2, PlainEvents, Zenon DEF Follows
  <2> QED
    BY <1>2, <2>1
<1>3. \A q \in Request :
        LET e == Message("end", q, NoBuffer, FALSE)
        IN  e \in EngineMessage /\ e.op = "end" /\ ~e.ok /\ EndOf(e, q, FALSE)
  BY NewEvents DEF Message, EndOf
<1>4. CASE start
  <2>1. current.request_id \in Request
    BY <1>4, Starts DEF start
  <2>2. \/ to_engine' = to_engine
        \/ SendOrLose(Message("end", current.request_id, NoBuffer, FALSE))
    BY <1>4 DEF start
  <2>3. \/ to_engine' = to_engine
        \/ to_engine' = Append(to_engine, Message("end", current.request_id, NoBuffer, FALSE))
    BY <2>1, <2>2, Terminals
  <2>4. u = t /\ g = h
    BY <1>1, <1>4
  <2> HIDE DEF t, u, h, g
  <2> QED
    BY <1>2, <1>3, <2>1, <2>3, <2>4
<1>5. CASE CallbackReady
  <2>1. cb.request_id \in Request
    BY <1>5, Callbacks DEF CallbackReady, Typed
  <2> DEFINE e == Message("ready", cb.request_id, NoBuffer, TRUE)
  <2>2. e \in EngineMessage /\ e.op = "ready"
    BY <2>1, NewEvents DEF Message
  <2>3. to_engine' = to_engine \/ to_engine' = Append(to_engine, e)
    BY <1>5 DEF CallbackReady
  <2>4. u = t /\ g = h
    BY <1>1, <1>5
  <2> HIDE DEF e, t, u, h, g
  <2> QED
    BY <1>2, <2>2, <2>3, <2>4
<1>6. CASE CallbackTerminal
  <2> DEFINE e == Message("end", cb.request_id, NoBuffer, cb.ok)
  <2>1. cb \in CallbackResult /\ ~cb.headers /\ cb.last
    BY <1>6 DEF CallbackTerminal, CallbackEnds, Typed
  <2>2. cb.request_id \in Request /\ cb.op = "callback"
    BY <2>1, Callbacks
  <2>a. cb.ok \in BOOLEAN
    BY <2>1, Zenon DEF CallbackResult
  <2>3. /\ e \in EngineMessage /\ e.op = "end" /\ e.ok = cb.ok
        /\ e.request_id = cb.request_id
    BY <2>2, <2>a, NewEvents DEF Message
  <2>4. to_engine' = Append(to_engine, e) \/ (to_engine' = to_engine /\ u = t /\ g = h)
    BY <1>1, <1>6 DEF CallbackTerminal, sendTerminal, SendOrLose
  <2>5. u = t /\ g = h
    BY <1>1, <1>6
  <2>6. CASE cb.ok /\ r = cb.request_id
    <3>1. client[r].headers
      BY <2>1, <2>2, <2>6 DEF LifeInv, CallbackLife
    <3>2. r \in h
      BY <2>1, <3>1 DEF HeadersTried
    <3>3. \A n : ~ChunkOf(e, r, n)
      BY <2>3 DEF ChunkOf
    <3> HIDE DEF e, t, u, h, g
    <3>4. Follows(e, r, t, u, h, g)
      BY <2>5, <3>2, <3>3, Zenon DEF Follows
    <3> QED
      BY <2>3, <2>4, <2>5, <3>4
  <2>7. CASE ~(cb.ok /\ r = cb.request_id)
    <3> HIDE DEF e, t, u, h, g
    <3>1. (e.op = "end" /\ ~e.ok) \/ e.request_id # r
      BY <2>3, <2>7
    <3>2. Follows(e, r, t, u, h, g)
      BY <2>5, <3>1, PlainEvents, Zenon DEF Follows
    <3> QED
      BY <2>3, <2>4, <2>5, <3>2
  <2> QED
    BY <2>6, <2>7
<1>7. ASSUME NEW q \in Request, NEW op \in {"headers", "chunk"}, NEW n,
             NEW m \in EngineMessage, m = Message(op, q, <<q, op, n>>, TRUE),
             SendBytes(op, q, n),
             u = t \/ u = t + 1, q # r => u = t /\ (r \in g <=> r \in h),
             u = t \/ client[r].state # "ended",
             q = r => Follows(m, r, t, u, h, g)
      PROVE  Goal
  <2> DEFINE e == Message("end", q, NoBuffer, FALSE)
  <2>1. \/ to_engine' = Append(to_engine, m)
        \/ to_engine' = Append(to_engine, e)
        \/ to_engine' = to_engine /\ q \in lost'
    BY <1>7, Bytes
  <2>2. e \in EngineMessage /\ EndOf(e, q, FALSE) /\ e.request_id = q
    BY <1>3 DEF EndOf
  <2>3. m.request_id = q
    BY <1>7 DEF Message
  <2> HIDE DEF e, t, u, h, g
  <2>5. Follows(m, r, t, u, h, g)
    <3>1. CASE q = r
      BY <1>7, <3>1
    <3>2. CASE q # r
      BY <1>7, <2>3, <3>2, PlainEvents, Zenon DEF Follows
    <3> QED
      BY <3>1, <3>2
  <2>6. Follows(e, r, t, u, h, g)
    <3>1. CASE q = r
      BY <1>7, <2>2, <3>1, PlainEvents, Zenon DEF Follows
    <3>2. CASE q # r
      BY <1>7, <2>2, <3>2, PlainEvents, Zenon DEF Follows
    <3> QED
      BY <3>1, <3>2
  <2>7. CASE to_engine' = to_engine /\ q \in lost'
    BY <1>7, <2>7
  <2> QED
    BY <1>7, <2>1, <2>2, <2>5, <2>6, <2>7
<1>8. CASE CallbackHeaders
  <2> DEFINE q == cb.request_id  m == Message("headers", q, <<q, "headers", 0>>, TRUE)
  <2>1. /\ q \in Request /\ u = t
        /\ HeadersTried' = HeadersTried \cup {q}
    BY <1>8, TriedHeaders
  <2>2. SendBytes("headers", q, 0)
    BY <1>8 DEF CallbackHeaders
  <2>3. m \in EngineMessage /\ HeadersOf(m, q)
    BY <2>1, NewEvents DEF Message, HeadersOf
  <2>4. q # r => (r \in g <=> r \in h)
    BY <2>1
  <2> HIDE DEF t, u, h, g
  <2>5. q = r => Follows(m, r, t, u, h, g)
    <3>1. /\ \A n : ~ChunkOf(m, q, n)
          /\ ~EndOf(m, q, TRUE)
      BY <2>3 DEF HeadersOf, ChunkOf, EndOf
    <3> QED
      BY <2>1, <2>3, <3>1, Zenon DEF Follows
  <2> QED
    BY <1>7, <2>1, <2>2, <2>3, <2>4, <2>5
<1>9. CASE CallbackBody
  <2> DEFINE q == cb.request_id
             k == client[q].chunks
             m == Message("chunk", q, <<q, "chunk", k>>, TRUE)
  <2>1. /\ q \in Request /\ k \in 1..MaxChunks /\ g = h
        /\ q # r => u = t
    BY <1>9, TriedBody
  <2>a. q = r => t = k - 1 /\ u = k
    BY <1>9, TriedBody
  <2>2. SendBytes("chunk", q, k)
    BY <1>9 DEF CallbackBody
  <2>3. m \in EngineMessage
    BY <2>1, NewEvents
  <2>4. /\ ChunkOf(m, q, k) /\ ~EndOf(m, q, TRUE)
        /\ \A n : ChunkOf(m, q, n) => n = k
    BY DEF Message, ChunkOf, EndOf
  <2>5. q = r => client[r].state # "ended"
    <3>1. cb \in CallbackResult /\ cb.chunk
      BY <1>9 DEF CallbackBody, Typed
    <3>2. cb.op = "callback"
      BY <3>1, Callbacks
    <3> QED
      BY <3>1, <3>2 DEF LifeInv, CallbackLife
  <2> HIDE DEF t, u, h, g, k, m
  <2>6. (u = t \/ u = t + 1) /\ (q = r => u = t + 1 /\ u = k)
    BY <1>0, <2>1, <2>a
  <2>7. q = r => Follows(m, r, t, u, h, g)
    BY <2>1, <2>4, <2>6, Zenon DEF Follows
  <2> QED
    BY <1>7, <2>1, <2>2, <2>3, <2>5, <2>6, <2>7 DEF m
<1>10. CASE \/ queue
            \/ \E q \in Request : \/ writeRequestData(q) \/ writeEndRequest(q)
                                  \/ abortListener(q) \/ onProgressUpdate(q)
            \/ HostReceive \/ find \/ Use \/ UNCHANGED vars
  <2>1. UNCHANGED httpVars
    BY <1>10 DEF queue, writeRequestData, writeEndRequest, abortListener,
                 onProgressUpdate, HostReceive, find, Use, vars, httpVars
  <2>2. to_engine' = to_engine
    BY <1>10 DEF queue, writeRequestData, writeEndRequest, abortListener,
                 onProgressUpdate, HostReceive, find, Use, vars
  <2> QED
    BY <1>1, <2>1, <2>2
<1>11. CASE (\E q \in Request : Result(q)) \/ CallbackReturns \/ destroy
  <2>1. to_engine' = to_engine
    BY <1>11 DEF Result, CallbackReturns, destroy
  <2> QED
    BY <1>1, <1>11, <2>1
<1> QED
  BY <1>4, <1>5, <1>6, <1>8, <1>9, <1>10, <1>11 DEF Next, Client, Vm, Host, Callback

\* No failure is forgotten, and only queue registers a handler.
LEMMA HandlersLive ==
  ASSUME Typed, [Next]_vars
  PROVE  /\ lost \subseteq lost'
         /\ \A r \in handlers' :
              r \in handlers \/ (queue /\ r = next_request_id /\ r \in Request)
<1>1. lost \subseteq lost'
  <2>1. CASE queue \/ (\E r \in Request : \/ writeRequestData(r) \/ writeEndRequest(r)
                                          \/ abortListener(r) \/ onProgressUpdate(r)
                                          \/ Result(r))
    BY <2>1 DEF queue, writeRequestData, writeEndRequest, abortListener,
                onProgressUpdate, Result
  <2>2. CASE HostReceive \/ start \/ find \/ Use \/ BridgePoll \/ UNCHANGED vars
    BY <2>2 DEF HostReceive, start, find, Use, BridgePoll, vars, SendOrLose
  <2>3. CASE Callback
    BY <2>3 DEF Callback, CallbackReady, CallbackHeaders, CallbackBody, CallbackReturns,
                CallbackTerminal, destroy, SendBytes, sendTerminal, SendOrLose
  <2> QED
    BY <2>1, <2>2, <2>3 DEF Next, Client, Vm, Host
<1>2. ASSUME NEW r \in handlers'
      PROVE  r \in handlers \/ (queue /\ r = next_request_id /\ r \in Request)
  <2>1. CASE queue
    BY <1>2, <2>1 DEF queue
  <2>2. CASE BridgePoll
    BY <1>2, <2>2 DEF BridgePoll, HandlersAfter
  <2>3. CASE UNCHANGED vmVars
    BY <1>2, <2>3 DEF vmVars
  <2>4. CASE \E q \in Request : \/ writeRequestData(q) \/ writeEndRequest(q)
                                \/ abortListener(q) \/ onProgressUpdate(q)
    BY <1>2, <2>4 DEF writeRequestData, writeEndRequest, abortListener, onProgressUpdate
  <2> QED
    BY <2>1, <2>2, <2>3, <2>4, OtherThanVm
<1> QED
  BY <1>1, <1>2

\* WholeInv holds of the initial state.
LEMMA InitWhole == Init => WholeInv
  BY DEF Init, WholeInv, ResponseIsWhole

\* Of a request without events nothing has to be said.
LEMMA NothingSent ==
  ASSUME NEW q \in Seq(EngineMessage), NEW r, NEW a, NEW h, r \notin h,
         \A i \in 1..Len(q) : q[i].request_id # r
  PROVE  Whole(q, r, <<>>, 0, a, h)
<1>1. \A i \in 1..Len(q) : /\ \A n : ~ChunkAt(q, r, n, i)
                           /\ ~EndAt(q, r, TRUE, i)
  BY DEF ChunkAt, EndAt
<1>2. Ascending(q, r, 0, 0)
  BY <1>1 DEF Ascending
<1>3. Gapless(q, r, 0, 0)
  <2>1. \A n \in 1..MaxChunks : ~(n <= 0)
    BY BoundAssumption
  <2> QED
    BY <1>1, <2>1 DEF Gapless
<1>a. HeadersFirst(q, r, a, h)
  BY <1>1 DEF HeadersFirst
<1>4. Len(<<>>) = 0 /\ <<>> = [i \in 1..0 |-> i]
  BY EmptySeq
<1>5. Len(<<>>) <= 0 /\ <<>> = [i \in 1..Len(<<>>) |-> i]
      /\ Ascending(q, r, Len(<<>>), 0) /\ Gapless(q, r, Len(<<>>), 0)
  BY <1>2, <1>3, <1>4
<1> QED
  BY <1>5, <1>a, Zenon DEF Whole

\* Every step keeps WholeInv.
LEMMA WholeStep ==
  Typed /\ Typed' /\ ChunkInv /\ RefsInv /\ BuffersInv /\ LifeInv /\ WholeInv
    /\ [Next]_vars => WholeInv'
<1> SUFFICES ASSUME Typed, Typed', ChunkInv, RefsInv, BuffersInv, LifeInv, WholeInv,
                    [Next]_vars
             PROVE  WholeInv'
  OBVIOUS
<1>0. to_engine \in Seq(EngineMessage) /\ to_engine' \in Seq(EngineMessage)
  BY DEF Typed
<1>1. BridgePoll => /\ to_engine # <<>> /\ to_engine' = Tail(to_engine)
                    /\ UNCHANGED httpVars
                    /\ \A q \in Request : Tried(q)' = Tried(q)
                    /\ HeadersTried' = HeadersTried
  BY TriedStays DEF BridgePoll
<1>2. ASSUME NEW r \in handlers, r \notin lost
      PROVE  /\ r \in Request
             /\ Whole(to_engine, r, result[r].chunks, Tried(r), HeadersAccepted,
                      HeadersTried)
             /\ result[r] \in ResultRecord /\ result[r].end = "none"
             /\ result[r].chunks \in Seq(1..MaxChunks) /\ result[r].headers \in BOOLEAN
             /\ Tried(r) \in 0..MaxChunks
  <2>1. r \in Request /\ result[r] \in ResultRecord
    BY DEF Typed
  <2>2. Whole(to_engine, r, result[r].chunks, Tried(r), HeadersAccepted,
              HeadersTried)
    BY <1>2 DEF WholeInv
  <2>3. result[r].end = "none"
    BY <2>1 DEF RefsInv, TaskletInv
  <2>4. result[r].chunks \in Seq(1..MaxChunks) /\ result[r].headers \in BOOLEAN
    BY <2>1, Zenon DEF ResultRecord
  <2> QED
    BY <2>1, <2>2, <2>3, <2>4, TriedTyped
<1>3. ASSUME NEW r \in handlers' \ lost'
      PROVE  Whole(to_engine, r, result[r].chunks, Tried(r), HeadersAccepted,
                   HeadersTried)'
  <2>1. r \notin lost
    BY <1>3, HandlersLive
  <2>2. CASE r \notin handlers
    <3>1. queue /\ r = next_request_id /\ r \in Request
      BY <1>3, <2>2, HandlersLive
    <3>2. /\ UNCHANGED httpVars /\ to_engine' = to_engine /\ result' = result
      BY <3>1 DEF queue
    <3>3. /\ \A q \in Request : Tried(q)' = Tried(q)
          /\ HeadersTried' = HeadersTried
      BY <3>2, TriedStays
    <3>4. /\ client[r].state = "none" /\ result[r].chunks = <<>>
          /\ client[r].chunks = 0 /\ ~client[r].headers
      BY <3>1 DEF LifeInv, ClientLife, Request
    <3>5. ~InCallback(r)
      BY <3>4 DEF LifeInv, CallbackLife, InCallback
    <3>b. Tried(r) = 0
      <4>1. Bit(InCallback(r) /\ cb.chunk) = 0 /\ client[r].chunks = 0
        BY <3>4, <3>5, Zenon DEF Bit
      <4>2. 0 - 0 = 0
        OBVIOUS
      <4> QED
        BY <4>1, <4>2, Zenon DEF Tried
    <3>6. r \notin HeadersTried
      BY <3>4, <3>5, Zenon DEF HeadersTried
    <3>7. \A i \in 1..Len(to_engine) : to_engine[i].request_id # r
      <4> SUFFICES ASSUME NEW i \in 1..Len(to_engine)
                   PROVE  to_engine[i].request_id # r
        OBVIOUS
      <4>1. to_engine[i].request_id < next_request_id
        BY DEF LifeInv, EventLife
      <4> QED
        BY <3>1, <4>1 DEF Request
    <3>8. Tried(r)' = 0 /\ r \notin HeadersTried'
      BY <3>1, <3>3, <3>b, <3>6
    <3>9. Whole(to_engine, r, <<>>, 0, HeadersAccepted', HeadersTried')
      BY <1>0, <3>7, <3>8, NothingSent
    <3> QED
      BY <3>2, <3>4, <3>8, <3>9
  <2>3. CASE r \in handlers /\ BridgePoll
    <3> DEFINE m == Head(to_engine)
               p == Tail(to_engine)
               c == result[r].chunks
               t == Tried(r)
               a == HeadersAccepted
               b == HeadersAccepted'
               h == HeadersTried
    <3>1. Whole(to_engine, r, c, t, a, h)
      BY <1>2, <2>1, <2>3
    <3>2. to_engine # <<>> /\ to_engine' = p /\ Tried(r)' = t /\ HeadersTried' = h
      BY <1>1, <1>2, <2>1, <2>3
    <3>3. m \in EngineMessage /\ r \in Request
      BY <1>0, <1>2, <2>1, <2>3, <3>2, Taken
    <3>4. c \in Seq(1..MaxChunks) /\ t \in 0..MaxChunks
      BY <1>2, <2>1, <2>3
    <3>a. r \in b <=> result'[r].headers
      BY <3>3 DEF HeadersAccepted
    <3>5. (r \in a => r \in b) =>
          /\ m.request_id # r \/ m.op = "ready" => Whole(p, r, c, t, b, h)
          /\ HeadersOf(m, r) /\ r \in b => Whole(p, r, c, t, b, h)
          /\ \A n \in 1..MaxChunks : ChunkOf(m, r, n) =>
               Whole(p, r, Append(c, n), t, b, h)
      <4> HIDE DEF c, t, h, a, b
      <4> QED
        BY <1>0, <3>1, <3>2, <3>4, WholeTaken
    <3>6. Whole(p, r, result'[r].chunks, t, b, h)
      <4>1. CASE m.request_id # r
        <5>1. result'[r] = result[r]
          BY <3>3, <4>1, ResultsLive
        <5>2. r \in a => r \in b
          BY <5>1 DEF HeadersAccepted
        <5> QED
          BY <3>5, <4>1, <5>1, <5>2
      <4>2. CASE m.request_id = r
        <5>1. PICK res \in {Accepted(m, result[r]), Failed(result[r])} :
                /\ result' = [result EXCEPT ![r] = res]
                /\ handlers' = IF res.end # "none" THEN handlers \ {r} ELSE handlers
          BY <2>3, <4>2, Polls
        <5>2. res.end = "none" /\ result'[r] = res
          BY <1>3, <3>3, <5>1 DEF Typed
        <5>3. /\ Failed(result[r]).end = "failed" /\ m.ok \in BOOLEAN
              /\ m.op = "end" /\ m.ok => Accepted(m, result[r]).end = "ok"
              /\ m.op = "end" /\ ~m.ok => Accepted(m, result[r]).end = "failed"
              /\ Accepted(m, result[r]).headers = (result[r].headers \/ m.op = "headers")
              /\ m.op = "chunk" =>
                   Accepted(m, result[r]).chunks = Append(c, m.buffer[3])
              /\ m.op # "chunk" => Accepted(m, result[r]).chunks = c
          <6>1. m \in EngineMessage /\ result[r] \in ResultRecord /\ result[r].chunks = c
            BY <1>2, <2>1, <2>3, <3>3 DEF Typed
          <6>2. m.ok \in BOOLEAN
            BY <6>1, EngineMessages
          <6>a. PICK x \in ResultRecord : x = result[r]
            BY <6>1
          <6>b. PICK e \in EngineMessage : e = m
            BY <6>1
          <6>c. /\ Failed(x).end = "failed"
                /\ e.op = "end" /\ e.ok => Accepted(e, x).end = "ok"
                /\ e.op = "end" /\ ~e.ok => Accepted(e, x).end = "failed"
                /\ KeepsHeaders(e, x)
                /\ e.op = "chunk" => Accepted(e, x).chunks = Append(x.chunks, e.buffer[3])
                /\ e.op # "chunk" => Accepted(e, x).chunks = x.chunks
            BY Results
          <6>3. /\ Failed(result[r]).end = "failed"
                /\ m.op = "end" /\ m.ok => Accepted(m, result[r]).end = "ok"
                /\ m.op = "end" /\ ~m.ok => Accepted(m, result[r]).end = "failed"
                /\ KeepsHeaders(m, result[r])
                /\ m.op = "chunk" =>
                     Accepted(m, result[r]).chunks = Append(result[r].chunks, m.buffer[3])
                /\ m.op # "chunk" => Accepted(m, result[r]).chunks = result[r].chunks
            BY <6>a, <6>b, <6>c
          <6> QED
            BY <6>1, <6>2, <6>3, Zenon DEF KeepsHeaders
        <5>4. res = Accepted(m, result[r]) /\ m.op # "end"
          BY <5>1, <5>2, <5>3
        <5>a. /\ r \in a => r \in b
              /\ m.op = "headers" => r \in b
          BY <3>3, <3>a, <5>2, <5>3, <5>4 DEF HeadersAccepted
        <5>5. CASE m.op = "ready"
          <6>1. result'[r].chunks = c
            BY <5>2, <5>3, <5>4, <5>5
          <6> QED
            BY <3>5, <5>a, <5>5, <6>1
        <5>6. CASE m.op = "headers"
          <6>1. result'[r].chunks = c
            BY <5>2, <5>3, <5>4, <5>6
          <6> QED
            BY <3>5, <4>2, <5>a, <5>6, <6>1 DEF HeadersOf
        <5>7. CASE m.op = "chunk"
          <6>1. result'[r].chunks = Append(c, m.buffer[3])
            BY <5>2, <5>3, <5>4, <5>7
          <6>2. m.buffer[3] \in 1..MaxChunks /\ ChunkOf(m, r, m.buffer[3])
            BY <3>3, <4>2, <5>7, EngineMessages DEF ChunkOf
          <6> QED
            BY <3>5, <5>a, <6>1, <6>2
        <5> QED
          BY <3>3, <5>4, <5>5, <5>6, <5>7, EngineMessages
      <4> QED
        BY <4>1, <4>2
    <3> QED
      BY <3>2, <3>6
  <2>4. CASE r \in handlers /\ ~BridgePoll
    <3> DEFINE c == result[r].chunks
               t == Tried(r)
               u == Tried(r)'
               a == HeadersAccepted
               b == HeadersAccepted'
               h == HeadersTried
               g == HeadersTried'
    <3>1. /\ Whole(to_engine, r, c, t, a, h) /\ r \in Request
          /\ c \in Seq(1..MaxChunks) /\ t \in 0..MaxChunks
      BY <1>2, <2>1, <2>4
    <3>2. result'[r] = result[r] /\ (r \in a <=> r \in b)
      BY <2>4, <3>1, ResultsLive DEF HeadersAccepted
    <3>a. ASSUME NEW q, NEW x, NEW y, Whole(q, r, c, x, a, y)
          PROVE  \A z : (r \in z => r \in y) => Whole(q, r, c, x, b, z)
      BY <3>2, <3>a DEF Whole, HeadersFirst
    <3>3. CASE to_engine' = to_engine /\ u = t /\ (r \in g <=> r \in h)
      <4>1. Whole(to_engine, r, c, t, b, g)
        <5> HIDE DEF c, t, a, b, h, g
        <5> QED
          BY <3>1, <3>3, <3>a
      <4> QED
        BY <3>2, <3>3, <4>1
    <3>4. ASSUME NEW e \in EngineMessage,
                 to_engine' = Append(to_engine, e),
                 Follows(e, r, t, u, h, g),
                 u = t \/ client[r].state # "ended"
          PROVE  Whole(to_engine, r, result[r].chunks, Tried(r), HeadersAccepted,
                       HeadersTried)'
      <4>1. u = t \/ \A j \in 1..Len(to_engine) : ~EndAt(to_engine, r, TRUE, j)
        <5> SUFFICES ASSUME client[r].state # "ended", NEW j \in 1..Len(to_engine)
                     PROVE  ~EndAt(to_engine, r, TRUE, j)
          BY <3>4
        <5> QED
          BY DEF LifeInv, EventLife, EndAt
      <4>2. Len(c) \in Nat /\ t \in Nat
        BY <3>1, LenProperties
      <4>3. Whole(Append(to_engine, e), r, c, u, b, g)
        <5> HIDE DEF c, t, h, u, g, a, b
        <5>1. /\ \A n \in 1..MaxChunks : ChunkOf(e, r, n) => n = u /\ u = t + 1
              /\ EndOf(e, r, TRUE) => r \in h /\ u = t
              /\ u = t \/ (u = t + 1 /\ (ChunkOf(e, r, u) \/ EndOf(e, r, FALSE)))
              /\ (r \in g => r \in h) \/ HeadersOf(e, r) \/ EndOf(e, r, FALSE)
          BY <3>4, Zenon DEF Follows
        <5>2. u = t \/ u = t + 1
          BY <5>1, Zenon
        <5>3. u \in Nat
          BY <4>2, <5>2
        <5>4. Whole(Append(to_engine, e), r, c, u, a, g)
          BY <1>0, <3>1, <4>1, <4>2, <5>1, <5>3, WholeSent
        <5> QED
          BY <3>a, <5>4
      <4> QED
        BY <3>2, <3>4, <4>3
    <3> QED
      BY <1>3, <2>4, <3>1, <3>3, <3>4, EventsFollow
  <2> QED
    BY <2>2, <2>3, <2>4
<1>4. ResponseIsWhole'
  <2> SUFFICES ASSUME NEW r \in Request, result'[r].end = "ok", r \notin lost'
               PROVE  /\ result'[r].headers
                      /\ result'[r].chunks = [i \in 1..client'[r].chunks |-> i]
    BY DEF ResponseIsWhole
  <2>1. r \notin lost
    BY HandlersLive
  <2>2. CASE result[r].end = "ok"
    <3>1. r \notin handlers
      BY <2>2 DEF RefsInv, TaskletInv
    <3>2. result'[r] = result[r]
      BY <3>1, ResultsLive
    <3>3. client'[r].chunks = client[r].chunks
      BY <2>2, ClientsLive DEF LifeInv, ClientLife
    <3>4. /\ result[r].headers
          /\ result[r].chunks = [i \in 1..client[r].chunks |-> i]
      BY <2>1, <2>2 DEF WholeInv, ResponseIsWhole
    <3> QED
      BY <3>2, <3>3, <3>4
  <2>3. CASE result[r].end # "ok" /\ BridgePoll /\ EndOf(Head(to_engine), r, TRUE)
    <3> DEFINE m == Head(to_engine)
    <3>1. r \in handlers /\ m.request_id = r /\ m.op = "end" /\ m.ok = TRUE
      <4>1. result'[r] # result[r]
        BY <2>3
      <4> QED
        BY <2>3, <4>1, ResultsLive DEF EndOf
    <3>2. m \in EngineMessage /\ to_engine # <<>>
      BY <1>0, <1>1, <2>3, Taken
    <3>3. /\ result[r].headers
          /\ result[r].chunks = [i \in 1..Tried(r) |-> i]
      <4>1. /\ Whole(to_engine, r, result[r].chunks, Tried(r), HeadersAccepted,
                     HeadersTried)
            /\ result[r].chunks \in Seq(1..MaxChunks) /\ Tried(r) \in 0..MaxChunks
        BY <1>2, <2>1, <3>1
      <4>2. r \in HeadersAccepted /\ result[r].chunks = [i \in 1..Tried(r) |-> i]
        BY <1>0, <2>3, <3>2, <4>1, WholeTaken
      <4> QED
        BY <4>2 DEF HeadersAccepted
    <3>4. client[r].state = "ended" /\ client' = client
      <4>1. 1 \in 1..Len(to_engine) /\ m = to_engine[1]
        BY <1>0, <3>2, Taken
      <4> QED
        BY <1>1, <2>3, <3>1, <4>1 DEF LifeInv, EventLife, httpVars
    <3>5. Tried(r) = client[r].chunks
      <4>1. ~(InCallback(r) /\ cb.chunk)
        BY <3>4 DEF LifeInv, CallbackLife, InCallback
      <4>2. client[r].chunks \in Int
        BY DEF Typed, ClientRecord
      <4> QED
        BY <4>1, <4>2 DEF Tried, Bit
    <3>6. result'[r].headers = result[r].headers /\ result'[r].chunks = result[r].chunks
      <4>1. PICK res \in {Accepted(m, result[r]), Failed(result[r])} :
              result' = [result EXCEPT ![r] = res]
        BY <2>3, <3>1, Polls
      <4>2. result'[r] = res
        BY <4>1 DEF Typed
      <4>3. /\ Failed(result[r]).end = "failed"
            /\ Accepted(m, result[r]).headers = (result[r].headers \/ m.op = "headers")
            /\ m.op # "chunk" => Accepted(m, result[r]).chunks = result[r].chunks
        <5>1. result[r] \in ResultRecord
          BY DEF Typed
        <5>2. /\ Failed(result[r]).end = "failed" /\ KeepsHeaders(m, result[r])
              /\ m.op # "chunk" => Accepted(m, result[r]).chunks = result[r].chunks
          <6>a. PICK x \in ResultRecord : x = result[r]
            BY <5>1
          <6>b. PICK e \in EngineMessage : e = m
            BY <3>2
          <6>c. /\ Failed(x).end = "failed" /\ KeepsHeaders(e, x)
                /\ e.op # "chunk" => Accepted(e, x).chunks = x.chunks
            BY Results
          <6> QED
            BY <6>a, <6>b, <6>c
        <5> QED
          BY <5>2, Zenon DEF KeepsHeaders
      <4>4. res = Accepted(m, result[r])
        BY <4>1, <4>2, <4>3
      <4>5. result[r].headers \in BOOLEAN
        BY <1>2, <2>1, <3>1
      <4> QED
        BY <3>1, <3>3, <4>2, <4>3, <4>4, <4>5
    <3> QED
      BY <3>3, <3>4, <3>5, <3>6
  <2> QED
    BY <2>2, <2>3, ResultsLive
<1> QED
  BY <1>3, <1>4 DEF WholeInv

\* Request.callback and onHostMessage: however the steps of the three threads
\* fall and whatever fails, a response that ends well has its headers and every
\* chunk the client delivered, in order, unless the report of a failure was
\* itself lost.
THEOREM WholeResponses == Spec => []ResponseIsWhole
<1>1. WholeInv => ResponseIsWhole
  BY DEF WholeInv
<1> QED
  BY <1>1, Typing, InitRefs, RefsStep, InitBuffers, BuffersStep, InitLife, LifeStep,
     InitWhole, WholeStep, PTL DEF Spec
=============================================================================
