-------------------------- MODULE EngineServeProofs --------------------------
(***************************************************************************)
(* Proofs about EngineServe, for any number of requests and failures.      *)
(*                                                                         *)
(*   Typed       what each variable and each message can be                *)
(*   OrderInv    requests pass through the engine in the order they were   *)
(*               sent, so what is behind a request is later                *)
(*   OwnersInv   which buffers are allocated, and that no two messages     *)
(*               carry the same                                            *)
(*   WaitInv     a request is on its way, at work or answered              *)
(*                                                                         *)
(* All but the last hold of the JSC engine too, whose event loop drops     *)
(* what comes while the source is evaluated.                               *)
(***************************************************************************)
EXTENDS EngineServe, Integers, SequenceTheorems, TLAPS

-----------------------------------------------------------------------------
(* The invariants.                                                         *)

Request == 1..MaxRequests

Buffer == {NoBuffer} \cup (Request \X {"in", "out"})

\* What the host sends ...
EngineMessage ==
  {m \in [op : {"request", "shutdown"}, request_id : 0..MaxRequests,
          buffer : Buffer, empty : BOOLEAN] :
     /\ m.op = "request" => /\ m.request_id \in Request
                            /\ m.buffer = <<m.request_id, "in">>
                            /\ ~m.empty
     /\ m.op = "shutdown" => m.buffer = NoBuffer /\ m.empty}

\* ... and what the engine sends.
HostMessage ==
  {m \in [op : {"started", "stopped", "response"}, request_id : 0..MaxRequests,
          buffer : Buffer, empty : BOOLEAN] :
     /\ m.op = "response" => m.request_id \in Request
     /\ \/ m.buffer = NoBuffer /\ m.empty
        \/ m.op = "response" /\ m.buffer = <<m.request_id, "out">>}

Typed ==
  /\ state \in {"created", "loaded", "running", "destroyed"}
  /\ pc \in {"idle", "evaluating", "serving", "answered", "stopping", "returned",
             "destroying", "destroyed"}
  /\ to_engine \in Seq(EngineMessage) /\ to_host \in Seq(HostMessage)
  /\ current \in EngineMessage \cup {None}
  /\ current # None => current.op = "request" /\ pc \in {"serving", "answered"}
  /\ pc = "answered" => current # None
  /\ sent \in 0..MaxRequests /\ shutdown_sent \in BOOLEAN
  /\ answers \in Seq(Request) /\ failures \in 0..MaxFailures
  /\ lost \subseteq Request /\ buffers \subseteq Buffer /\ dropped \subseteq Buffer

\* The messages of kind op in a channel are about ever later requests.
Ascending(q, op) ==
  \A i, j \in 1..Len(q) :
    i < j /\ q[i].op = op /\ q[j].op = op => q[i].request_id < q[j].request_id

\* Every message of kind op in a channel is about a later request than r.
After(q, op, r) == \A i \in 1..Len(q) : q[i].op = op => r < q[i].request_id

\* Every message of kind op in a channel is about a request up to n.
UpTo(q, op, n) == \A i \in 1..Len(q) : q[i].op = op => q[i].request_id <= n

\* The responses collected and those under way come in the order of requests,
AnswersAscend(a, h) ==
  /\ \A i, j \in 1..Len(a) : i < j => a[i] < a[j]
  /\ \A i \in 1..Len(a) : After(h, "response", a[i])
  /\ Ascending(h, "response")

\* Request r has been answered.
Done(a, h, r) ==
  \/ \E i \in 1..Len(a) : a[i] = r
  \/ \E i \in 1..Len(h) : h[i].op = "response" /\ h[i].request_id = r

\* ... and an answered request comes before the one at work, c, and those that
\* wait; w says that the one at work has not been answered.
DoneInv(a, h, e, c, w, n) ==
  \A r \in Request : Done(a, h, r) =>
    /\ r <= n /\ After(e, "request", r)
    /\ c # None => r <= c.request_id /\ (w = "serving" => r # c.request_id)

OrderInv ==
  /\ AnswersAscend(answers, to_host)
  /\ Ascending(to_engine, "request") /\ UpTo(to_engine, "request", sent)
  /\ current # None => /\ current.request_id <= sent
                       /\ After(to_engine, "request", current.request_id)
  /\ DoneInv(answers, to_host, to_engine, current, pc, sent)
  /\ \A r \in lost : r <= sent

\* The buffers messages carry; a buffer given up is that of a response that
\* has been collected.
InChannel(q, b) == \E i \in 1..Len(q) : q[i].buffer = b

AtWork(c, b) == c # None /\ c.buffer = b

OwnersInv ==
  /\ \A b \in Buffer : b \in buffers <=>
       /\ b # NoBuffer
       /\ InChannel(to_engine, b) \/ InChannel(to_host, b) \/ AtWork(current, b)
          \/ b \in dropped
  /\ \A b \in dropped : \E i \in 1..Len(answers) : b = <<answers[i], "out">>

\* A request that was sent waits, is at work, or was answered, unless the
\* response could not be sent; before the engine runs they all wait.
WaitInv ==
  pc \in {"idle", "evaluating", "serving", "answered"} =>
    \A r \in 1..sent :
      \/ \E i \in 1..Len(to_engine) :
           to_engine[i].op = "request" /\ to_engine[i].request_id = r
      \/ Done(answers, to_host, r) \/ r \in lost
      \/ pc = "serving" /\ current # None /\ current.request_id = r

-----------------------------------------------------------------------------
(* Messages and channels.                                                  *)

\* What a command to the engine carries.
LEMMA EngineMessages ==
  ASSUME NEW m \in EngineMessage
  PROVE  /\ m # None /\ m.op \in {"request", "shutdown"}
         /\ m.buffer \in Buffer
         /\ m.op = "request" => /\ m.request_id \in Request
                                /\ m.buffer = <<m.request_id, "in">>
                                /\ ~m.empty
         /\ m.op = "shutdown" => m.buffer = NoBuffer /\ m.empty
  BY DEF EngineMessage, None

\* What a command to the host carries.
LEMMA HostMessages ==
  ASSUME NEW m \in HostMessage
  PROVE  /\ m.op \in {"started", "stopped", "response"}
         /\ m.buffer \in Buffer
         /\ m.op = "response" => m.request_id \in Request
         /\ \/ m.buffer = NoBuffer /\ m.empty
            \/ m.op = "response" /\ m.buffer = <<m.request_id, "out">>
  BY DEF HostMessage

\* The names of buffers tell them apart.
LEMMA BufferNames ==
  /\ \A r, use : <<r, use>> # NoBuffer
  /\ \A r, s, use, way : <<r, use>> = <<s, way>> => r = s /\ use = way
  /\ \A r \in Request : <<r, "in">> \in Buffer /\ <<r, "out">> \in Buffer
  /\ NoBuffer \in Buffer
<1>1. \A r, use : <<r, use>> # NoBuffer
  BY DEF NoBuffer
<1>2. \A r, s, use, way : <<r, use>> = <<s, way>> => r = s /\ use = way
  OBVIOUS
<1> QED
  BY <1>1, <1>2 DEF Buffer

\* The commands that are sent are of their channel's type.
LEMMA NewMessages ==
  /\ \A r \in Request :
       /\ Message("request", r, <<r, "in">>, FALSE) \in EngineMessage
       /\ Message("response", r, NoBuffer, TRUE) \in HostMessage
       /\ Message("response", r, <<r, "out">>, TRUE) \in HostMessage
       /\ Message("response", r, <<r, "out">>, FALSE) \in HostMessage
  /\ Message("shutdown", 0, NoBuffer, TRUE) \in EngineMessage
  /\ Message("started", 0, NoBuffer, TRUE) \in HostMessage
  /\ Message("stopped", 0, NoBuffer, TRUE) \in HostMessage
<1>1. 0 \in 0..MaxRequests /\ \A r \in Request : r \in 0..MaxRequests
  BY BoundAssumption DEF Request
<1>2. /\ NoBuffer \in Buffer
      /\ \A r \in Request : <<r, "in">> \in Buffer /\ <<r, "out">> \in Buffer
  BY BufferNames
<1> QED
  BY <1>1, <1>2 DEF Message, EngineMessage, HostMessage

\* The head of a channel is one of its messages, and the rest are the others.
LEMMA Taken ==
  ASSUME NEW S, NEW q \in Seq(S), q # <<>>
  PROVE  /\ Len(q) \in Nat /\ Len(q) >= 1
         /\ Head(q) = q[1] /\ q[1] \in S
         /\ Tail(q) \in Seq(S) /\ Len(Tail(q)) = Len(q) - 1
         /\ \A i \in 1..Len(Tail(q)) : Tail(q)[i] = q[i + 1] /\ i + 1 \in 1..Len(q)
         /\ \A i \in 1..Len(q) : /\ q[i] \in S
                                 /\ i # 1 => i - 1 \in 1..Len(Tail(q)) /\ Tail(q)[i - 1] = q[i]
         /\ 1 \in 1..Len(q)
<1>1. /\ Tail(q) \in Seq(S) /\ Len(Tail(q)) = Len(q) - 1
      /\ \A i \in 1..Len(Tail(q)) : Tail(q)[i] = q[i + 1]
      /\ Head(q) \in S
  BY HeadTailProperties
<1>2. Len(q) \in Nat /\ Len(q) # 0
  BY LenProperties, EmptySeq
<1>3. \A i \in 1..Len(q) : q[i] \in S
  BY ElementOfSeq
<1> QED
  BY <1>1, <1>2, <1>3

\* A message that is added comes last and leaves the others where they are.
LEMMA Added ==
  ASSUME NEW S, NEW q \in Seq(S), NEW m \in S
  PROVE  /\ Len(q) \in Nat
         /\ Append(q, m) \in Seq(S) /\ Len(Append(q, m)) = Len(q) + 1
         /\ \A i \in 1..Len(q) : Append(q, m)[i] = q[i] /\ q[i] \in S
                                 /\ i \in 1..Len(Append(q, m)) /\ i < Len(q) + 1
         /\ Append(q, m)[Len(q) + 1] = m /\ Len(q) + 1 \in 1..Len(Append(q, m))
         /\ \A i \in 1..Len(Append(q, m)) : i \in 1..Len(q) \/ i = Len(q) + 1
<1>1. /\ Len(q) \in Nat
      /\ Append(q, m) \in Seq(S) /\ Len(Append(q, m)) = Len(q) + 1
      /\ \A i \in 1..Len(q) : Append(q, m)[i] = q[i] /\ q[i] \in S
      /\ Append(q, m)[Len(q) + 1] = m
  BY AppendProperties, LenProperties, ElementOfSeq
<1> QED
  BY <1>1

\* ... and keeps the channel's type.
LEMMA StillTyped ==
  ASSUME NEW S, NEW q \in Seq(S), NEW m \in S
  PROVE  Append(q, m) \in Seq(S)
  BY AppendProperties

-----------------------------------------------------------------------------
(* Typing.                                                                 *)

\* Every step of either engine keeps the types.
LEMMA TypedStep == Typed /\ [Next \/ tick]_vars => Typed'
<1> SUFFICES ASSUME Typed, [Next \/ tick]_vars PROVE Typed'
  OBVIOUS
<1>a. /\ to_engine \in Seq(EngineMessage) /\ to_host \in Seq(HostMessage)
      /\ answers \in Seq(Request) /\ buffers \subseteq Buffer /\ dropped \subseteq Buffer
      /\ lost \subseteq Request
  BY DEF Typed
<1>b. Fails \/ Works => failures' \in 0..MaxFailures
  BY BoundAssumption DEF Typed, Fails, Works
<1>1. CASE UNCHANGED vars
  BY <1>1 DEF vars, Typed
<1>2. CASE SendRequest
  <2>1. sent + 1 \in Request /\ sent' \in 0..MaxRequests
    BY <1>2, BoundAssumption DEF SendRequest, Typed, Request
  <2> DEFINE m == Message("request", sent + 1, <<sent + 1, "in">>, FALSE)
  <2>2. m \in EngineMessage /\ <<sent + 1, "in">> \in Buffer
    BY <2>1, NewMessages, BufferNames
  <2>3. /\ to_engine' = Append(to_engine, m)
        /\ buffers' = buffers \cup {<<sent + 1, "in">>}
        /\ UNCHANGED <<engineVars, to_host, shutdown_sent, answers, failures, lost, dropped>>
    BY <1>2 DEF SendRequest
  <2> HIDE DEF m
  <2>4. to_engine' \in Seq(EngineMessage) /\ buffers' \subseteq Buffer
    BY <1>a, <2>2, <2>3, Added
  <2> QED
    BY <2>1, <2>3, <2>4 DEF Typed, engineVars
<1>3. CASE SendShutdown
  <2> DEFINE m == Message("shutdown", 0, NoBuffer, TRUE)
  <2>1. m \in EngineMessage
    BY NewMessages
  <2>2. /\ to_engine' = Append(to_engine, m) /\ shutdown_sent' = TRUE
        /\ UNCHANGED <<engineVars, to_host, buffers, sent, answers, failures, lost, dropped>>
    BY <1>3 DEF SendShutdown
  <2> HIDE DEF m
  <2>3. to_engine' \in Seq(EngineMessage)
    BY <1>a, <2>1, <2>2, Added
  <2> QED
    BY <2>2, <2>3 DEF Typed, engineVars
<1>4. CASE Collect
  <2> DEFINE m == Head(to_host)
  <2>1. /\ to_host # <<>> /\ to_host' = Tail(to_host) /\ Release(m)
        /\ answers' = IF m.op = "response" THEN Append(answers, m.request_id) ELSE answers
        /\ dropped' = IF m.empty THEN dropped \cup ({m.buffer} \ {NoBuffer}) ELSE dropped
        /\ UNCHANGED <<engineVars, to_engine, sent, shutdown_sent, failures, lost>>
    BY <1>4 DEF Collect
  <2>2. m \in HostMessage /\ to_host' \in Seq(HostMessage)
    BY <1>a, <2>1, Taken
  <2> HIDE DEF m
  <2>3. m.buffer \in Buffer /\ (m.op = "response" => m.request_id \in Request)
    BY <2>2, HostMessages
  <2>4. answers' \in Seq(Request)
    BY <1>a, <2>1, <2>3, Added
  <2>5. buffers' \subseteq Buffer /\ dropped' \subseteq Buffer
    BY <1>a, <2>1, <2>3 DEF Release
  <2> QED
    BY <2>1, <2>2, <2>4, <2>5 DEF Typed, engineVars
<1>5. CASE load
  BY <1>5 DEF load, Typed, hostVars
<1>6. CASE run
  <2> DEFINE m == Message("started", 0, NoBuffer, TRUE)
  <2>1. m \in HostMessage
    BY NewMessages
  <2>2. to_host' = to_host \/ to_host' = Append(to_host, m)
    BY <1>6 DEF run
  <2> HIDE DEF m
  <2>3. to_host' \in Seq(HostMessage)
    BY <1>a, <2>1, <2>2, StillTyped
  <2>4. failures' \in 0..MaxFailures
    BY <1>6, <1>b DEF run
  <2> QED
    BY <1>6, <2>3, <2>4 DEF run, Typed, hostVars
<1>7. ASSUME Discard
      PROVE  to_engine' \in Seq(EngineMessage) /\ buffers' \subseteq Buffer
  BY <1>7, <1>a, Taken DEF Discard, Release
<1>8. CASE tick
  BY <1>7, <1>8 DEF tick, Typed, engineVars, hostVars
<1>9. CASE Evaluated
  BY <1>9 DEF Evaluated, Typed, hostVars
<1>10. CASE Stop
  <2> DEFINE m == Message("stopped", 0, NoBuffer, TRUE)
  <2>1. m \in HostMessage
    BY NewMessages
  <2>2. to_host' = to_host \/ to_host' = Append(to_host, m)
    BY <1>10 DEF Stop
  <2> HIDE DEF m
  <2>3. to_host' \in Seq(HostMessage)
    BY <1>a, <2>1, <2>2, StillTyped
  <2>4. failures' \in 0..MaxFailures
    BY <1>10, <1>b DEF Stop
  <2> QED
    BY <1>10, <2>3, <2>4 DEF Stop, Typed, hostVars
<1>11. CASE destroy
  BY <1>11 DEF destroy, Typed, hostVars
<1>12. CASE DestroyPoll
  <2>1. CASE to_engine = <<>>
    BY <1>12, <2>1 DEF DestroyPoll, Typed, hostVars
  <2>2. CASE to_engine # <<>>
    BY <1>7, <1>12, <2>2 DEF DestroyPoll, Typed, hostVars
  <2> QED
    BY <2>1, <2>2
<1>13. CASE pump
  <2> DEFINE m == Head(to_engine)
  <2>1. m \in EngineMessage /\ to_engine' \in Seq(EngineMessage)
    BY <1>a, <1>13, Taken DEF pump
  <2>2. /\ pc = "serving" /\ current = None
        /\ m.op = "shutdown" => pc' = "stopping" /\ current' = current
        /\ m.op # "shutdown" => current' = m /\ pc' = pc
    BY <1>13 DEF pump
  <2> HIDE DEF m
  <2>3. m.op = "shutdown" \/ m.op = "request"
    BY <2>1, EngineMessages
  <2>4. /\ current' \in EngineMessage \cup {None}
        /\ current' # None => current'.op = "request" /\ pc' = "serving"
        /\ pc' \in {"serving", "stopping"}
    BY <2>1, <2>2, <2>3
  <2> QED
    BY <1>13, <2>1, <2>4 DEF pump, Typed, hostVars
<1>14. CASE dispatchRequest
  <2> DEFINE r == current.request_id
  <2>1. r \in Request /\ pc' = "answered" /\ current' = current
    BY <1>14, EngineMessages DEF dispatchRequest, Typed
  <2>2. \/ to_host' = to_host
        \/ to_host' = Append(to_host, Message("response", r, NoBuffer, TRUE))
        \/ to_host' = Append(to_host, Message("response", r, <<r, "out">>, TRUE))
        \/ to_host' = Append(to_host, Message("response", r, <<r, "out">>, FALSE))
    BY <1>14 DEF dispatchRequest, respond, sendError
  <2>3. to_host' \in Seq(HostMessage)
    <3>1. /\ Message("response", r, NoBuffer, TRUE) \in HostMessage
          /\ Message("response", r, <<r, "out">>, TRUE) \in HostMessage
          /\ Message("response", r, <<r, "out">>, FALSE) \in HostMessage
      BY <2>1, NewMessages
    <3> QED
      BY <1>a, <2>2, <3>1, StillTyped
  <2>4. buffers' = buffers \/ buffers' = buffers \cup {<<r, "out">>}
    BY <1>14 DEF dispatchRequest, respond, sendError
  <2>5. lost' = lost \/ lost' = lost \cup {r}
    BY <1>14 DEF dispatchRequest, respond, sendError
  <2>6. failures' \in 0..MaxFailures
    BY <1>14, <1>b DEF dispatchRequest, respond
  <2>7. buffers' \subseteq Buffer /\ lost' \subseteq Request
    <3>1. <<r, "out">> \in Buffer
      BY <2>1, BufferNames
    <3> QED
      BY <1>a, <2>1, <2>4, <2>5, <3>1
  <2> QED
    BY <1>14, <2>1, <2>3, <2>6, <2>7 DEF dispatchRequest, Typed, hostVars
<1>15. CASE DispatchReturns
  <2>1. buffers' \subseteq Buffer
    BY <1>a, <1>15 DEF DispatchReturns, Release
  <2> QED
    BY <1>15, <2>1 DEF DispatchReturns, Typed, hostVars
<1> QED
  BY <1>1, <1>2, <1>3, <1>4, <1>5, <1>6, <1>8, <1>9, <1>10, <1>11, <1>12, <1>13,
     <1>14, <1>15
  DEF Next, EngineStep

\* Typed holds of the initial state.
LEMMA InitTyped == Init => Typed
<1> SUFFICES ASSUME Init PROVE Typed
  OBVIOUS
<1>1. sent \in 0..MaxRequests /\ failures \in 0..MaxFailures
  BY BoundAssumption DEF Init
<1>2. /\ to_host \in Seq(HostMessage) /\ to_engine \in Seq(EngineMessage)
      /\ answers \in Seq(Request)
  BY EmptySeq DEF Init
<1> QED
  BY <1>1, <1>2 DEF Init, Typed

-----------------------------------------------------------------------------
(* The order of requests.                                                  *)

\* What is left of a channel in order, and what its first message says of it.
LEMMA OrderTaken ==
  ASSUME NEW S, NEW q \in Seq(S), q # <<>>, NEW op
  PROVE  /\ Ascending(q, op) => Ascending(Tail(q), op)
         /\ Ascending(q, op) /\ Head(q).op = op => After(Tail(q), op, Head(q).request_id)
         /\ \A r : After(q, op, r) => After(Tail(q), op, r)
         /\ \A n : UpTo(q, op, n) => /\ UpTo(Tail(q), op, n)
                                     /\ Head(q).op = op => Head(q).request_id <= n
         /\ \A r : After(q, op, r) /\ Head(q).op = op => r < Head(q).request_id
<1>1. /\ Len(q) \in Nat /\ Head(q) = q[1] /\ 1 \in 1..Len(q)
      /\ \A i \in 1..Len(Tail(q)) : Tail(q)[i] = q[i + 1] /\ i + 1 \in 1..Len(q)
  BY Taken
<1>2. /\ \A i \in 1..Len(Tail(q)) : 1 < i + 1
      /\ \A i, j \in 1..Len(Tail(q)) : i < j => i + 1 < j + 1
  OBVIOUS
<1>3. Ascending(q, op) => Ascending(Tail(q), op)
  BY <1>1, <1>2 DEF Ascending
<1>4. Ascending(q, op) /\ Head(q).op = op => After(Tail(q), op, Head(q).request_id)
  BY <1>1, <1>2 DEF Ascending, After
<1>5. \A r : After(q, op, r) => After(Tail(q), op, r)
  BY <1>1 DEF After
<1>6. \A n : UpTo(q, op, n) => /\ UpTo(Tail(q), op, n)
                               /\ Head(q).op = op => Head(q).request_id <= n
  BY <1>1 DEF UpTo
<1>7. \A r : After(q, op, r) /\ Head(q).op = op => r < Head(q).request_id
  BY <1>1 DEF After
<1> QED
  BY <1>3, <1>4, <1>5, <1>6, <1>7

\* A message about a later request keeps a channel in order.
LEMMA OrderSent ==
  ASSUME NEW S, NEW q \in Seq(S), NEW m \in S, NEW op
  PROVE  /\ Ascending(q, op)
            /\ (m.op = op => \A i \in 1..Len(q) : q[i].op = op => q[i].request_id < m.request_id)
            => Ascending(Append(q, m), op)
         /\ \A r : After(q, op, r) /\ (m.op = op => r < m.request_id) => After(Append(q, m), op, r)
         /\ \A n : UpTo(q, op, n) /\ (m.op = op => m.request_id <= n) => UpTo(Append(q, m), op, n)
<1> DEFINE p == Append(q, m)
<1>1. /\ Len(q) \in Nat
      /\ \A i \in 1..Len(q) : p[i] = q[i]
      /\ p[Len(q) + 1] = m
      /\ \A i \in 1..Len(p) : i \in 1..Len(q) \/ i = Len(q) + 1
  BY Added
<1>2. \A i \in 1..Len(q) : ~(Len(q) + 1 < i)
  BY <1>1
<1>3. ~(Len(q) + 1 < Len(q) + 1)
  BY <1>1
<1> HIDE DEF p
<1>4. ASSUME Ascending(q, op),
             m.op = op => \A i \in 1..Len(q) : q[i].op = op => q[i].request_id < m.request_id
      PROVE  Ascending(p, op)
  BY <1>1, <1>2, <1>3, <1>4 DEF Ascending
<1>5. ASSUME NEW r, After(q, op, r), m.op = op => r < m.request_id PROVE After(p, op, r)
  BY <1>1, <1>5 DEF After
<1>6. ASSUME NEW n, UpTo(q, op, n), m.op = op => m.request_id <= n PROVE UpTo(p, op, n)
  BY <1>1, <1>6 DEF UpTo
<1> QED
  BY <1>4, <1>5, <1>6 DEF p

\* A response that is sent is one more that is done,
LEMMA DoneSent ==
  ASSUME NEW a, NEW h \in Seq(HostMessage), NEW m \in HostMessage, NEW r
  PROVE  Done(a, Append(h, m), r) <=>
           (Done(a, h, r) \/ (m.op = "response" /\ m.request_id = r))
<1> DEFINE p == Append(h, m)
<1>1. /\ \A i \in 1..Len(h) : p[i] = h[i] /\ i \in 1..Len(p)
      /\ p[Len(h) + 1] = m /\ Len(h) + 1 \in 1..Len(p)
      /\ \A i \in 1..Len(p) : i \in 1..Len(h) \/ i = Len(h) + 1
  BY Added
<1> HIDE DEF p
<1>2. Done(a, p, r) <=> (Done(a, h, r) \/ (m.op = "response" /\ m.request_id = r))
  BY <1>1 DEF Done
<1> QED
  BY <1>2 DEF p

\* The same requests are answered.
SameDone(a, h, b, t) == \A r : Done(b, t, r) <=> Done(a, h, r)

\* Collecting an answer changes nothing.
LEMMA DoneCollected ==
  ASSUME NEW a \in Seq(Request), NEW h \in Seq(HostMessage), h # <<>>,
         NEW b, b = IF Head(h).op = "response" THEN Append(a, Head(h).request_id) ELSE a
  PROVE  SameDone(a, h, b, Tail(h))
<1> SUFFICES ASSUME NEW r PROVE Done(b, Tail(h), r) <=> Done(a, h, r)
  BY DEF SameDone
<1>1. /\ Head(h) = h[1] /\ 1 \in 1..Len(h) /\ h[1] \in HostMessage
      /\ \A i \in 1..Len(Tail(h)) : Tail(h)[i] = h[i + 1] /\ i + 1 \in 1..Len(h)
      /\ \A i \in 1..Len(h) : i # 1 => i - 1 \in 1..Len(Tail(h)) /\ Tail(h)[i - 1] = h[i]
  BY Taken
<1>2. CASE Head(h).op # "response"
  BY <1>1, <1>2 DEF Done
<1>3. CASE Head(h).op = "response"
  <2>1. Head(h).request_id \in Request /\ b = Append(a, Head(h).request_id)
    BY <1>1, <1>3, HostMessages
  <2>2. /\ \A i \in 1..Len(a) : b[i] = a[i] /\ i \in 1..Len(b)
        /\ b[Len(a) + 1] = Head(h).request_id /\ Len(a) + 1 \in 1..Len(b)
        /\ \A i \in 1..Len(b) : i \in 1..Len(a) \/ i = Len(a) + 1
    BY <2>1, Added
  <2> QED
    <3>1. ASSUME Done(a, h, r) PROVE Done(b, Tail(h), r)
      <4>1. CASE \E i \in 1..Len(a) : a[i] = r
        BY <2>2, <4>1, Zenon DEF Done
      <4>2. ASSUME NEW i \in 1..Len(h), h[i].op = "response", h[i].request_id = r
            PROVE  Done(b, Tail(h), r)
        <5>1. CASE i = 1
          <6>1. Len(a) + 1 \in 1..Len(b) /\ b[Len(a) + 1] = r
            BY <1>1, <2>2, <4>2, <5>1
          <6> QED
            BY <6>1, Zenon DEF Done
        <5>2. CASE i # 1
          <6>1. i - 1 \in 1..Len(Tail(h)) /\ Tail(h)[i - 1] = h[i]
            BY <1>1, <5>2
          <6> QED
            BY <4>2, <6>1, Zenon DEF Done
        <5> QED
          BY <5>1, <5>2
      <4> QED
        BY <3>1, <4>1, <4>2, Zenon DEF Done
    <3>2. ASSUME Done(b, Tail(h), r) PROVE Done(a, h, r)
      <4>1. ASSUME NEW i \in 1..Len(b), b[i] = r PROVE Done(a, h, r)
        <5>1. CASE i \in 1..Len(a)
          BY <2>2, <4>1, <5>1, Zenon DEF Done
        <5>2. CASE i = Len(a) + 1
          BY <1>1, <1>3, <2>2, <4>1, <5>2, Zenon DEF Done
        <5> QED
          BY <2>2, <5>1, <5>2
      <4>2. CASE \E i \in 1..Len(Tail(h)) : Tail(h)[i].op = "response" /\ Tail(h)[i].request_id = r
        <5>1. PICK i \in 1..Len(Tail(h)) : Tail(h)[i].op = "response" /\ Tail(h)[i].request_id = r
          BY <4>2
        <5>2. i + 1 \in 1..Len(h) /\ Tail(h)[i] = h[i + 1]
          BY <1>1
        <5> QED
          BY <5>1, <5>2, Zenon DEF Done
      <4> QED
        BY <3>2, <4>1, <4>2, Zenon DEF Done
    <3> QED
      BY <3>1, <3>2
<1> QED
  BY <1>2, <1>3

\* Collecting keeps the answers in order.
LEMMA AscendCollected ==
  ASSUME NEW a \in Seq(Request), NEW h \in Seq(HostMessage), h # <<>>,
         NEW b, b = IF Head(h).op = "response" THEN Append(a, Head(h).request_id) ELSE a,
         AnswersAscend(a, h)
  PROVE  AnswersAscend(b, Tail(h))
<1>1. /\ Ascending(Tail(h), "response")
      /\ \A r : After(h, "response", r) => After(Tail(h), "response", r)
      /\ Head(h).op = "response" => After(Tail(h), "response", Head(h).request_id)
      /\ \A r : After(h, "response", r) /\ Head(h).op = "response" => r < Head(h).request_id
  BY OrderTaken DEF AnswersAscend
<1>2. CASE Head(h).op # "response"
  BY <1>1, <1>2 DEF AnswersAscend
<1>3. CASE Head(h).op = "response"
  <2>1. Head(h) \in HostMessage
    BY Taken
  <2>2. Head(h).request_id \in Request /\ b = Append(a, Head(h).request_id)
    BY <1>3, <2>1, HostMessages
  <2>3. /\ \A i \in 1..Len(a) : b[i] = a[i] /\ i < Len(a) + 1
        /\ b[Len(a) + 1] = Head(h).request_id /\ Len(a) \in Nat
        /\ \A i \in 1..Len(b) : i \in 1..Len(a) \/ i = Len(a) + 1
    BY <2>2, Added
  <2>4. /\ \A i \in 1..Len(a) : ~(Len(a) + 1 < i)
        /\ ~(Len(a) + 1 < Len(a) + 1)
    BY <2>3
  <2>5. \A i, j \in 1..Len(b) : i < j => b[i] < b[j]
    BY <1>1, <1>3, <2>3, <2>4 DEF AnswersAscend
  <2>6. \A i \in 1..Len(b) : After(Tail(h), "response", b[i])
    BY <1>1, <1>3, <2>3 DEF AnswersAscend
  <2> QED
    BY <1>1, <2>5, <2>6 DEF AnswersAscend
<1> QED
  BY <1>2, <1>3

\* Answering a request later than all that are done keeps the answers in order.
LEMMA AscendSent ==
  ASSUME NEW a \in Seq(Request), NEW h \in Seq(HostMessage), NEW m \in HostMessage,
         AnswersAscend(a, h),
         m.op = "response" => \A r \in Request : Done(a, h, r) => r < m.request_id
  PROVE  AnswersAscend(a, Append(h, m))
<1>1. /\ \A i \in 1..Len(h) : h[i] \in HostMessage
      /\ \A i \in 1..Len(a) : a[i] \in Request
  BY ElementOfSeq
<1>2. /\ \A i \in 1..Len(h) : h[i].op = "response" =>
           h[i].request_id \in Request /\ Done(a, h, h[i].request_id)
      /\ \A i \in 1..Len(a) : Done(a, h, a[i])
  BY <1>1, HostMessages DEF Done
<1>3. Ascending(Append(h, m), "response")
  BY <1>2, OrderSent DEF AnswersAscend
<1>4. \A i \in 1..Len(a) : After(Append(h, m), "response", a[i])
  BY <1>1, <1>2, OrderSent DEF AnswersAscend
<1> QED
  BY <1>3, <1>4 DEF AnswersAscend

\* Every step of either engine keeps the order.
LEMMA OrderStep == Typed /\ OrderInv /\ [Next \/ tick]_vars => OrderInv'
<1> SUFFICES ASSUME Typed, OrderInv, [Next \/ tick]_vars PROVE OrderInv'
  OBVIOUS
<1>a. /\ to_engine \in Seq(EngineMessage) /\ to_host \in Seq(HostMessage)
      /\ answers \in Seq(Request) /\ sent \in Nat
      /\ \A r \in Request : r \in Nat
      /\ current # None => current.request_id \in Request
      /\ lost \subseteq Request
  BY EngineMessages DEF Typed, Request
<1>b. /\ \A i \in 1..Len(to_engine) : to_engine[i].op = "request" => to_engine[i].request_id \in Nat
      /\ \A i \in 1..Len(to_engine) : to_engine[i].op = "request" => to_engine[i].request_id <= sent
  <2>1. \A i \in 1..Len(to_engine) : to_engine[i] \in EngineMessage
    BY <1>a, ElementOfSeq
  <2> QED
    BY <1>a, <2>1, EngineMessages DEF OrderInv, UpTo
<1>1. CASE UNCHANGED vars
  BY <1>1 DEF vars, OrderInv
<1>c. ASSUME UNCHANGED <<answers, to_host, to_engine, current, sent, lost>>,
             pc' # "serving" \/ pc' = pc \/ current = None
      PROVE  OrderInv'
  BY <1>c DEF OrderInv, DoneInv
<1>2. CASE SendRequest
  <2> DEFINE m == Message("request", sent + 1, <<sent + 1, "in">>, FALSE)
             e == Append(to_engine, m)
  <2>1. /\ to_engine' = e /\ sent' = sent + 1
        /\ UNCHANGED <<pc, current, to_host, answers, lost>>
    BY <1>2 DEF SendRequest, engineVars
  <2>2. m.op = "request" /\ m.request_id = sent + 1 /\ m \in EngineMessage
    <3>1. sent + 1 \in Request
      BY <1>2, BoundAssumption DEF SendRequest, Typed, Request
    <3> QED
      BY <3>1, NewMessages DEF Message
  <2> HIDE DEF m
  <2>3. \A r \in Nat : r <= sent => r < sent + 1 /\ r <= sent + 1
    BY <1>a
  <2>4. Ascending(e, "request")
    BY <1>a, <1>b, <2>2, <2>3, OrderSent DEF OrderInv
  <2>5. UpTo(e, "request", sent + 1)
    <3>1. UpTo(to_engine, "request", sent + 1)
      BY <1>b, <2>3 DEF UpTo
    <3>2. sent + 1 <= sent + 1
      BY <1>a
    <3> QED
      BY <1>a, <2>2, <3>1, <3>2, OrderSent
  <2>6. \A r \in Nat : After(to_engine, "request", r) /\ r <= sent => After(e, "request", r)
    BY <1>a, <2>2, <2>3, OrderSent
  <2> HIDE DEF e
  <2>7. current # None => current.request_id <= sent + 1 /\ After(e, "request", current.request_id)
    BY <1>a, <2>3, <2>6 DEF OrderInv
  <2>8. DoneInv(answers, to_host, e, current, pc, sent + 1)
    BY <1>a, <2>3, <2>6 DEF OrderInv, DoneInv
  <2>9. \A r \in lost : r <= sent + 1
    BY <1>a, <2>3 DEF OrderInv
  <2> QED
    BY <2>1, <2>4, <2>5, <2>7, <2>8, <2>9 DEF OrderInv
<1>3. CASE SendShutdown
  <2> DEFINE m == Message("shutdown", 0, NoBuffer, TRUE)
             e == Append(to_engine, m)
  <2>1. to_engine' = e /\ UNCHANGED <<pc, current, to_host, answers, lost, sent>>
    BY <1>3 DEF SendShutdown, engineVars
  <2>2. m.op # "request" /\ m \in EngineMessage
    BY NewMessages DEF Message
  <2> HIDE DEF m
  <2>3. /\ Ascending(e, "request") /\ UpTo(e, "request", sent)
        /\ \A r : After(to_engine, "request", r) => After(e, "request", r)
    BY <1>a, <2>2, OrderSent DEF OrderInv
  <2> HIDE DEF e
  <2> QED
    BY <2>1, <2>3 DEF OrderInv, DoneInv
<1>d. ASSUME to_engine # <<>>, to_engine' = Tail(to_engine),
             UNCHANGED <<answers, to_host, current, sent, lost>>,
             pc' # "serving" \/ pc' = pc \/ current = None
      PROVE  OrderInv'
  <2>1. /\ Ascending(Tail(to_engine), "request") /\ UpTo(Tail(to_engine), "request", sent)
        /\ \A r : After(to_engine, "request", r) => After(Tail(to_engine), "request", r)
    BY <1>a, <1>d, OrderTaken DEF OrderInv
  <2> QED
    BY <1>d, <2>1 DEF OrderInv, DoneInv
<1>e. ASSUME NEW m \in HostMessage, to_host' = Append(to_host, m), m.op # "response",
             UNCHANGED <<answers, to_engine, current, sent, lost>>,
             pc' # "serving" \/ pc' = pc \/ current = None
      PROVE  OrderInv'
  <2>1. AnswersAscend(answers, Append(to_host, m))
    BY <1>a, <1>e, AscendSent DEF OrderInv
  <2>2. \A r : Done(answers, Append(to_host, m), r) => Done(answers, to_host, r)
    BY <1>a, <1>e, DoneSent
  <2> QED
    BY <1>e, <2>1, <2>2 DEF OrderInv, DoneInv
<1>4. CASE Collect
  <2>1. /\ to_host # <<>> /\ to_host' = Tail(to_host)
        /\ answers' = IF Head(to_host).op = "response"
                      THEN Append(answers, Head(to_host).request_id) ELSE answers
        /\ UNCHANGED <<pc, current, to_engine, sent, lost>>
    BY <1>4 DEF Collect, engineVars
  <2>2. AnswersAscend(answers', to_host')
    BY <1>a, <2>1, AscendCollected DEF OrderInv
  <2>3. \A r : Done(answers', to_host', r) <=> Done(answers, to_host, r)
    <3>1. to_host \in Seq(HostMessage) /\ answers \in Seq(Request)
      BY <1>a
    <3>2. PICK b : b = IF Head(to_host).op = "response"
                       THEN Append(answers, Head(to_host).request_id) ELSE answers
      OBVIOUS
    <3>3. SameDone(answers, to_host, b, Tail(to_host))
      BY <2>1, <3>1, <3>2, DoneCollected
    <3> QED
      BY <2>1, <3>2, <3>3 DEF SameDone
  <2> QED
    BY <2>1, <2>2, <2>3 DEF OrderInv, DoneInv
<1>5. CASE load \/ Evaluated \/ destroy
  <2>1. /\ UNCHANGED <<answers, to_host, to_engine, current, sent, lost>>
        /\ pc \notin {"serving", "answered"} \/ pc' = pc
    BY <1>5 DEF load, Evaluated, destroy, hostVars
  <2>2. pc \notin {"serving", "answered"} => current = None
    BY DEF Typed
  <2> QED
    BY <1>c, <2>1, <2>2
<1>6. CASE run \/ Stop
  <2>1. /\ UNCHANGED <<answers, to_engine, current, sent, lost>>
        /\ pc' # "serving"
        /\ \/ to_host' = to_host
           \/ to_host' = Append(to_host, Message("started", 0, NoBuffer, TRUE))
           \/ to_host' = Append(to_host, Message("stopped", 0, NoBuffer, TRUE))
    BY <1>6 DEF run, Stop, hostVars
  <2>2. /\ Message("started", 0, NoBuffer, TRUE) \in HostMessage
        /\ Message("stopped", 0, NoBuffer, TRUE) \in HostMessage
        /\ Message("started", 0, NoBuffer, TRUE).op # "response"
        /\ Message("stopped", 0, NoBuffer, TRUE).op # "response"
    BY NewMessages DEF Message
  <2>3. CASE to_host' = to_host
    BY <1>c, <2>1, <2>3
  <2> QED
    BY <1>e, <2>1, <2>2, <2>3
<1>7. CASE tick
  BY <1>d, <1>7 DEF tick, Discard, engineVars, hostVars
<1>8. CASE DestroyPoll
  <2>1. CASE to_engine = <<>>
    BY <1>c, <1>8, <2>1 DEF DestroyPoll, hostVars
  <2>2. CASE to_engine # <<>>
    BY <1>d, <1>8, <2>2 DEF DestroyPoll, Discard, hostVars
  <2> QED
    BY <2>1, <2>2
<1>9. CASE pump
  <2> DEFINE m == Head(to_engine)
  <2>1. /\ pc = "serving" /\ current = None /\ to_engine # <<>>
        /\ to_engine' = Tail(to_engine)
        /\ m.op = "shutdown" => pc' = "stopping" /\ current' = current
        /\ m.op # "shutdown" => current' = m /\ pc' = pc
        /\ UNCHANGED <<answers, to_host, sent, lost>>
    BY <1>9 DEF pump, hostVars
  <2>2. m \in EngineMessage
    BY <1>a, <2>1, Taken
  <2>3. CASE m.op = "shutdown"
    BY <1>d, <2>1, <2>3
  <2>4. CASE m.op = "request"
    <3>1. /\ Ascending(Tail(to_engine), "request") /\ UpTo(Tail(to_engine), "request", sent)
          /\ After(Tail(to_engine), "request", m.request_id) /\ m.request_id <= sent
          /\ \A r : After(to_engine, "request", r) =>
               After(Tail(to_engine), "request", r) /\ r < m.request_id
      BY <1>a, <2>1, <2>4, OrderTaken DEF OrderInv
    <3>2. m.request_id \in Nat
      BY <1>a, <2>2, <2>4, EngineMessages
    <3>3. current' = m /\ pc' = pc
      BY <2>1, <2>4
    <3> HIDE DEF m
    <3>4. \A r \in Nat : r < m.request_id => r <= m.request_id /\ r # m.request_id
      BY <3>2
    <3>5. DoneInv(answers, to_host, Tail(to_engine), m, pc, sent)
      BY <1>a, <3>1, <3>4 DEF OrderInv, DoneInv
    <3> QED
      BY <2>1, <3>1, <3>3, <3>5 DEF OrderInv
  <2> QED
    BY <2>2, <2>3, <2>4, EngineMessages
<1>10. CASE dispatchRequest
  <2> DEFINE r == current.request_id
  <2>1. /\ pc = "serving" /\ current # None /\ pc' = "answered"
        /\ UNCHANGED <<answers, to_engine, current, sent>>
        /\ lost' = lost \/ lost' = lost \cup {r}
    BY <1>10 DEF dispatchRequest, respond, hostVars
  <2>2. \/ to_host' = to_host
        \/ to_host' = Append(to_host, Message("response", r, NoBuffer, TRUE))
        \/ to_host' = Append(to_host, Message("response", r, <<r, "out">>, TRUE))
        \/ to_host' = Append(to_host, Message("response", r, <<r, "out">>, FALSE))
    BY <1>10 DEF dispatchRequest, respond, sendError
  <2>3. r \in Request /\ r <= sent /\ \A x \in lost' : x <= sent
    BY <1>a, <2>1 DEF OrderInv
  <2>4. CASE to_host' = to_host
    BY <2>1, <2>3, <2>4 DEF OrderInv, DoneInv
  <2>5. ASSUME NEW m \in HostMessage, m.op = "response", m.request_id = r,
               to_host' = Append(to_host, m)
        PROVE  OrderInv'
    <3>1. \A x \in Request : Done(answers, to_host, x) => x < r
      <4>1. \A x \in Request : Done(answers, to_host, x) => x <= r /\ x # r
        BY <2>1 DEF OrderInv, DoneInv
      <4> QED
        BY <1>a, <2>3, <4>1
    <3>2. AnswersAscend(answers, Append(to_host, m))
      BY <1>a, <2>5, <3>1, AscendSent DEF OrderInv
    <3>3. \A x : Done(answers, Append(to_host, m), x) => Done(answers, to_host, x) \/ x = r
      BY <1>a, <2>5, DoneSent
    <3>4. After(to_engine, "request", r) /\ r <= r
      BY <1>a, <2>1, <2>3 DEF OrderInv
    <3>5. DoneInv(answers, Append(to_host, m), to_engine, current, "answered", sent)
      BY <2>1, <2>3, <3>3, <3>4 DEF OrderInv, DoneInv
    <3> QED
      BY <2>1, <2>3, <2>5, <3>2, <3>5 DEF OrderInv
  <2>6. /\ Message("response", r, NoBuffer, TRUE) \in HostMessage
        /\ Message("response", r, <<r, "out">>, TRUE) \in HostMessage
        /\ Message("response", r, <<r, "out">>, FALSE) \in HostMessage
    BY <2>3, NewMessages
  <2>7. /\ Message("response", r, NoBuffer, TRUE).op = "response"
        /\ Message("response", r, <<r, "out">>, TRUE).op = "response"
        /\ Message("response", r, <<r, "out">>, FALSE).op = "response"
        /\ Message("response", r, NoBuffer, TRUE).request_id = r
        /\ Message("response", r, <<r, "out">>, TRUE).request_id = r
        /\ Message("response", r, <<r, "out">>, FALSE).request_id = r
    BY DEF Message
  <2> QED
    BY <2>2, <2>4, <2>5, <2>6, <2>7
<1>11. CASE DispatchReturns
  <2>1. current' = None /\ UNCHANGED <<answers, to_host, to_engine, sent, lost>>
    BY <1>11 DEF DispatchReturns, hostVars
  <2> QED
    BY <2>1 DEF OrderInv, DoneInv
<1> QED
  BY <1>1, <1>2, <1>3, <1>4, <1>5, <1>6, <1>7, <1>8, <1>9, <1>10, <1>11
  DEF Next, EngineStep

\* OrderInv holds of the initial state.
LEMMA InitOrder == Init => OrderInv
<1> SUFFICES ASSUME Init PROVE OrderInv
  OBVIOUS
<1>1. to_host = <<>> /\ to_engine = <<>> /\ answers = <<>> /\ current = None /\ lost = {}
  BY DEF Init
<1>2. Len(to_host) = 0 /\ Len(to_engine) = 0 /\ Len(answers) = 0
  BY <1>1
<1> QED
  BY <1>1, <1>2 DEF OrderInv, DoneInv, Done, AnswersAscend, Ascending, UpTo, After

\* Requests pass through either engine in order.
LEMMA Ordering ==
  /\ Spec => [](Typed /\ OrderInv)
  /\ JscSpec => [](Typed /\ OrderInv)
<1>1. Typed /\ OrderInv /\ [Next]_vars => (Typed /\ OrderInv)'
  BY TypedStep, OrderStep
<1>2. Spec => [](Typed /\ OrderInv)
  BY <1>1, InitTyped, InitOrder, PTL DEF Spec
<1>3. JscSpec => [](Typed /\ OrderInv)
  BY TypedStep, OrderStep, InitTyped, InitOrder, PTL DEF JscSpec
<1> QED
  BY <1>2, <1>3

\* ssr_run.zig: responses come in the order of the requests and no request has
\* two, whichever engine serves.
THEOREM ResponsesInOrder ==
  /\ Spec => []AnswersInOrder
  /\ JscSpec => []AnswersInOrder
<1>1. Typed /\ OrderInv => AnswersInOrder
  <2> SUFFICES ASSUME Typed, OrderInv PROVE AnswersInOrder
    OBVIOUS
  <2>1. DOMAIN answers = 1..Len(answers) /\ DOMAIN to_host = 1..Len(to_host)
    BY LenProperties DEF Typed
  <2> QED
    BY <2>1 DEF OrderInv, AnswersAscend, Ascending, After, AnswersInOrder, IsResponse
<1> QED
  BY <1>1, Ordering, PTL

\* The state is well typed, and only a request is dispatched.
THEOREM TypeCorrect == Spec => []TypeOK
<1>1. Typed /\ OrderInv => TypeOK
  <2> SUFFICES ASSUME Typed, OrderInv PROVE TypeOK
    OBVIOUS
  <2>1. current # None => current.request_id \in 1..sent
    BY EngineMessages DEF Typed, OrderInv, Request
  <2>2. lost \subseteq 1..sent
    BY DEF Typed, OrderInv, Request
  <2> QED
    BY <2>1, <2>2 DEF Typed, TypeOK, Request
<1> QED
  BY <1>1, Ordering, PTL

-----------------------------------------------------------------------------
(* Owners of buffers.                                                      *)

\* Sending a message adds its buffer to those of the channel,
LEMMA InSent ==
  ASSUME NEW S, NEW q \in Seq(S), NEW m \in S, NEW b
  PROVE  InChannel(Append(q, m), b) <=> (InChannel(q, b) \/ m.buffer = b)
<1> DEFINE p == Append(q, m)
<1>1. /\ \A i \in 1..Len(q) : p[i] = q[i] /\ i \in 1..Len(p)
      /\ p[Len(q) + 1] = m /\ Len(q) + 1 \in 1..Len(p)
      /\ \A i \in 1..Len(p) : i \in 1..Len(q) \/ i = Len(q) + 1
  BY Added
<1> HIDE DEF p
<1>2. InChannel(p, b) <=> (InChannel(q, b) \/ m.buffer = b)
  BY <1>1 DEF InChannel
<1> QED
  BY <1>2 DEF p

\* ... and taking one leaves the buffers of the others.
LEMMA InTaken ==
  ASSUME NEW S, NEW q \in Seq(S), q # <<>>, NEW b
  PROVE  InChannel(q, b) <=> (InChannel(Tail(q), b) \/ Head(q).buffer = b)
<1>1. /\ Head(q) = q[1] /\ 1 \in 1..Len(q)
      /\ \A i \in 1..Len(Tail(q)) : Tail(q)[i] = q[i + 1] /\ i + 1 \in 1..Len(q)
      /\ \A i \in 1..Len(q) : i # 1 => i - 1 \in 1..Len(Tail(q)) /\ Tail(q)[i - 1] = q[i]
  BY Taken
<1> QED
  BY <1>1 DEF InChannel

\* The buffers under way to the engine are those of requests,
LEMMA InEngine ==
  ASSUME NEW e \in Seq(EngineMessage), NEW b, InChannel(e, b), b # NoBuffer
  PROVE  \E r \in Request : b = <<r, "in">> /\ \E i \in 1..Len(e) : e[i].op = "request"
                                                   /\ e[i].request_id = r
<1>1. PICK i \in 1..Len(e) : e[i].buffer = b
  BY DEF InChannel
<1>2. e[i] \in EngineMessage
  BY ElementOfSeq
<1> QED
  BY <1>1, <1>2, EngineMessages

\* ... and those on the way back those of responses.
LEMMA InHost ==
  ASSUME NEW h \in Seq(HostMessage), NEW b, InChannel(h, b), b # NoBuffer
  PROVE  \E r \in Request : b = <<r, "out">> /\ \E i \in 1..Len(h) : h[i].op = "response"
                                                    /\ h[i].request_id = r
<1>1. PICK i \in 1..Len(h) : h[i].buffer = b
  BY DEF InChannel
<1>2. h[i] \in HostMessage
  BY ElementOfSeq
<1> QED
  BY <1>1, <1>2, HostMessages

\* A request that comes before all of a channel does not share its buffer.
LEMMA NotInEngine ==
  ASSUME NEW e \in Seq(EngineMessage), NEW r \in Request, After(e, "request", r)
  PROVE  ~InChannel(e, <<r, "in">>)
<1> SUFFICES ASSUME InChannel(e, <<r, "in">>) PROVE FALSE
  OBVIOUS
<1>1. <<r, "in">> # NoBuffer
  BY BufferNames
<1>2. PICK s \in Request : /\ <<r, "in">> = <<s, "in">>
                           /\ \E i \in 1..Len(e) : e[i].op = "request" /\ e[i].request_id = s
  BY <1>1, InEngine
<1>3. s = r
  BY <1>2, BufferNames
<1>4. ~(r < r)
  BY DEF Request
<1> QED
  BY <1>2, <1>3, <1>4 DEF After

\* ... nor does a response.
LEMMA NotInHost ==
  ASSUME NEW h \in Seq(HostMessage), NEW r \in Request, After(h, "response", r)
  PROVE  ~InChannel(h, <<r, "out">>)
<1> SUFFICES ASSUME InChannel(h, <<r, "out">>) PROVE FALSE
  OBVIOUS
<1>1. <<r, "out">> # NoBuffer
  BY BufferNames
<1>2. PICK s \in Request : /\ <<r, "out">> = <<s, "out">>
                           /\ \E i \in 1..Len(h) : h[i].op = "response" /\ h[i].request_id = s
  BY <1>1, InHost
<1>3. s = r
  BY <1>2, BufferNames
<1>4. ~(r < r)
  BY DEF Request
<1> QED
  BY <1>2, <1>3, <1>4 DEF After

\* Every step of either engine keeps the buffers accounted for.
LEMMA OwnersStep == Typed /\ OrderInv /\ OwnersInv /\ [Next \/ tick]_vars => OwnersInv'
<1> SUFFICES ASSUME Typed, OrderInv, OwnersInv, [Next \/ tick]_vars PROVE OwnersInv'
  OBVIOUS
<1>a. /\ to_engine \in Seq(EngineMessage) /\ to_host \in Seq(HostMessage)
      /\ answers \in Seq(Request)
      /\ \A i \in 1..Len(answers) : answers[i] \in Request
      /\ current # None => /\ current.request_id \in Request /\ ~current.empty
                           /\ current.buffer = <<current.request_id, "in">>
  BY EngineMessages, ElementOfSeq DEF Typed
<1>b. \A b \in dropped : \E i \in 1..Len(answers) : b = <<answers[i], "out">>
  BY DEF OwnersInv
<1>c. \A r, s : /\ <<r, "in">> # <<s, "out">> /\ <<r, "in">> # NoBuffer
                /\ <<r, "out">> # NoBuffer
                /\ <<r, "in">> = <<s, "in">> => r = s
                /\ <<r, "out">> = <<s, "out">> => r = s
  BY BufferNames
<1>d. ASSUME UNCHANGED <<buffers, dropped, answers>>,
             \A b \in Buffer : b # NoBuffer =>
               ((InChannel(to_engine', b) \/ InChannel(to_host', b) \/ AtWork(current', b)) <=>
                (InChannel(to_engine, b) \/ InChannel(to_host, b) \/ AtWork(current, b)))
      PROVE  OwnersInv'
  BY <1>d DEF OwnersInv
<1>1. CASE UNCHANGED vars
  BY <1>1, <1>d DEF vars
<1>2. CASE SendRequest
  <2> DEFINE x == <<sent + 1, "in">>
             m == Message("request", sent + 1, x, FALSE)
  <2>1. /\ to_engine' = Append(to_engine, m) /\ buffers' = buffers \cup {x}
        /\ UNCHANGED <<current, to_host, answers, dropped>>
    BY <1>2 DEF SendRequest, engineVars
  <2>2. m.buffer = x /\ m \in EngineMessage /\ x # NoBuffer
    <3>1. sent + 1 \in Request
      BY <1>2, BoundAssumption DEF SendRequest, Typed, Request
    <3> QED
      BY <1>c, <3>1, NewMessages DEF Message
  <2> HIDE DEF m
  <2>3. \A b : InChannel(to_engine', b) <=> (InChannel(to_engine, b) \/ b = x)
    BY <1>a, <2>1, <2>2, InSent
  <2> HIDE DEF x
  <2> QED
    BY <2>1, <2>2, <2>3 DEF OwnersInv
<1>3. CASE SendShutdown
  <2> DEFINE m == Message("shutdown", 0, NoBuffer, TRUE)
  <2>1. to_engine' = Append(to_engine, m) /\ UNCHANGED <<buffers, current, to_host, answers, dropped>>
    BY <1>3 DEF SendShutdown, engineVars
  <2>2. m.buffer = NoBuffer /\ m \in EngineMessage
    BY NewMessages DEF Message
  <2> HIDE DEF m
  <2>3. \A b : InChannel(to_engine', b) <=> (InChannel(to_engine, b) \/ b = NoBuffer)
    BY <1>a, <2>1, <2>2, InSent
  <2> QED
    BY <1>d, <2>1, <2>3
<1>e. ASSUME Discard, UNCHANGED <<current, to_host, answers, dropped>> PROVE OwnersInv'
  <2> DEFINE m == Head(to_engine)
  <2>1. /\ to_engine # <<>> /\ to_engine' = Tail(to_engine)
        /\ buffers' = IF m.empty THEN buffers ELSE buffers \ {m.buffer}
    BY <1>e DEF Discard, Release
  <2>2. m \in EngineMessage /\ Tail(to_engine) \in Seq(EngineMessage)
    BY <1>a, <2>1, Taken
  <2>3. \A b : InChannel(to_engine, b) <=> (InChannel(to_engine', b) \/ m.buffer = b)
    BY <1>a, <2>1, InTaken
  <2>4. /\ \A r : After(to_engine, "request", r) /\ m.op = "request" => r < m.request_id
        /\ m.op = "request" => After(to_engine', "request", m.request_id)
    BY <1>a, <2>1, OrderTaken DEF OrderInv
  <2> HIDE DEF m
  <2>5. CASE m.op = "shutdown"
    <3>1. m.buffer = NoBuffer /\ buffers' = buffers
      BY <2>1, <2>2, <2>5, EngineMessages
    <3> QED
      BY <1>d, <1>e, <2>3, <3>1
  <2>6. CASE m.op = "request"
    <3> DEFINE r == m.request_id
               x == <<r, "in">>
    <3>1. r \in Request /\ m.buffer = x /\ buffers' = buffers \ {x}
      BY <2>1, <2>2, <2>6, EngineMessages
    <3>2. ~InChannel(to_engine', x)
      BY <2>1, <2>2, <2>4, <2>6, <3>1, NotInEngine
    <3>3. ~InChannel(to_host, x)
      BY <1>a, <1>c, InHost
    <3>4. ~AtWork(current, x)
      <4> SUFFICES ASSUME AtWork(current, x) PROVE FALSE
        OBVIOUS
      <4>1. current # None /\ current.request_id = r
        BY <1>a, <1>c DEF AtWork
      <4>2. r < r
        BY <2>4, <2>6, <4>1 DEF OrderInv
      <4> QED
        BY <3>1, <4>2 DEF Request
    <3>5. x \notin dropped
      BY <1>b, <1>c
    <3> HIDE DEF x
    <3> QED
      BY <1>e, <2>3, <3>1, <3>2, <3>3, <3>4, <3>5 DEF OwnersInv
  <2> QED
    BY <2>2, <2>5, <2>6, EngineMessages
<1>f. ASSUME NEW m \in HostMessage, m.buffer = NoBuffer, to_host' = Append(to_host, m),
             UNCHANGED <<buffers, dropped, answers, to_engine, current>>
      PROVE  OwnersInv'
  <2>1. \A b : InChannel(to_host', b) <=> (InChannel(to_host, b) \/ b = NoBuffer)
    BY <1>a, <1>f, InSent
  <2> QED
    BY <1>d, <1>f, <2>1
<1>4. CASE Collect
  <2> DEFINE m == Head(to_host)
             r == m.request_id
             x == <<r, "out">>
  <2>1. /\ to_host # <<>> /\ to_host' = Tail(to_host)
        /\ buffers' = IF m.empty THEN buffers ELSE buffers \ {m.buffer}
        /\ answers' = IF m.op = "response" THEN Append(answers, r) ELSE answers
        /\ dropped' = IF m.empty THEN dropped \cup ({m.buffer} \ {NoBuffer}) ELSE dropped
        /\ UNCHANGED <<to_engine, current>>
    BY <1>4 DEF Collect, Release, engineVars
  <2>2. m \in HostMessage /\ Tail(to_host) \in Seq(HostMessage)
    BY <1>a, <2>1, Taken
  <2>3. \A b : InChannel(to_host, b) <=> (InChannel(to_host', b) \/ m.buffer = b)
    BY <1>a, <2>1, InTaken
  <2>4. /\ \A n : After(to_host, "response", n) /\ m.op = "response" => n < r
        /\ m.op = "response" => After(to_host', "response", r)
    BY <1>a, <2>1, OrderTaken DEF OrderInv, AnswersAscend
  <2>5. /\ m.op = "response" => r \in Request
        /\ \/ m.buffer = NoBuffer /\ m.empty
           \/ m.op = "response" /\ m.buffer = x
    BY <2>2, HostMessages
  <2> HIDE DEF m
  <2>6. /\ \A i \in 1..Len(answers) : /\ i \in 1..Len(answers')
                                      /\ answers'[i] = answers[i]
        /\ m.op = "response" => \E i \in 1..Len(answers') : answers'[i] = r
    <3>1. CASE m.op = "response"
      <4>1. answers' = Append(answers, r) /\ r \in Request
        BY <2>1, <2>5, <3>1
      <4> QED
        BY <1>a, <4>1, Added
    <3>2. CASE m.op # "response"
      BY <2>1, <3>2
    <3> QED
      BY <3>1, <3>2
  <2>7. \A b \in dropped : \E i \in 1..Len(answers') : b = <<answers'[i], "out">>
    BY <1>b, <2>6
  <2>8. CASE m.buffer = NoBuffer /\ m.empty
    <3>1. buffers' = buffers /\ dropped' = dropped
      BY <2>1, <2>8
    <3> QED
      BY <2>1, <2>3, <2>7, <2>8, <3>1 DEF OwnersInv
  <2>9. CASE m.op = "response" /\ m.buffer = x /\ m.empty
    <3>1. buffers' = buffers /\ dropped' = dropped \cup {x} /\ x # NoBuffer
      BY <1>c, <2>1, <2>9
    <3>2. \E i \in 1..Len(answers') : x = <<answers'[i], "out">>
      BY <2>6, <2>9
    <3> HIDE DEF x
    <3> QED
      BY <2>1, <2>3, <2>7, <2>9, <3>1, <3>2 DEF OwnersInv
  <2>10. CASE m.op = "response" /\ m.buffer = x /\ ~m.empty
    <3>1. buffers' = buffers \ {x} /\ dropped' = dropped
      BY <2>1, <2>10
    <3>2. ~InChannel(to_host', x)
      BY <2>1, <2>2, <2>4, <2>5, <2>10, NotInHost
    <3>3. ~InChannel(to_engine, x) /\ ~AtWork(current, x)
      BY <1>a, <1>c, InEngine DEF AtWork
    <3>4. x \notin dropped
      <4> SUFFICES ASSUME x \in dropped PROVE FALSE
        OBVIOUS
      <4>1. PICK i \in 1..Len(answers) : x = <<answers[i], "out">>
        BY <1>b
      <4>2. answers[i] = r
        BY <1>c, <4>1
      <4>3. r < r
        BY <2>4, <2>10, <4>2 DEF OrderInv, AnswersAscend
      <4> QED
        BY <2>5, <2>10, <4>3 DEF Request
    <3> HIDE DEF x
    <3> QED
      BY <2>1, <2>3, <2>7, <2>10, <3>1, <3>2, <3>3, <3>4 DEF OwnersInv
  <2> QED
    BY <2>5, <2>8, <2>9, <2>10
<1>5. CASE load \/ Evaluated \/ destroy
  BY <1>5, <1>d DEF load, Evaluated, destroy, hostVars
<1>6. CASE run \/ Stop
  <2>1. /\ UNCHANGED <<buffers, dropped, answers, to_engine, current>>
        /\ \/ to_host' = to_host
           \/ to_host' = Append(to_host, Message("started", 0, NoBuffer, TRUE))
           \/ to_host' = Append(to_host, Message("stopped", 0, NoBuffer, TRUE))
    BY <1>6 DEF run, Stop, hostVars
  <2>2. /\ Message("started", 0, NoBuffer, TRUE) \in HostMessage
        /\ Message("stopped", 0, NoBuffer, TRUE) \in HostMessage
        /\ Message("started", 0, NoBuffer, TRUE).buffer = NoBuffer
        /\ Message("stopped", 0, NoBuffer, TRUE).buffer = NoBuffer
    BY NewMessages DEF Message
  <2>3. CASE to_host' = to_host
    BY <1>d, <2>1, <2>3
  <2> QED
    BY <1>f, <2>1, <2>2, <2>3
<1>7. CASE tick
  BY <1>e, <1>7 DEF tick, engineVars, hostVars
<1>8. CASE DestroyPoll
  <2>1. CASE to_engine = <<>>
    BY <1>d, <1>8, <2>1 DEF DestroyPoll, hostVars
  <2>2. CASE to_engine # <<>>
    BY <1>e, <1>8, <2>2 DEF DestroyPoll, hostVars
  <2> QED
    BY <2>1, <2>2
<1>9. CASE pump
  <2> DEFINE m == Head(to_engine)
  <2>1. /\ current = None /\ to_engine # <<>>
        /\ to_engine' = Tail(to_engine)
        /\ m.op = "shutdown" => current' = current
        /\ m.op # "shutdown" => current' = m
        /\ UNCHANGED <<buffers, dropped, answers, to_host>>
    BY <1>9 DEF pump, hostVars
  <2>2. m \in EngineMessage /\ m # None /\ (m.op = "shutdown" => m.buffer = NoBuffer)
    BY <1>a, <2>1, Taken, EngineMessages
  <2>3. \A b : InChannel(to_engine, b) <=> (InChannel(to_engine', b) \/ m.buffer = b)
    BY <1>a, <2>1, InTaken
  <2> HIDE DEF m
  <2>4. \A b : b # NoBuffer => (AtWork(current', b) <=> (m.op # "shutdown" /\ m.buffer = b))
    BY <2>1, <2>2 DEF AtWork
  <2>5. \A b : ~AtWork(current, b)
    BY <2>1 DEF AtWork
  <2> QED
    BY <1>d, <2>1, <2>2, <2>3, <2>4, <2>5
<1>10. CASE dispatchRequest
  <2> DEFINE r == current.request_id
             x == <<r, "out">>
  <2>1. UNCHANGED <<answers, to_engine, current, dropped>> /\ current # None
    BY <1>10 DEF dispatchRequest, hostVars
  <2>2. \/ buffers' = buffers /\ to_host' = to_host
        \/ buffers' = buffers /\ to_host' = Append(to_host, Message("response", r, NoBuffer, TRUE))
        \/ buffers' = buffers \cup {x} /\ to_host' = Append(to_host, Message("response", r, x, TRUE))
        \/ buffers' = buffers \cup {x} /\ to_host' = Append(to_host, Message("response", r, x, FALSE))
    BY <1>10 DEF dispatchRequest, respond, sendError
  <2>3. r \in Request /\ x # NoBuffer
    BY <1>a, <1>c, <2>1
  <2>4. /\ Message("response", r, NoBuffer, TRUE) \in HostMessage
        /\ Message("response", r, x, TRUE) \in HostMessage
        /\ Message("response", r, x, FALSE) \in HostMessage
        /\ Message("response", r, NoBuffer, TRUE).buffer = NoBuffer
        /\ Message("response", r, x, TRUE).buffer = x
        /\ Message("response", r, x, FALSE).buffer = x
    BY <2>3, NewMessages DEF Message
  <2>5. ASSUME NEW m \in HostMessage, m.buffer = x, buffers' = buffers \cup {x},
               to_host' = Append(to_host, m)
        PROVE  OwnersInv'
    <3>1. \A b : InChannel(to_host', b) <=> (InChannel(to_host, b) \/ b = x)
      BY <1>a, <2>5, InSent
    <3> HIDE DEF x
    <3> QED
      BY <2>1, <2>3, <2>5, <3>1 DEF OwnersInv
  <2>6. CASE buffers' = buffers /\ to_host' = to_host
    BY <1>d, <2>1, <2>6
  <2>7. CASE /\ buffers' = buffers
             /\ to_host' = Append(to_host, Message("response", r, NoBuffer, TRUE))
    BY <1>f, <2>1, <2>4, <2>7
  <2> QED
    BY <2>2, <2>4, <2>5, <2>6, <2>7
<1>11. CASE DispatchReturns
  <2> DEFINE r == current.request_id
             x == <<r, "in">>
  <2>1. /\ current # None /\ current' = None /\ UNCHANGED <<answers, to_host, to_engine, dropped>>
        /\ buffers' = IF current.empty THEN buffers ELSE buffers \ {current.buffer}
    BY <1>11 DEF DispatchReturns, Release, hostVars, Typed
  <2>2. buffers' = buffers \ {x} /\ r \in Request
    BY <1>a, <2>1
  <2>3. \A b : (AtWork(current, b) <=> b = x) /\ ~AtWork(current', b)
    BY <1>a, <2>1 DEF AtWork
  <2>4. ~InChannel(to_engine, x)
    BY <1>a, <2>1, <2>2, NotInEngine DEF OrderInv
  <2>5. ~InChannel(to_host, x)
    BY <1>a, <1>c, InHost
  <2>6. x \notin dropped
    BY <1>b, <1>c
  <2> HIDE DEF x
  <2> QED
    BY <2>1, <2>2, <2>3, <2>4, <2>5, <2>6 DEF OwnersInv
<1> QED
  BY <1>1, <1>2, <1>3, <1>4, <1>5, <1>6, <1>7, <1>8, <1>9, <1>10, <1>11
  DEF Next, EngineStep

\* contract.zig on Command.payload: a buffer is allocated exactly while a
\* message or the request at work carries it, a failed send, a shutdown with
\* requests behind it and destroy included, whichever engine serves; but for
\* the buffer of an empty response.
THEOREM PayloadsAreConserved ==
  /\ Spec => []PayloadsConserved
  /\ JscSpec => []PayloadsConserved
<1>1. Init => OwnersInv
  <2> SUFFICES ASSUME Init PROVE OwnersInv
    OBVIOUS
  <2>1. /\ to_host = <<>> /\ to_engine = <<>> /\ current = None
        /\ buffers = {} /\ dropped = {}
    BY DEF Init
  <2>2. Len(to_host) = 0 /\ Len(to_engine) = 0
    BY <2>1
  <2> QED
    BY <2>1, <2>2 DEF OwnersInv, InChannel, AtWork
<1>2. Typed /\ OrderInv /\ OwnersInv /\ [Next]_vars => OwnersInv'
  BY OwnersStep
<1>3. Typed /\ OwnersInv => PayloadsConserved
  <2> SUFFICES ASSUME Typed, OwnersInv PROVE PayloadsConserved
    OBVIOUS
  <2>1. /\ DOMAIN to_engine = 1..Len(to_engine) /\ DOMAIN to_host = 1..Len(to_host)
        /\ \A i \in 1..Len(to_engine) : to_engine[i] \in EngineMessage
        /\ \A i \in 1..Len(to_host) : to_host[i] \in HostMessage
        /\ current # None => current.buffer \in Buffer
        /\ buffers \subseteq Buffer /\ dropped \subseteq Buffer
    BY LenProperties, ElementOfSeq, EngineMessages DEF Typed
  <2>2. /\ \A i \in 1..Len(to_engine) : to_engine[i].buffer \in Buffer
        /\ \A i \in 1..Len(to_host) : to_host[i].buffer \in Buffer
    BY <2>1, EngineMessages, HostMessages
  <2>3. \A b : b \in Carried <=> InChannel(to_engine, b) \/ InChannel(to_host, b) \/ AtWork(current, b)
    BY <2>1 DEF Carried, InChannel, AtWork
  <2>4. \A b : b \in Carried => b \in Buffer
    BY <2>1, <2>2, <2>3 DEF InChannel, AtWork
  <2>5. \A b : b \in buffers <=> b \in (Carried \cup dropped) \ {NoBuffer}
    BY <2>1, <2>3, <2>4 DEF OwnersInv
  <2> HIDE DEF OwnersInv
  <2> QED
    BY <2>5 DEF PayloadsConserved
<1>4. Spec => []PayloadsConserved
  BY <1>1, <1>2, <1>3, Ordering, PTL DEF Spec
<1>5. JscSpec => []PayloadsConserved
  BY <1>1, <1>3, Ordering, OwnersStep, PTL DEF JscSpec
<1> QED
  BY <1>4, <1>5

-----------------------------------------------------------------------------
(* Every request is answered.                                              *)

\* Request r waits in channel e.
Queued(e, r) == \E i \in 1..Len(e) : e[i].op = "request" /\ e[i].request_id = r

\* A command that is sent leaves a request queued,
LEMMA QueuedSent ==
  ASSUME NEW e \in Seq(EngineMessage), NEW m \in EngineMessage, NEW r
  PROVE  /\ Queued(e, r) => Queued(Append(e, m), r)
         /\ m.op = "request" /\ m.request_id = r => Queued(Append(e, m), r)
<1> DEFINE p == Append(e, m)
<1>1. /\ \A i \in 1..Len(e) : p[i] = e[i] /\ i \in 1..Len(p)
      /\ p[Len(e) + 1] = m /\ Len(e) + 1 \in 1..Len(p)
  BY Added
<1> HIDE DEF p
<1>2. (Queued(e, r) \/ (m.op = "request" /\ m.request_id = r)) => Queued(p, r)
  BY <1>1 DEF Queued
<1> QED
  BY <1>2 DEF p

\* ... and one that is taken is it or leaves it queued.
LEMMA QueuedTaken ==
  ASSUME NEW e \in Seq(EngineMessage), e # <<>>, NEW r, Queued(e, r)
  PROVE  Queued(Tail(e), r) \/ (Head(e).op = "request" /\ Head(e).request_id = r)
<1>1. /\ Head(e) = e[1]
      /\ \A i \in 1..Len(e) : i # 1 => i - 1 \in 1..Len(Tail(e)) /\ Tail(e)[i - 1] = e[i]
  BY Taken
<1> QED
  BY <1>1 DEF Queued

\* Every step of an engine whose event loop does not tick keeps each request
\* queued, at work or answered.
LEMMA WaitStep == Typed /\ WaitInv /\ [Next]_vars => WaitInv'
<1> SUFFICES ASSUME Typed, WaitInv, [Next]_vars PROVE WaitInv'
  OBVIOUS
<1> DEFINE Early == {"idle", "evaluating", "serving", "answered"}
           Held(r) == \/ Queued(to_engine, r) \/ Done(answers, to_host, r) \/ r \in lost
                      \/ pc = "serving" /\ current # None /\ current.request_id = r
<1>a. /\ to_engine \in Seq(EngineMessage) /\ to_host \in Seq(HostMessage)
      /\ answers \in Seq(Request) /\ sent \in Nat
      /\ current # None => current.request_id \in Request
  BY EngineMessages DEF Typed
<1>b. pc \in Early => \A r \in 1..sent : Held(r)
  BY DEF WaitInv, Queued
<1>c. ASSUME pc' \in Early => pc \in Early /\ \A r \in 1..sent' : r \in 1..sent
                                                       /\ (Held(r) => Held(r)')
      PROVE  WaitInv'
  BY <1>b, <1>c DEF WaitInv, Queued
<1> HIDE DEF Held
<1>1. CASE UNCHANGED vars
  BY <1>c, <1>1 DEF vars, Held
<1>2. CASE SendRequest
  <2> DEFINE m == Message("request", sent + 1, <<sent + 1, "in">>, FALSE)
  <2>1. /\ to_engine' = Append(to_engine, m) /\ sent' = sent + 1
        /\ UNCHANGED <<pc, current, to_host, answers, lost>>
    BY <1>2 DEF SendRequest, engineVars
  <2>2. m.op = "request" /\ m.request_id = sent + 1 /\ m \in EngineMessage
    <3>1. sent + 1 \in Request
      BY <1>2, BoundAssumption DEF SendRequest, Typed, Request
    <3> QED
      BY <3>1, NewMessages DEF Message
  <2> HIDE DEF m
  <2>3. \A r : Queued(to_engine, r) => Queued(to_engine', r)
    BY <1>a, <2>1, <2>2, QueuedSent
  <2>4. Queued(to_engine', sent + 1)
    BY <1>a, <2>1, <2>2, QueuedSent
  <2>5. \A r \in 1..sent' : r \in 1..sent \/ r = sent + 1
    BY <1>a, <2>1
  <2>6. ASSUME pc \in Early, NEW r \in 1..sent' PROVE Held(r)'
    BY <1>b, <2>1, <2>3, <2>4, <2>5, <2>6 DEF Held
  <2> QED
    BY <2>1, <2>6 DEF WaitInv, Held, Queued
<1>3. CASE SendShutdown
  <2> DEFINE m == Message("shutdown", 0, NoBuffer, TRUE)
  <2>1. to_engine' = Append(to_engine, m) /\ UNCHANGED <<pc, current, to_host, answers, lost, sent>>
    BY <1>3 DEF SendShutdown, engineVars
  <2>2. m \in EngineMessage
    BY NewMessages
  <2> HIDE DEF m
  <2>3. \A r : Queued(to_engine, r) => Queued(to_engine', r)
    BY <1>a, <2>1, <2>2, QueuedSent
  <2>4. \A r : Held(r) => Held(r)'
    BY <2>1, <2>3 DEF Held
  <2> QED
    BY <1>c, <2>1, <2>4
<1>4. CASE Collect
  <2>1. /\ to_host # <<>> /\ to_host' = Tail(to_host)
        /\ answers' = IF Head(to_host).op = "response"
                      THEN Append(answers, Head(to_host).request_id) ELSE answers
        /\ UNCHANGED <<pc, current, to_engine, sent, lost>>
    BY <1>4 DEF Collect, engineVars
  <2>2. \A r : Done(answers', to_host', r) <=> Done(answers, to_host, r)
    <3>1. to_host \in Seq(HostMessage) /\ answers \in Seq(Request)
      BY <1>a
    <3>2. PICK b : b = IF Head(to_host).op = "response"
                       THEN Append(answers, Head(to_host).request_id) ELSE answers
      OBVIOUS
    <3>3. SameDone(answers, to_host, b, Tail(to_host))
      BY <2>1, <3>1, <3>2, DoneCollected
    <3> QED
      BY <2>1, <3>2, <3>3 DEF SameDone
  <2>3. \A r : Held(r) => Held(r)'
    BY <2>1, <2>2 DEF Held
  <2> QED
    BY <1>c, <2>1, <2>3
<1>5. CASE load \/ Evaluated
  <2>1. /\ UNCHANGED <<answers, to_host, to_engine, current, sent, lost>>
        /\ pc \in {"idle", "evaluating"}
    BY <1>5 DEF load, Evaluated, hostVars
  <2>2. \A r : Held(r) => Held(r)'
    BY <2>1 DEF Held
  <2> QED
    BY <1>c, <2>1, <2>2
<1>6. CASE run
  <2>1. /\ UNCHANGED <<answers, to_engine, current, sent, lost>>
        /\ pc = "idle"
        /\ \/ to_host' = to_host
           \/ to_host' = Append(to_host, Message("started", 0, NoBuffer, TRUE))
    BY <1>6 DEF run, hostVars
  <2>2. Message("started", 0, NoBuffer, TRUE) \in HostMessage
    BY NewMessages
  <2>3. \A r : Done(answers, to_host, r) => Done(answers, to_host', r)
    <3>1. \A r : Done(answers, to_host, r) =>
                   Done(answers, Append(to_host, Message("started", 0, NoBuffer, TRUE)), r)
      BY <1>a, <2>2, DoneSent
    <3> QED
      BY <2>1, <3>1
  <2>4. \A r : Held(r) => Held(r)'
    BY <2>1, <2>3 DEF Held
  <2> QED
    BY <1>c, <2>1, <2>4
<1>7. CASE Stop \/ destroy \/ DestroyPoll
  <2>1. pc' \notin Early
    BY <1>7 DEF Stop, destroy, DestroyPoll
  <2> QED
    BY <2>1 DEF WaitInv
<1>8. CASE pump
  <2> DEFINE m == Head(to_engine)
  <2>1. /\ pc = "serving" /\ current = None /\ to_engine # <<>>
        /\ to_engine' = Tail(to_engine)
        /\ m.op = "shutdown" => pc' = "stopping"
        /\ m.op # "shutdown" => current' = m /\ pc' = pc
        /\ UNCHANGED <<answers, to_host, sent, lost>>
    BY <1>8 DEF pump, hostVars
  <2>2. m # None
    BY <1>a, <2>1, Taken, EngineMessages
  <2>3. \A r : Queued(to_engine, r) =>
                 Queued(to_engine', r) \/ (m.op = "request" /\ m.request_id = r)
    BY <1>a, <2>1, QueuedTaken
  <2> HIDE DEF m
  <2>4. CASE m.op = "shutdown"
    BY <1>c, <2>1, <2>4
  <2>5. CASE m.op # "shutdown"
    <3>1. \A r : Held(r) => Held(r)'
      BY <2>1, <2>2, <2>3, <2>5 DEF Held
    <3> QED
      BY <1>c, <2>1, <3>1
  <2> QED
    BY <2>4, <2>5
<1>9. CASE dispatchRequest
  <2> DEFINE x == current.request_id
  <2>1. /\ pc = "serving" /\ current # None /\ pc' = "answered"
        /\ UNCHANGED <<answers, to_engine, current, sent>>
    BY <1>9 DEF dispatchRequest, hostVars
  <2>2. \/ to_host' = to_host /\ lost' = lost \cup {x}
        \/ to_host' = Append(to_host, Message("response", x, NoBuffer, TRUE)) /\ lost' = lost
        \/ to_host' = Append(to_host, Message("response", x, <<x, "out">>, TRUE)) /\ lost' = lost
        \/ to_host' = Append(to_host, Message("response", x, <<x, "out">>, FALSE)) /\ lost' = lost
    BY <1>9 DEF dispatchRequest, respond, sendError
  <2>3. x \in Request
    BY <1>a, <2>1
  <2>4. ASSUME NEW m \in HostMessage, m.op = "response", m.request_id = x,
               to_host' = Append(to_host, m), lost' = lost
        PROVE  \A r : Held(r) => Held(r)'
    <3>1. \A r : Done(answers, to_host', r) <=> (Done(answers, to_host, r) \/ x = r)
      BY <1>a, <2>4, DoneSent
    <3> QED
      BY <2>1, <2>4, <3>1 DEF Held
  <2>5. CASE to_host' = to_host /\ lost' = lost \cup {x}
    <3>1. \A r : Held(r) => Held(r)'
      BY <2>1, <2>5 DEF Held
    <3> QED
      BY <1>c, <2>1, <3>1
  <2>6. /\ Message("response", x, NoBuffer, TRUE) \in HostMessage
        /\ Message("response", x, <<x, "out">>, TRUE) \in HostMessage
        /\ Message("response", x, <<x, "out">>, FALSE) \in HostMessage
    BY <2>3, NewMessages
  <2>7. /\ Message("response", x, NoBuffer, TRUE).op = "response"
        /\ Message("response", x, <<x, "out">>, TRUE).op = "response"
        /\ Message("response", x, <<x, "out">>, FALSE).op = "response"
        /\ Message("response", x, NoBuffer, TRUE).request_id = x
        /\ Message("response", x, <<x, "out">>, TRUE).request_id = x
        /\ Message("response", x, <<x, "out">>, FALSE).request_id = x
    BY DEF Message
  <2>8. CASE lost' = lost /\ ~(to_host' = to_host /\ lost' = lost \cup {x})
    <3>1. \A r : Held(r) => Held(r)'
      BY <2>2, <2>4, <2>6, <2>7, <2>8
    <3> QED
      BY <1>c, <2>1, <3>1
  <2> QED
    BY <2>2, <2>5, <2>8
<1>10. CASE DispatchReturns
  <2>1. pc = "answered" /\ UNCHANGED <<answers, to_host, to_engine, sent, lost>>
    BY <1>10 DEF DispatchReturns, hostVars
  <2>2. \A r : Held(r) => Held(r)'
    BY <2>1 DEF Held
  <2> QED
    BY <1>c, <2>1, <2>2
<1> QED
  BY <1>1, <1>2, <1>3, <1>4, <1>5, <1>6, <1>7, <1>8, <1>9, <1>10
  DEF Next, EngineStep

\* server_dispatch.zig: while an engine serves, every request that was sent
\* waits, is being worked on, or has its response, unless the response could
\* not be sent.  (Not so for the JSC engine, whose event loop polls the bridge
\* while the source is evaluated.)
THEOREM AllRequestsAnswered == Spec => []RequestsAreAnswered
<1>1. Init => WaitInv
  <2> SUFFICES ASSUME Init PROVE WaitInv
    OBVIOUS
  <2>1. sent = 0
    BY DEF Init
  <2> QED
    BY <2>1 DEF WaitInv
<1>2. Typed /\ WaitInv => RequestsAreAnswered
  <2> SUFFICES ASSUME Typed, WaitInv PROVE RequestsAreAnswered
    OBVIOUS
  <2>1. /\ DOMAIN answers = 1..Len(answers) /\ DOMAIN to_host = 1..Len(to_host)
        /\ DOMAIN to_engine = 1..Len(to_engine)
    BY LenProperties DEF Typed
  <2> QED
    BY <2>1 DEF WaitInv, Done, RequestsAreAnswered, Serving, Waits, Responded, IsResponse
<1> QED
  BY <1>1, <1>2, Ordering, WaitStep, PTL DEF Spec

=============================================================================
