--------------------------- MODULE HostFilesProofs ---------------------------
(***************************************************************************)
(* Proofs about HostFiles, for any number of requests, cancellations and   *)
(* resources and any width of a slot's generation.  The invariants come in *)
(* layers, each proved on top of the ones before:                          *)
(*                                                                         *)
(*   TeardownInv   who still runs at each stage of Monolith.deinit         *)
(*   Typed         what each variable and each message can be              *)
(*   OwnersInv     a buffer is in one place                                *)
(*   HandlersInv   a handler is registered until its first answer          *)
(*   OrderInv      nothing of a request overtakes its submit or its answer *)
(*   FilesInv      an open file's id is known or under way                 *)
(*   IdsInv        how the ids told so far relate to their slots           *)
(***************************************************************************)
EXTENDS HostFiles, Integers, FiniteSetTheorems, SequenceTheorems,
        WellFoundedInduction, TLAPS

-----------------------------------------------------------------------------
(* The invariants.                                                         *)

\* The host is told to stop before it is joined, and it returns with nothing
\* left to do; nobody sends to it once the engine has returned.
TeardownInv ==
  /\ engine \in {"created", "running", "exited", "joining", "joined", "destroyed"}
  /\ host \in {"loop", "final", "stopped"}
  /\ stopping => engine \in {"joining", "joined", "destroyed"}
  /\ host # "loop" => stopping
  /\ host = "stopped" => current = None /\ to_host = <<>>
  /\ engine \in {"joined", "destroyed"} => host = "stopped" /\ resources = <<>>
  /\ engine = "destroyed" => to_engine = <<>>

\* What the bridge sends, and what the host makes of it while it has a payload
\* to release.
HostCommand ==
  {m \in [kind : {"submit", "cancel", "event", "release"},
          operation : Operation, request_id : 0..MaxRequests,
          resource_id : ResourceId, ok : BOOLEAN, payload : Payload] :
     /\ m.kind # "event" => m.request_id \in Request
     /\ \/ m.payload = NoPayload
        \/ /\ m.kind \in {"submit", "release"}
           /\ m.payload = [buffer |-> m.request_id, length |-> 1]}

\* What the host sends.
Completion ==
  {m \in [kind : {"completion"}, operation : Operation, request_id : Request,
          resource_id : ResourceId, ok : BOOLEAN, payload : Payload] :
     m.payload = NoPayload \/ m.payload.buffer = m.request_id}

\* TypeOK, the counts of references being integers, and the messages.
Typed ==
  /\ handlers \subseteq Request
  /\ next_request_id \in 1..(MaxRequests + 1)
  /\ known \subseteq [id : ResourceId, file : Request]
  /\ delivered \in [Request -> Nat] /\ cancels \in 0..MaxCancels
  /\ to_host \in Seq(HostCommand) /\ current \in HostCommand \cup {None}
  /\ to_engine \in Seq(Completion)
  /\ refs \in [Request -> Int]
  /\ resources \in Seq(ResourceSlot)
  /\ stopping \in BOOLEAN
  /\ unsent \subseteq Request /\ dropped \subseteq Request

\* The places buffer b can be in.
Carried(q, b) == \E i \in 1..Len(q) : q[i].payload.buffer = b

AtWork(c, b) == c # None /\ c.payload.buffer = b

\* Two messages of a channel carry different buffers, or none.
Distinct(q) ==
  \A i, j \in 1..Len(q) :
    q[i].payload.buffer = q[j].payload.buffer /\ q[i].payload.buffer # 0 => i = j

\* A buffer is in one place and then has one reference, or in none and has no
\* reference; h, e, c and d are the places, n the next buffer and k the count.
OnePlace(b, h, e, c, d, n, k) ==
  /\ Carried(h, b) => ~Carried(e, b) /\ ~AtWork(c, b) /\ b \notin d
  /\ Carried(e, b) => ~AtWork(c, b) /\ b \notin d
  /\ AtWork(c, b) => b \notin d
  /\ b >= n => ~Carried(h, b) /\ ~Carried(e, b) /\ ~AtWork(c, b) /\ b \notin d
  /\ (Carried(h, b) \/ Carried(e, b) \/ AtWork(c, b) \/ b \in d) => k = 1
  /\ ~(Carried(h, b) \/ Carried(e, b) \/ AtWork(c, b) \/ b \in d) => k = 0

OwnersInv ==
  engine # "destroyed" =>
    /\ Distinct(to_host) /\ Distinct(to_engine)
    /\ \A b \in Request :
         OnePlace(b, to_host, to_engine, current, dropped, next_request_id, refs[b])

\* A submit of request id is in channel h or with the host, an answer is in
\* channel e, or it could not be sent.
Awaited(id, h, e, c, u) ==
  \/ \E i \in 1..Len(h) : h[i].request_id = id /\ h[i].kind = "submit"
  \/ \E i \in 1..Len(e) : e[i].request_id = id
  \/ id \in u
  \/ c # None /\ c.request_id = id /\ c.kind = "submit"

\* A handler that has been called is gone, and no request that has not been
\* made has one.
HandlersInv ==
  /\ engine # "destroyed" =>
       \A id \in handlers : Awaited(id, to_host, to_engine, current, unsent)
  /\ \A id \in Request :
       /\ delivered[id] <= 1
       /\ delivered[id] > 0 => id \notin handlers
       /\ id >= next_request_id => id \notin handlers /\ delivered[id] = 0

\* No message of queue q before position i is about request r.
NoneBefore(q, i, r) == \A j \in 1..Len(q) : j < i => q[j].request_id # r

NoneOf(q, r) == \A j \in 1..Len(q) : q[j].request_id # r

\* A submit is the first message of its request, in the channel h, with the
\* host (c) and on the way back (e); hs are the handlers, n the next request.
HostOrder(h, c, e, hs, n) ==
  \A i \in 1..Len(h) :
    /\ h[i].request_id < n
    /\ h[i].kind # "release"
    /\ h[i].kind = "submit" =>
         /\ h[i].request_id \in hs
         /\ NoneBefore(h, i, h[i].request_id)
         /\ c # None => c.request_id # h[i].request_id
         /\ NoneOf(e, h[i].request_id)

WorkOrder(c, e, hs, n) ==
  c # None =>
    /\ c.request_id < n
    /\ c.kind = "submit" => c.request_id \in hs /\ NoneOf(e, c.request_id)

\* So a success is the first answer, and its handler is there to take it.
EngineOrder(e, hs, n) ==
  \A i \in 1..Len(e) :
    /\ e[i].request_id < n
    /\ e[i].ok => e[i].request_id \in hs /\ NoneBefore(e, i, e[i].request_id)

OrderInv ==
  /\ HostOrder(to_host, current, to_engine, handlers, next_request_id)
  /\ WorkOrder(current, to_engine, handlers, next_request_id)
  /\ EngineOrder(to_engine, handlers, next_request_id)

\* Message m tells the engine id, under which file is open.
Tells(m, id, file) ==
  /\ m.ok /\ m.operation = "resource_open"
  /\ m.resource_id = id /\ m.request_id = file

\* The file open in slot i of the table has been told to the engine, or the
\* completion that tells it is on its way.
FileNamed(table, i, kn, e) ==
  table[i].fd # 0 =>
    LET id == [index |-> i, generation |-> table[i].generation]
    IN \/ [id |-> id, file |-> table[i].fd] \in kn
       \/ \E m \in 1..Len(e) : Tells(e[m], id, table[i].fd)

FilesInv == \A i \in DOMAIN resources : FileNamed(resources, i, known, to_engine)

\* Until a slot's generation has gone round it counts the closes, and an id
\* told for the slot is older, or the slot's own with its file open.
SlotInv(slot) ==
  slot.closes < MaxGeneration => slot.generation = slot.closes + 1

IdFits(table, id, file) ==
  /\ id.index \in DOMAIN table
  /\ table[id.index].closes < MaxGeneration =>
       \/ id.generation < table[id.index].generation
       \/ /\ id.generation = table[id.index].generation
          /\ table[id.index].fd = file

\* Every id told, or about to be told, fits its slot.
IdsFit(table, kn, e) ==
  /\ \A k \in kn : IdFits(table, k.id, k.file)
  /\ \A m \in 1..Len(e) : e[m].ok /\ e[m].operation = "resource_open" =>
       IdFits(table, e[m].resource_id, e[m].request_id)

IdsInv ==
  /\ \A i \in DOMAIN resources : SlotInv(resources[i])
  /\ engine \notin {"joined", "destroyed"} => IdsFit(resources, known, to_engine)

-----------------------------------------------------------------------------
(* Teardown.                                                               *)

\* How Monolith.deinit and the host thread hand over to each other.
LEMMA TeardownStep == TeardownInv /\ [Next]_vars => TeardownInv'
<1> SUFFICES ASSUME TeardownInv, [Next]_vars PROVE TeardownInv'
  OBVIOUS
<1> USE DEF TeardownInv
<1>1. CASE UNCHANGED vars
  BY <1>1 DEF vars
<1>2. CASE EngineStarts
  BY <1>2 DEF EngineStarts, hostVars
<1>3. ASSUME NEW operation, NEW resource, BridgeSubmit(operation, resource)
      PROVE  TeardownInv'
  BY <1>3 DEF BridgeSubmit, hostVars
<1>4. CASE BridgeCancel
  BY <1>4 DEF BridgeCancel, hostVars
<1>5. CASE BridgePoll
  BY <1>5 DEF BridgePoll, hostVars
<1>6. CASE HostReceive
  BY <1>6 DEF HostReceive, vmVars
<1>7. CASE HostExecute
  <2>1. host' = host /\ engine' = engine /\ stopping' = stopping /\ to_host' = to_host
    BY <1>7 DEF HostExecute, vmVars
  <2>2. current # None
    BY <1>7 DEF HostExecute
  <2> QED
    BY <2>1, <2>2
<1>8. CASE HostRelease
  BY <1>8 DEF HostRelease, vmVars
<1>9. CASE HostSeesStopping
  BY <1>9 DEF HostSeesStopping, vmVars
<1>10. CASE HostReturns
  BY <1>10 DEF HostReturns, vmVars
<1>11. CASE RunReturns
  BY <1>11 DEF RunReturns, hostVars
<1>12. CASE HostDeinit
  BY <1>12 DEF HostDeinit
<1>13. CASE HostJoined
  BY <1>13 DEF HostJoined
<1>14. CASE EngineDestroyed
  BY <1>14 DEF EngineDestroyed, hostVars
<1> QED
  BY <1>1, <1>2, <1>3, <1>4, <1>5, <1>6, <1>7, <1>8, <1>9, <1>10, <1>11, <1>12,
     <1>13, <1>14
  DEF Next, Client, submitOpen, submitOn, HostStep, Teardown

\* The stages of Monolith.deinit come in order.
LEMMA TearingDown == Spec => []TeardownInv
<1>1. Init => TeardownInv
  BY DEF Init, TeardownInv
<1> QED
  BY <1>1, TeardownStep, PTL DEF Spec

\* Monolith.deinit: when the pool and the channels are freed the host thread
\* has ended with every command processed and every file closed.
THEOREM CleanTeardown == Spec => []TeardownIsClean
<1>1. TeardownInv => TeardownIsClean
  BY DEF TeardownInv, TeardownIsClean
<1> QED
  BY <1>1, TearingDown, PTL

-----------------------------------------------------------------------------
(* Messages, channels and slots.                                           *)

\* What a command carries.
LEMMA Commands ==
  ASSUME NEW m \in HostCommand
  PROVE  /\ m # None /\ m.request_id \in 0..MaxRequests
         /\ m.kind # "event" => m.request_id \in Request
         /\ m.kind \in {"submit", "cancel", "event", "release"}
         /\ m.operation \in Operation /\ m.resource_id \in ResourceId
         /\ m.payload.buffer \in 0..MaxRequests /\ m.payload.length \in 0..1
         /\ isEmpty(m.payload) => m.payload = NoPayload
         /\ m.payload.buffer = 0 => isEmpty(m.payload)
         /\ m.payload.buffer # 0 => /\ m.payload.buffer = m.request_id
                                    /\ m.payload.buffer \in Request
                                    /\ ~isEmpty(m.payload)
                                    /\ m.kind \in {"submit", "release"}
<1>1. /\ m # None /\ m.request_id \in 0..MaxRequests
      /\ m.kind # "event" => m.request_id \in Request
      /\ m.kind \in {"submit", "cancel", "event", "release"}
      /\ m.operation \in Operation /\ m.resource_id \in ResourceId
      /\ m.payload \in Payload
  BY DEF HostCommand, None
<1>2. \/ m.payload = NoPayload
      \/ m.kind \in {"submit", "release"} /\ m.payload = [buffer |-> m.request_id, length |-> 1]
  BY DEF HostCommand
<1>3. NoPayload.buffer = 0 /\ NoPayload.length = 0
  BY DEF NoPayload
<1>4. 0 \notin Request /\ m.payload.buffer \in 0..MaxRequests /\ m.payload.length \in 0..1
  BY <1>1, BoundAssumption DEF Request, Payload
<1>5. CASE m.payload = NoPayload
  BY <1>1, <1>3, <1>4, <1>5 DEF isEmpty
<1>6. CASE m.kind \in {"submit", "release"} /\ m.payload = [buffer |-> m.request_id, length |-> 1]
  <2>1. m.payload.buffer = m.request_id /\ m.payload.length = 1 /\ m.request_id \in Request
    BY <1>1, <1>6
  <2>2. ~isEmpty(m.payload)
    BY <2>1 DEF isEmpty
  <2> QED
    BY <1>1, <1>4, <1>6, <2>1, <2>2
<1> QED
  BY <1>2, <1>5, <1>6

\* What a completion carries.
LEMMA Completions ==
  ASSUME NEW m \in Completion
  PROVE  /\ m.request_id \in Request /\ m.ok \in BOOLEAN /\ m.resource_id \in ResourceId
         /\ m.payload.buffer \in 0..MaxRequests /\ m.payload.length \in 0..1
         /\ m.payload.buffer = 0 => isEmpty(m.payload)
         /\ m.payload.buffer # 0 => /\ m.payload.buffer = m.request_id
                                    /\ m.payload.buffer \in Request
<1>1. /\ m.request_id \in Request /\ m.ok \in BOOLEAN /\ m.resource_id \in ResourceId
      /\ m.payload \in Payload
      /\ m.payload = NoPayload \/ m.payload.buffer = m.request_id
  BY DEF Completion
<1>2. NoPayload.buffer = 0 /\ NoPayload.length = 0
  BY DEF NoPayload
<1>3. 0 \notin Request /\ m.payload.buffer \in 0..MaxRequests /\ m.payload.length \in 0..1
  BY <1>1, BoundAssumption DEF Request, Payload
<1> QED
  BY <1>1, <1>2, <1>3 DEF isEmpty

\* The host's completions are of the channel's type.
LEMMA NewCompletions ==
  ASSUME NEW m \in HostCommand, m.kind # "event", NEW id \in ResourceId,
         NEW ok \in BOOLEAN, NEW p \in Payload,
         p = NoPayload \/ (p.buffer = m.payload.buffer /\ p.length <= m.payload.length)
  PROVE  /\ completionWith(m, id, ok, p) \in Completion
         /\ completionWith(m, id, ok, p).request_id = m.request_id
         /\ completionWith(m, id, ok, p).operation = m.operation
         /\ completionWith(m, id, ok, p).resource_id = id
         /\ completionWith(m, id, ok, p).ok = ok
         /\ completionWith(m, id, ok, p).payload = p
<1>1. m.request_id \in Request /\ m.operation \in Operation
  BY Commands
<1>2. p = NoPayload \/ p.buffer = m.request_id
  <2>1. CASE m.payload.buffer = 0 /\ p.buffer = 0 /\ p.length <= m.payload.length
    <3>1. isEmpty(m.payload) /\ p.length \in 0..1
      BY <2>1, Commands DEF Payload
    <3>2. p.length = 0 /\ p.buffer = 0
      BY <2>1, <3>1 DEF isEmpty
    <3> QED
      BY <3>2 DEF Payload, NoPayload
  <2> QED
    BY Commands, <2>1
<1> QED
  BY <1>1, <1>2 DEF completionWith, Completion

\* ... those without a payload too.
LEMMA EmptyCompletions ==
  ASSUME NEW m \in HostCommand, m.kind # "event", NEW id \in ResourceId
  PROVE  /\ completionWith(m, id, TRUE, NoPayload) \in Completion
         /\ completionWith(m, id, FALSE, NoPayload) \in Completion
         /\ completionWith(m, id, TRUE, NoPayload).ok = TRUE
         /\ completionWith(m, id, FALSE, NoPayload).ok = FALSE
         /\ completionWith(m, id, TRUE, NoPayload).request_id = m.request_id
         /\ completionWith(m, id, FALSE, NoPayload).request_id = m.request_id
         /\ completionWith(m, id, TRUE, NoPayload).operation = m.operation
         /\ completionWith(m, id, TRUE, NoPayload).resource_id = id
         /\ completionWith(m, id, TRUE, NoPayload).payload = NoPayload
         /\ completionWith(m, id, FALSE, NoPayload).payload = NoPayload
<1>1. m.request_id \in Request /\ m.operation \in Operation
  BY Commands
<1>2. NoPayload \in Payload
  BY BoundAssumption DEF NoPayload, Payload
<1> QED
  BY <1>1, <1>2 DEF completionWith, Completion

\* The head of a channel is one of its messages, and the rest are the others.
LEMMA Taken ==
  ASSUME NEW S, NEW q \in Seq(S), q # <<>>
  PROVE  /\ Len(q) \in Nat /\ Len(q) >= 1
         /\ Head(q) = q[1] /\ q[1] \in S
         /\ Tail(q) \in Seq(S) /\ Len(Tail(q)) = Len(q) - 1
         /\ \A i \in 1..Len(Tail(q)) : Tail(q)[i] = q[i + 1]
         /\ \A i \in 1..Len(q) : q[i] \in S
<1>1. /\ Tail(q) \in Seq(S) /\ Len(Tail(q)) = Len(q) - 1
      /\ \A i \in 1..Len(Tail(q)) : Tail(q)[i] = q[i + 1]
      /\ Head(q) \in S
  BY HeadTailProperties
<1>2. Len(q) \in Nat /\ Len(q) # 0
  BY LenProperties, EmptySeq
<1>3. \A i \in 1..Len(q) : q[i] \in S
  BY ElementOfSeq
<1> QED
  BY <1>1, <1>2, <1>3

\* A message that is added comes last and leaves the others where they are.
LEMMA Added ==
  ASSUME NEW S, NEW q \in Seq(S), NEW m \in S
  PROVE  /\ Len(q) \in Nat
         /\ Append(q, m) \in Seq(S) /\ Len(Append(q, m)) = Len(q) + 1
         /\ \A i \in 1..Len(q) : Append(q, m)[i] = q[i] /\ q[i] \in S
         /\ Append(q, m)[Len(q) + 1] = m
  BY AppendProperties, LenProperties, ElementOfSeq

\* Every set of natural numbers that is not empty has a least member.
LEMMA Least ==
  ASSUME NEW T, T \subseteq Nat, T # {}
  PROVE  \E x \in T : \A y \in T : x <= y
<1> DEFINE R == OpToRel(<, Nat)
<1>1. IsWellFoundedOn(R, Nat)
  BY NatLessThanWellFounded, Zenon
<1>2. \A a, b \in Nat : a < b => <<a, b>> \in R
  BY DEF OpToRel
<1> HIDE DEF R
<1>3. PICK x \in T : \A y \in T : ~(<<y, x>> \in R)
  BY <1>1, WFMin
<1>4. \A y \in T : ~(y < x)
  BY <1>2, <1>3
<1> QED
  BY <1>3, <1>4

\* addResource always finds a slot, a free one or the next.
LEMMA FreeSlot ==
  ASSUME resources \in Seq(ResourceSlot)
  PROVE  /\ FreeIndex \in 1..(Len(resources) + 1)
         /\ FreeIndex \in DOMAIN resources => resources[FreeIndex].fd = 0
<1> DEFINE n == Len(resources) + 1
           Free(i) == i \in DOMAIN resources => resources[i].fd = 0
           T == {i \in 1..n : Free(i)}
<1>1. n \in Nat /\ n >= 1 /\ DOMAIN resources = 1..Len(resources) /\ Len(resources) \in Nat
  BY LenProperties
<1>2. n \in T
  BY <1>1
<1>3. PICK i \in T : \A j \in T : i <= j
  <2>1. T \subseteq Nat /\ T # {}
    BY <1>1, <1>2
  <2> HIDE DEF T
  <2> QED
    BY <2>1, Least
<1>4. i \in 1..n /\ Free(i)
  OBVIOUS
<1>5. \A j \in 1..(i - 1) : resources[j].fd # 0
  <2> SUFFICES ASSUME NEW j \in 1..(i - 1), resources[j].fd = 0 PROVE FALSE
    OBVIOUS
  <2>1. j \in 1..n /\ j < i
    BY <1>1, <1>4
  <2>2. j \in T
    BY <2>1
  <2> HIDE DEF T
  <2> QED
    BY <1>3, <2>1, <2>2, <1>4, <1>1
<1>6. \E k \in 1..(Len(resources) + 1) :
        /\ k \in DOMAIN resources => resources[k].fd = 0
        /\ \A j \in 1..(k - 1) : resources[j].fd # 0
  BY <1>4, <1>5
<1> QED
  BY <1>6, Zenon DEF FreeIndex

\* A table with one more file.
LEMMA SlotOpened ==
  ASSUME resources \in Seq(ResourceSlot), NEW fd \in Request,
         NEW i \in 1..(Len(resources) + 1)
  PROVE  LET table == WithResource(i, fd) IN
         /\ table \in Seq(ResourceSlot)
         /\ DOMAIN table = DOMAIN resources \cup {i}
         /\ table[i].fd = fd /\ table[i].generation \in 1..MaxGeneration
         /\ i \in DOMAIN resources =>
              /\ table[i].generation = resources[i].generation
              /\ table[i].closes = resources[i].closes
         /\ i \notin DOMAIN resources => table[i].generation = 1 /\ table[i].closes = 0
         /\ \A j \in DOMAIN resources : j # i => table[j] = resources[j]
<1>1. DOMAIN resources = 1..Len(resources) /\ Len(resources) \in Nat
  BY LenProperties
<1>2. \A g \in 1..MaxGeneration, c \in Nat :
        /\ OpenSlot(fd, g, c) \in ResourceSlot
        /\ OpenSlot(fd, g, c).fd = fd /\ OpenSlot(fd, g, c).generation = g
        /\ OpenSlot(fd, g, c).closes = c
  BY BoundAssumption DEF OpenSlot, ResourceSlot, Request
<1>3. CASE i \in DOMAIN resources
  <2> DEFINE slot == OpenSlot(fd, resources[i].generation, resources[i].closes)
  <2>1. WithResource(i, fd) = [resources EXCEPT ![i] = slot]
    BY <1>3 DEF WithResource
  <2>2. /\ resources[i].generation \in 1..MaxGeneration
        /\ resources[i].closes \in Nat
    <3>1. resources[i] \in ResourceSlot
      BY <1>1, <1>3, ElementOfSeq
    <3> QED
      BY <3>1 DEF ResourceSlot
  <2>3. /\ slot \in ResourceSlot /\ slot.fd = fd
        /\ slot.generation = resources[i].generation /\ slot.closes = resources[i].closes
    BY <1>2, <2>2
  <2> HIDE DEF slot
  <2>4. /\ [resources EXCEPT ![i] = slot] \in Seq(ResourceSlot)
        /\ DOMAIN [resources EXCEPT ![i] = slot] = DOMAIN resources
        /\ \A j \in DOMAIN resources :
             [resources EXCEPT ![i] = slot][j] = IF j = i THEN slot ELSE resources[j]
    BY <1>1, <1>3, <2>3, ExceptSeq
  <2> QED
    BY <1>3, <2>1, <2>2, <2>3, <2>4
<1>4. CASE i \notin DOMAIN resources
  <2> DEFINE slot == OpenSlot(fd, 1, 0)
  <2>0. i = Len(resources) + 1
    BY <1>1, <1>4
  <2>1. WithResource(i, fd) = Append(resources, slot)
    BY <1>4 DEF WithResource
  <2>2. /\ slot \in ResourceSlot /\ slot.fd = fd
        /\ slot.generation = 1 /\ slot.closes = 0 /\ 1 \in 1..MaxGeneration
    BY <1>2, BoundAssumption
  <2> HIDE DEF slot
  <2>3. /\ Append(resources, slot) \in Seq(ResourceSlot)
        /\ DOMAIN Append(resources, slot) = 1..(Len(resources) + 1)
        /\ \A j \in 1..Len(resources) : Append(resources, slot)[j] = resources[j]
        /\ Append(resources, slot)[Len(resources) + 1] = slot
    BY <2>2, Added, LenProperties, Len(Append(resources, slot)) = Len(resources) + 1
  <2>4. DOMAIN Append(resources, slot) = DOMAIN resources \cup {i}
    BY <1>1, <2>0, <2>3
  <2> QED
    BY <1>1, <1>4, <2>0, <2>1, <2>2, <2>3, <2>4
<1> QED
  BY <1>3, <1>4

\* A table with one file less.
LEMMA SlotClosed ==
  ASSUME NEW table \in Seq(ResourceSlot), NEW i \in DOMAIN table
  PROVE  /\ WithoutResource(table, i) \in Seq(ResourceSlot)
         /\ DOMAIN WithoutResource(table, i) = DOMAIN table
         /\ WithoutResource(table, i)[i] = ClosedSlot(table[i])
         /\ \A j \in DOMAIN table : j # i => WithoutResource(table, i)[j] = table[j]
         /\ ClosedSlot(table[i]).fd = 0
         /\ ClosedSlot(table[i]).closes = table[i].closes + 1
         /\ table[i].closes \in Nat /\ table[i].generation \in 1..MaxGeneration
         /\ table[i].generation # MaxGeneration =>
              ClosedSlot(table[i]).generation = table[i].generation + 1
<1>1. DOMAIN table = 1..Len(table) /\ Len(table) \in Nat /\ table[i] \in ResourceSlot
  BY LenProperties, ElementOfSeq
<1>2. table[i].closes \in Nat /\ table[i].generation \in 1..MaxGeneration
  BY <1>1 DEF ResourceSlot
<1>3. /\ ClosedSlot(table[i]).fd = 0
      /\ ClosedSlot(table[i]).closes = table[i].closes + 1
      /\ table[i].generation # MaxGeneration =>
           ClosedSlot(table[i]).generation = table[i].generation + 1
      /\ ClosedSlot(table[i]) \in ResourceSlot
  <2>1. PICK g \in 1..MaxGeneration : g = table[i].generation
    BY <1>2
  <2>2. PICK n \in Nat : n = table[i].closes
    BY <1>2
  <2>3. PICK h : h = IF g = MaxGeneration THEN 1 ELSE g + 1
    OBVIOUS
  <2>4. h \in 1..MaxGeneration /\ n + 1 \in Nat /\ 0 \in 0..MaxRequests
    BY <2>1, <2>3, BoundAssumption
  <2>5. ClosedSlot(table[i]) = [fd |-> 0, closes |-> n + 1, generation |-> h]
    BY <2>1, <2>2, <2>3, Zenon DEF ClosedSlot
  <2> QED
    BY <2>1, <2>2, <2>3, <2>4, <2>5 DEF ResourceSlot
<1>4. /\ [table EXCEPT ![i] = ClosedSlot(table[i])] \in Seq(ResourceSlot)
      /\ Len([table EXCEPT ![i] = ClosedSlot(table[i])]) = Len(table)
      /\ \A j \in 1..Len(table) : [table EXCEPT ![i] = ClosedSlot(table[i])][j] =
           IF j = i THEN ClosedSlot(table[i]) ELSE table[j]
  BY <1>1, <1>3, ExceptSeq
<1>5. WithoutResource(table, i) = [table EXCEPT ![i] = ClosedSlot(table[i])]
  BY DEF WithoutResource
<1> QED
  BY <1>1, <1>2, <1>3, <1>4, <1>5

-----------------------------------------------------------------------------
(* What Host.dispatch does, whichever command it executes.                 *)

\* The payload goes along with the answer, is released before it, or is still
\* to be released after it.
Handed(c) == c.payload.buffer = current.payload.buffer /\ Answer(c)

Freed(c) == c.payload = NoPayload /\ ReleaseAndAnswer(current, c)

Kept(c) == c.payload = NoPayload /\ AnswerAndDefer(c)

\* The table of resources stays, loses a file or has a new one.
Untouched(c) == resources' = resources /\ ~(c.ok /\ c.operation = "resource_open")

ClosesOne(c) ==
  /\ c.operation = "resource_close"
  /\ \E i \in DOMAIN resources :
       resources[i].fd # 0 /\ resources' = WithoutResource(resources, i)

OpensOne(c, i) ==
  /\ c.ok /\ c.operation = "resource_open"
  /\ i \in 1..(Len(resources) + 1)
  /\ i \in DOMAIN resources => resources[i].fd = 0
  /\ c.resource_id = [index |-> i,
                      generation |-> WithResource(i, c.request_id)[i].generation]
  /\ Opened(c, WithResource(i, c.request_id), i)

\* A submit or a cancel is answered with c.
Replies(c) ==
  /\ current # None /\ c \in Completion
  /\ current.kind \in {"submit", "cancel"}
  /\ c.request_id = current.request_id
  /\ c.ok => current.kind = "submit"

Executes(c) ==
  /\ Replies(c)
  /\ Handed(c) \/ Freed(c) \/ Kept(c)
  /\ Untouched(c) \/ ClosesOne(c) \/ (\E i \in 1..(Len(resources) + 1) : OpensOne(c, i))

\* An event is not answered.
Ignores ==
  /\ current # None /\ current.kind = "event"
  /\ refs' = ReleaseIn(refs, current.payload)
  /\ current' = None
  /\ UNCHANGED <<to_engine, resources, unsent, dropped>>

\* Every path through Host.dispatch is one of these.
LEMMA Executions ==
  ASSUME Typed, HostExecute
  PROVE  Ignores \/ \E c : Executes(c)
<1>1. current \in HostCommand /\ current # None
  BY DEF HostExecute, Typed
<1>2. /\ current.resource_id \in ResourceId /\ current.payload \in Payload
      /\ NoPayload \in Payload
  BY <1>1, BoundAssumption DEF HostCommand, NoPayload, Payload
<1>3. ASSUME unsupported(current), UNCHANGED resources, current.kind \in {"submit", "cancel"}
      PROVE  \E c : Executes(c)
  <2> DEFINE c == completionWith(current, current.resource_id, FALSE, NoPayload)
  <2>1. /\ c \in Completion /\ c.request_id = current.request_id
        /\ c.ok = FALSE /\ c.payload = NoPayload
    BY <1>1, <1>2, <1>3, EmptyCompletions
  <2>2. ReleaseAndAnswer(current, c)
    BY <1>3 DEF unsupported, errorFor
  <2> HIDE DEF c
  <2> QED
    BY <1>1, <1>3, <2>1, <2>2 DEF Executes, Replies, Freed, Untouched
<1>4. ASSUME AnswerAndDefer(errorFor(current, NoPayload)), UNCHANGED resources,
             current.kind = "submit"
      PROVE  \E c : Executes(c)
  <2> DEFINE c == completionWith(current, current.resource_id, FALSE, NoPayload)
  <2>1. /\ c \in Completion /\ c.request_id = current.request_id
        /\ c.ok = FALSE /\ c.payload = NoPayload
    BY <1>1, <1>2, <1>4, EmptyCompletions
  <2>2. AnswerAndDefer(c)
    BY <1>4 DEF errorFor
  <2> HIDE DEF c
  <2> QED
    BY <1>1, <1>4, <2>1, <2>2 DEF Executes, Replies, Kept, Untouched
<1>5. ASSUME current.kind = "submit", current.operation = "resource_open", openFile(current)
      PROVE  \E c : Executes(c)
  <2> DEFINE i == FreeIndex
             table == WithResource(i, current.request_id)
             id == [index |-> i, generation |-> table[i].generation]
             c == completionWith(current, id, TRUE, NoPayload)
  <2>1. CASE /\ i <= MaxResources /\ Opened(c, table, i)
             /\ current' = Releasing(current) /\ UNCHANGED refs
    <3>1. /\ i \in 1..(Len(resources) + 1)
          /\ i \in DOMAIN resources => resources[i].fd = 0
      BY FreeSlot DEF Typed
    <3>2. table[i].generation \in 1..MaxGeneration
      <4>1. current.request_id \in Request /\ resources \in Seq(ResourceSlot)
        BY <1>1, <1>5, Commands DEF Typed
      <4> HIDE DEF i
      <4> QED
        BY <3>1, <4>1, SlotOpened
    <3>3. id \in ResourceId
      <4>1. i \in 0..MaxResources /\ table[i].generation \in 0..MaxGeneration
        BY <2>1, <3>1, <3>2, LenProperties, BoundAssumption DEF Typed
      <4> QED
        BY <4>1 DEF ResourceId
    <3>4. /\ c \in Completion /\ c.request_id = current.request_id
          /\ c.ok = TRUE /\ c.payload = NoPayload /\ c.resource_id = id
          /\ c.operation = "resource_open"
      <4> HIDE DEF id
      <4> QED
        BY <1>1, <1>2, <1>5, <3>3, EmptyCompletions
    <3>5. Sent(c) \/ NotSent(c)
      BY <2>1 DEF Opened
    <3> HIDE DEF c, i
    <3>6. OpensOne(c, i)
      BY <2>1, <3>1, <3>4 DEF OpensOne
    <3>7. Kept(c)
      BY <2>1, <3>4, <3>5 DEF Kept, AnswerAndDefer
    <3> QED
      BY <1>1, <1>5, <3>1, <3>4, <3>6, <3>7 DEF Executes, Replies
  <2> QED
    BY <1>3, <1>4, <1>5, <2>1 DEF openFile
<1>6. ASSUME current.kind = "submit", current.operation = "resource_close",
             closeResource(current)
      PROVE  \E c : Executes(c)
  <2>1. CASE getResource(current.resource_id)
    <3> DEFINE c == completionWith(current, current.resource_id, TRUE, NoPayload)
               i == current.resource_id.index
    <3>1. /\ c \in Completion /\ c.request_id = current.request_id
          /\ c.operation = "resource_close" /\ c.payload = NoPayload
      BY <1>1, <1>2, <1>6, EmptyCompletions
    <3>2. /\ ReleaseAndAnswer(current, c)
          /\ resources' = WithoutResource(resources, i)
          /\ i \in DOMAIN resources /\ resources[i].fd # 0
      BY <1>6, <2>1 DEF closeResource, completionFor, getResource
    <3> HIDE DEF c, i
    <3> QED
      BY <1>1, <1>6, <3>1, <3>2 DEF Executes, Replies, Freed, ClosesOne
  <2>2. CASE ~getResource(current.resource_id)
    BY <1>3, <1>6, <2>2 DEF closeResource, unsupported
  <2> QED
    BY <2>1, <2>2
<1>7. ASSUME current.kind = "submit", current.operation = "resource_read",
             readResource(current)
      PROVE  \E c : Executes(c)
  <2>1. ASSUME NEW ok \in BOOLEAN, NEW p \in Payload, p.buffer = current.payload.buffer,
               p.length <= current.payload.length,
               Answer(completionWith(current, current.resource_id, ok, p))
        PROVE  \E c : Executes(c)
    <3> DEFINE c == completionWith(current, current.resource_id, ok, p)
    <3>1. /\ c \in Completion /\ c.request_id = current.request_id
          /\ c.operation = "resource_read" /\ c.payload = p
      BY <1>1, <1>2, <1>7, <2>1, NewCompletions
    <3>2. Answer(c) /\ resources' = resources
      BY <1>7, <2>1 DEF readResource
    <3> HIDE DEF c
    <3> QED
      BY <1>1, <1>7, <2>1, <3>1, <3>2 DEF Executes, Replies, Handed, Untouched
  <2>2. CASE Answer(errorFor(current, current.payload))
    <3>1. current.payload.length <= current.payload.length
      BY <1>1, Commands
    <3> QED
      BY <1>2, <2>1, <2>2, <3>1 DEF errorFor
  <2>3. ASSUME NEW n \in 0..current.payload.length,
               Answer(completionWith(current, current.resource_id, TRUE,
                                     [buffer |-> current.payload.buffer, length |-> n]))
        PROVE  \E c : Executes(c)
    <3>1. n \in 0..1 /\ n <= current.payload.length
      BY <1>1, Commands
    <3>2. [buffer |-> current.payload.buffer, length |-> n] \in Payload
      BY <1>1, <3>1, Commands DEF Payload
    <3> QED
      BY <2>1, <2>3, <3>1, <3>2
  <2> QED
    BY <1>7, <2>2, <2>3 DEF readResource
<1>8. ASSUME current.kind = "submit", current.operation = "resource_write",
             writeResource(current)
      PROVE  \E c : Executes(c)
  <2>1. CASE AnswerAndDefer(completionFor(current))
    <3> DEFINE c == completionWith(current, current.resource_id, TRUE, NoPayload)
    <3>1. /\ c \in Completion /\ c.request_id = current.request_id
          /\ c.operation = "resource_write" /\ c.payload = NoPayload
      BY <1>1, <1>2, <1>8, EmptyCompletions
    <3>2. AnswerAndDefer(c) /\ resources' = resources
      BY <1>8, <2>1 DEF writeResource, completionFor
    <3> HIDE DEF c
    <3> QED
      BY <1>1, <1>8, <3>1, <3>2 DEF Executes, Replies, Kept, Untouched
  <2> QED
    BY <1>4, <1>8, <2>1 DEF writeResource
<1>9. CASE current.kind = "event"
  BY <1>1, <1>9 DEF HostExecute, Ignores
<1>10. CASE current.kind = "cancel"
  BY <1>3, <1>10 DEF HostExecute
<1>11. CASE current.kind = "submit"
  BY <1>5, <1>6, <1>7, <1>8, <1>11 DEF HostExecute
<1> QED
  BY <1>9, <1>10, <1>11 DEF HostExecute

\* Either way the answer is sent or not.
LEMMA SentOrNot ==
  ASSUME NEW c, Executes(c)
  PROVE  /\ Sent(c) \/ NotSent(c)
         /\ current' \in {None, Releasing(current)}
  BY DEF Executes, Handed, Freed, Kept, Answer, ReleaseAndAnswer, AnswerAndDefer

-----------------------------------------------------------------------------
(* Typing.                                                                 *)

\* The commands the bridge sends are of the channel's type.
LEMMA NewCommands ==
  ASSUME Typed
  PROVE  /\ \A operation \in Operation, resource \in ResourceId :
              next_request_id \in Request =>
                /\ Submit(operation, resource, PayloadOf(operation)) \in HostCommand
                /\ Submit(operation, resource, PayloadOf(operation)).request_id
                     = next_request_id
                /\ Submit(operation, resource, PayloadOf(operation)).kind = "submit"
                /\ Submit(operation, resource, PayloadOf(operation)).payload
                     = PayloadOf(operation)
         /\ \A operation \in Operation : Event(operation) \in HostCommand
         /\ NoResource \in ResourceId
<1>1. NoPayload \in Payload /\ NoResource \in ResourceId /\ 0 \in 0..MaxRequests
  BY BoundAssumption DEF NoPayload, Payload, NoResource, ResourceId
<1>2. \A operation \in Operation : Event(operation) \in HostCommand
  BY <1>1 DEF Event, HostCommand
<1>3. ASSUME NEW operation \in Operation, NEW resource \in ResourceId,
             next_request_id \in Request
      PROVE  /\ Submit(operation, resource, PayloadOf(operation)) \in HostCommand
             /\ Submit(operation, resource, PayloadOf(operation)).request_id
                  = next_request_id
             /\ Submit(operation, resource, PayloadOf(operation)).kind = "submit"
             /\ Submit(operation, resource, PayloadOf(operation)).payload
                  = PayloadOf(operation)
  <2>1. next_request_id \in 0..MaxRequests
    BY <1>3 DEF Request
  <2>2. [buffer |-> next_request_id, length |-> 1] \in Payload
    BY <2>1 DEF Payload
  <2>3. \/ PayloadOf(operation) = NoPayload
        \/ PayloadOf(operation) = [buffer |-> next_request_id, length |-> 1]
    BY DEF PayloadOf
  <2> QED
    BY <1>1, <1>3, <2>1, <2>2, <2>3 DEF Submit, HostCommand
<1> QED
  BY <1>1, <1>2, <1>3

\* A cancellation is of the channel's type.
LEMMA NewCancel ==
  ASSUME NEW id \in Request, NEW operation \in Operation
  PROVE  LET m == [kind |-> "cancel", operation |-> operation, request_id |-> id,
                   resource_id |-> NoResource, ok |-> TRUE, payload |-> NoPayload]
         IN m \in HostCommand
  BY BoundAssumption DEF NoPayload, Payload, NoResource, ResourceId, HostCommand, Request

\* A command is still one while its payload is to be released.
LEMMA Releases ==
  ASSUME NEW m \in HostCommand, m.kind # "event"
  PROVE  /\ Releasing(m) \in HostCommand /\ Releasing(m).payload = m.payload
         /\ Releasing(m).request_id = m.request_id /\ Releasing(m).kind = "release"
  BY DEF Releasing, HostCommand

\* Releasing a payload and dropping one keep the types.
LEMMA ReleaseTyped ==
  ASSUME NEW r \in [Request -> Int], NEW d \in SUBSET Request,
         NEW m \in HostCommand \cup Completion
  PROVE  ReleaseIn(r, m.payload) \in [Request -> Int] /\ DropIn(d, m.payload) \subseteq Request
<1>1. m.payload.buffer = 0 \/ m.payload.buffer \in Request
  BY Commands, Completions
<1>2. m.payload.buffer \in Request => r[m.payload.buffer] - 1 \in Int
  OBVIOUS
<1>3. m.payload.buffer = 0 => isEmpty(m.payload)
  BY Commands, Completions
<1> QED
  BY <1>1, <1>2, <1>3 DEF ReleaseIn, DropIn

\* Every step keeps the types.
LEMMA TypedStep == Typed /\ [Next]_vars => Typed'
<1> SUFFICES ASSUME Typed, [Next]_vars PROVE Typed'
  OBVIOUS
<1>1. CASE UNCHANGED vars
  BY <1>1 DEF vars, Typed
<1>2. CASE EngineStarts
  <2>1. to_host' \in Seq(HostCommand)
    <3>1. to_host \in Seq(HostCommand) /\ Event("engine_started") \in HostCommand
      BY NewCommands DEF Typed, Operation
    <3>2. to_host' = to_host \/ to_host' = Append(to_host, Event("engine_started"))
      BY <1>2 DEF EngineStarts
    <3> QED
      BY <3>1, <3>2, Added
  <2> QED
    BY <1>2, <2>1 DEF EngineStarts, hostVars, Typed
<1>3. ASSUME NEW operation \in Operation, NEW resource \in ResourceId,
             BridgeSubmit(operation, resource)
      PROVE  Typed'
  <2>1. next_request_id \in Request /\ next_request_id' \in 1..(MaxRequests + 1)
    BY <1>3, BoundAssumption DEF BridgeSubmit, Typed, Request
  <2>2. to_host' \in Seq(HostCommand)
    <3> DEFINE m == Submit(operation, resource, PayloadOf(operation))
    <3>1. to_host \in Seq(HostCommand) /\ m \in HostCommand
      BY <1>3, <2>1, NewCommands DEF Typed
    <3>2. to_host' = to_host \/ to_host' = Append(to_host, m)
      BY <1>3 DEF BridgeSubmit
    <3> HIDE DEF m
    <3> QED
      BY <3>1, <3>2, Added
  <2>3. handlers' \subseteq Request
    BY <1>3, <2>1 DEF BridgeSubmit, Typed
  <2>4. refs' \in [Request -> Int]
    BY <1>3, <2>1 DEF BridgeSubmit, Typed
  <2> QED
    BY <1>3, <2>1, <2>2, <2>3, <2>4 DEF BridgeSubmit, hostVars, Typed
<1>4. CASE BridgeCancel
  <2>1. to_host' \in Seq(HostCommand)
    <3>1. PICK id \in 1..(next_request_id - 1), operation \in {"resource_open", "resource_read"} :
       to_host' = Append(to_host,
         [kind |-> "cancel", operation |-> operation, request_id |-> id,
          resource_id |-> NoResource, ok |-> TRUE, payload |-> NoPayload])
      BY <1>4 DEF BridgeCancel
    <3>2. id \in Request /\ operation \in Operation
      BY BoundAssumption DEF Typed, Request, Operation
    <3> QED
      BY <3>1, <3>2, NewCancel, Added DEF Typed
  <2>2. cancels' \in 0..MaxCancels
    BY <1>4, BoundAssumption DEF BridgeCancel, Typed
  <2> QED
    BY <1>4, <2>1, <2>2 DEF BridgeCancel, hostVars, Typed
<1>5. CASE BridgePoll
  <2> DEFINE m == Head(to_engine)
  <2>1. m \in Completion /\ to_engine' \in Seq(Completion)
    BY <1>5, Taken DEF BridgePoll, Typed
  <2>2. m.request_id \in Request /\ m.resource_id \in ResourceId
    BY <2>1, Completions
  <2>3. Dispatch(m) /\ refs \in [Request -> Int] /\ dropped \subseteq Request
    BY <1>5 DEF BridgePoll, Typed
  <2> HIDE DEF m
  <2>4. refs' \in [Request -> Int] /\ dropped' \subseteq Request
    BY <2>1, <2>3, ReleaseTyped DEF Dispatch
  <2>5. handlers' \subseteq Request
    BY <2>3 DEF Dispatch, Typed
  <2>6. delivered' \in [Request -> Nat]
    <3>1. /\ delivered \in [Request -> Nat]
          /\ \/ delivered' = delivered
             \/ delivered' = [delivered EXCEPT ![m.request_id] = @ + 1]
      BY <2>3 DEF Dispatch, Typed
    <3>2. delivered[m.request_id] + 1 \in Nat
      BY <2>2, <3>1
    <3> QED
      BY <2>2, <3>1, <3>2
  <2>7. known' \subseteq [id : ResourceId, file : Request]
    BY <2>2, <2>3 DEF Dispatch, Typed
  <2> QED
    BY <1>5, <2>1, <2>4, <2>5, <2>6, <2>7 DEF BridgePoll, hostVars, Typed
<1>6. CASE HostReceive
  <2>1. current' \in HostCommand /\ to_host' \in Seq(HostCommand)
    BY <1>6, Taken DEF HostReceive, Typed
  <2> QED
    BY <1>6, <2>1 DEF HostReceive, vmVars, Typed
<1>7. CASE HostExecute
  <2>1. /\ handlers' = handlers /\ next_request_id' = next_request_id /\ known' = known
        /\ delivered' = delivered /\ cancels' = cancels /\ to_host' = to_host
        /\ stopping' = stopping
    BY <1>7 DEF HostExecute, vmVars
  <2>2. current \in HostCommand /\ refs \in [Request -> Int] /\ dropped \subseteq Request
    BY <1>7 DEF HostExecute, Typed
  <2>3. CASE Ignores
    <3>1. refs' \in [Request -> Int]
      BY <2>2, <2>3, ReleaseTyped DEF Ignores
    <3> QED
      BY <2>1, <2>3, <3>1 DEF Ignores, Typed
  <2>4. ASSUME NEW c, Executes(c) PROVE Typed'
    <3>1. c \in Completion /\ c.request_id \in Request /\ current.kind # "event"
      BY <2>4, Completions DEF Executes, Replies
    <3>2. refs' \in [Request -> Int]
      BY <2>2, <2>4, <3>1, ReleaseTyped
      DEF Executes, Handed, Freed, Kept, Answer, ReleaseAndAnswer, AnswerAndDefer
    <3>3. /\ to_engine' \in Seq(Completion)
          /\ unsent' \subseteq Request /\ dropped' \subseteq Request
      <4>1. to_engine \in Seq(Completion) /\ unsent \subseteq Request
        BY DEF Typed
      <4>2. CASE Sent(c)
        BY <2>2, <3>1, <4>1, <4>2, Added DEF Sent
      <4>3. CASE NotSent(c)
        BY <2>2, <3>1, <4>1, <4>3, ReleaseTyped DEF NotSent
      <4> QED
        BY <2>4, <4>2, <4>3, SentOrNot
    <3>4. current' \in HostCommand \cup {None}
      BY <2>2, <2>4, <3>1, SentOrNot, Releases
    <3>5. resources' \in Seq(ResourceSlot)
      <4>1. CASE Untouched(c)
        BY <4>1 DEF Untouched, Typed
      <4>2. CASE ClosesOne(c)
        BY <4>2, SlotClosed DEF ClosesOne, Typed
      <4>3. ASSUME NEW i \in 1..(Len(resources) + 1), OpensOne(c, i)
            PROVE  resources' \in Seq(ResourceSlot)
        <5>1. /\ WithResource(i, c.request_id) \in Seq(ResourceSlot)
              /\ i \in DOMAIN WithResource(i, c.request_id)
          <6>1. resources \in Seq(ResourceSlot)
            BY DEF Typed
          <6>2. PICK fd \in Request : fd = c.request_id
            BY <3>1
          <6>3. i \in DOMAIN resources \cup {i}
            OBVIOUS
          <6>4. /\ WithResource(i, fd) \in Seq(ResourceSlot)
                /\ DOMAIN WithResource(i, fd) = DOMAIN resources \cup {i}
            BY <6>1, SlotOpened
          <6> QED
            BY <6>2, <6>3, <6>4
        <5>2. \/ resources' = WithResource(i, c.request_id)
              \/ resources' = WithoutResource(WithResource(i, c.request_id), i)
          BY <4>3 DEF OpensOne, Opened
        <5> QED
          BY <5>1, <5>2, SlotClosed
      <4> QED
        BY <2>4, <4>1, <4>2, <4>3 DEF Executes
    <3> QED
      BY <2>1, <3>2, <3>3, <3>4, <3>5 DEF Typed
  <2> QED
    BY <1>7, <2>3, <2>4, Executions
<1>8. CASE HostRelease
  <2>1. refs' \in [Request -> Int]
    BY <1>8, ReleaseTyped DEF HostRelease, Typed
  <2> QED
    BY <1>8, <2>1 DEF HostRelease, vmVars, Typed
<1>9. CASE HostSeesStopping
  BY <1>9 DEF HostSeesStopping, vmVars, Typed
<1>10. CASE HostReturns
  BY <1>10 DEF HostReturns, vmVars, Typed
<1>11. CASE RunReturns
  <2>1. to_host' \in Seq(HostCommand)
    <3>1. to_host \in Seq(HostCommand) /\ Event("engine_stopped") \in HostCommand
      BY NewCommands DEF Typed, Operation
    <3>2. to_host' = to_host \/ to_host' = Append(to_host, Event("engine_stopped"))
      BY <1>11 DEF RunReturns
    <3> QED
      BY <3>1, <3>2, Added
  <2> QED
    BY <1>11, <2>1 DEF RunReturns, hostVars, Typed
<1>12. CASE HostDeinit
  BY <1>12 DEF HostDeinit, Typed
<1>13. CASE HostJoined
  BY <1>13, EmptySeq DEF HostJoined, Typed
<1>14. CASE EngineDestroyed
  <2>1. refs' \in [Request -> Int]
    BY <1>14 DEF EngineDestroyed
  <2> QED
    BY <1>14, <2>1 DEF EngineDestroyed, hostVars, Typed
<1>15. submitOpen => Typed'
  BY <1>3, NewCommands DEF submitOpen, Operation
<1>16. ASSUME NEW operation \in Operation, submitOn(operation) PROVE Typed'
  <2>1. PICK k \in known : BridgeSubmit(operation, k.id)
    BY <1>16 DEF submitOn
  <2>2. k.id \in ResourceId
    BY DEF Typed
  <2> QED
    BY <1>3, <2>1, <2>2
<1> QED
  BY <1>1, <1>2, <1>4, <1>5, <1>6, <1>7, <1>8, <1>9, <1>10, <1>11, <1>12,
     <1>13, <1>14, <1>15, <1>16
  DEF Next, Client, HostStep, Teardown, Operation

\* The state is well typed.
LEMMA Typing == Spec => []Typed
<1>1. Init => Typed
  <2> SUFFICES ASSUME Init PROVE Typed
    OBVIOUS
  <2>1. next_request_id \in 1..(MaxRequests + 1) /\ cancels \in 0..MaxCancels
    BY BoundAssumption DEF Init
  <2>2. /\ to_host \in Seq(HostCommand) /\ to_engine \in Seq(Completion)
        /\ resources \in Seq(ResourceSlot)
    BY EmptySeq DEF Init
  <2>3. refs \in [Request -> Int] /\ delivered \in [Request -> Nat]
    BY DEF Init
  <2> QED
    BY <2>1, <2>2, <2>3 DEF Init, Typed
<1> QED
  BY <1>1, TypedStep, PTL DEF Spec

-----------------------------------------------------------------------------
(* Handlers.                                                               *)

\* A message more leaves a request awaited.
LEMMA AwaitedSent ==
  ASSUME NEW id, NEW h \in Seq(HostCommand), NEW e \in Seq(Completion), NEW c, NEW u,
         Awaited(id, h, e, c, u)
  PROVE  /\ \A m \in HostCommand : Awaited(id, Append(h, m), e, c, u)
         /\ \A m \in Completion : Awaited(id, h, Append(e, m), c, u)
<1>1. ASSUME NEW m \in HostCommand PROVE Awaited(id, Append(h, m), e, c, u)
  <2>1. /\ Len(h) \in Nat /\ Len(Append(h, m)) = Len(h) + 1
        /\ \A i \in 1..Len(h) : Append(h, m)[i] = h[i]
    BY Added
  <2>2. \A i \in 1..Len(h) : i \in 1..Len(Append(h, m))
    BY <2>1
  <2> QED
    BY <2>1, <2>2 DEF Awaited
<1>2. ASSUME NEW m \in Completion PROVE Awaited(id, h, Append(e, m), c, u)
  <2>1. /\ Len(e) \in Nat /\ Len(Append(e, m)) = Len(e) + 1
        /\ \A i \in 1..Len(e) : Append(e, m)[i] = e[i]
    BY Added
  <2>2. \A i \in 1..Len(e) : i \in 1..Len(Append(e, m))
    BY <2>1
  <2> QED
    BY <2>1, <2>2 DEF Awaited
<1> QED
  BY <1>1, <1>2

\* A request is still awaited when another's answer has been dispatched, and
\* when the host has taken a command.
LEMMA AwaitedTaken ==
  ASSUME NEW id, NEW h \in Seq(HostCommand), NEW e \in Seq(Completion), NEW c, NEW u,
         Awaited(id, h, e, c, u)
  PROVE  /\ e # <<>> /\ Head(e).request_id # id => Awaited(id, h, Tail(e), c, u)
         /\ h # <<>> /\ c = None => Awaited(id, Tail(h), e, Head(h), u)
<1>1. ASSUME e # <<>>, Head(e).request_id # id PROVE Awaited(id, h, Tail(e), c, u)
  <2>1. /\ Head(e) = e[1] /\ Len(Tail(e)) = Len(e) - 1 /\ Len(e) \in Nat
        /\ \A i \in 1..Len(Tail(e)) : Tail(e)[i] = e[i + 1]
    BY <1>1, Taken
  <2>2. \A i \in 1..Len(e) : i # 1 => i - 1 \in 1..Len(Tail(e)) /\ Tail(e)[i - 1] = e[i]
    BY <2>1
  <2> QED
    <3>1. CASE \E i \in 1..Len(e) : e[i].request_id = id
      <4>1. PICK i \in 1..Len(e) : e[i].request_id = id
        BY <3>1
      <4>2. i - 1 \in 1..Len(Tail(e)) /\ Tail(e)[i - 1] = e[i]
        BY <1>1, <2>1, <2>2, <4>1
      <4> QED
        BY <4>1, <4>2, Zenon DEF Awaited
    <3>2. CASE ~\E i \in 1..Len(e) : e[i].request_id = id
      BY <3>2 DEF Awaited
    <3> QED
      BY <3>1, <3>2
<1>2. ASSUME h # <<>>, c = None PROVE Awaited(id, Tail(h), e, Head(h), u)
  <2>1. /\ Head(h) = h[1] /\ Len(Tail(h)) = Len(h) - 1 /\ Len(h) \in Nat
        /\ \A i \in 1..Len(Tail(h)) : Tail(h)[i] = h[i + 1]
        /\ h[1] \in HostCommand
    BY <1>2, Taken
  <2>2. \A i \in 1..Len(h) : i # 1 => i - 1 \in 1..Len(Tail(h)) /\ Tail(h)[i - 1] = h[i]
    BY <2>1
  <2>3. Head(h) # None
    BY <2>1, Commands
  <2> QED
    <3>1. CASE \E i \in 1..Len(h) : h[i].request_id = id /\ h[i].kind = "submit"
      <4>1. PICK i \in 1..Len(h) : h[i].request_id = id /\ h[i].kind = "submit"
        BY <3>1
      <4>2. CASE i = 1
        BY <2>1, <2>3, <4>1, <4>2 DEF Awaited
      <4>3. CASE i # 1
        <5>1. i - 1 \in 1..Len(Tail(h)) /\ Tail(h)[i - 1] = h[i]
          BY <2>2, <4>3
        <5> QED
          BY <4>1, <5>1, Zenon DEF Awaited
      <4> QED
        BY <4>2, <4>3
    <3>2. CASE (\E i \in 1..Len(e) : e[i].request_id = id) \/ id \in u
      BY <3>2 DEF Awaited
    <3>3. \/ \E i \in 1..Len(h) : h[i].request_id = id /\ h[i].kind = "submit"
          \/ \E i \in 1..Len(e) : e[i].request_id = id
          \/ id \in u
      BY <1>2 DEF Awaited
    <3> QED
      BY <3>1, <3>2, <3>3
<1> QED
  BY <1>1, <1>2

\* A command is answered, or its answer is noted as unsent.
LEMMA AwaitedAnswered ==
  ASSUME NEW id, NEW h, NEW e \in Seq(Completion), NEW c \in HostCommand, NEW u,
         Awaited(id, h, e, c, u), NEW d, NEW m \in Completion,
         m.request_id = c.request_id
  PROVE  /\ Awaited(id, h, Append(e, m), d, u)
         /\ Awaited(id, h, e, d, u \cup {m.request_id})
<1>1. /\ Len(e) \in Nat /\ Len(Append(e, m)) = Len(e) + 1
      /\ \A i \in 1..Len(e) : Append(e, m)[i] = e[i]
      /\ Append(e, m)[Len(e) + 1] = m
  BY Added
<1>2. /\ \A i \in 1..Len(e) : i \in 1..Len(Append(e, m))
      /\ Len(e) + 1 \in 1..Len(Append(e, m))
  BY <1>1
<1>3. Awaited(id, h, Append(e, m), d, u)
  BY <1>1, <1>2 DEF Awaited
<1>4. Awaited(id, h, e, d, u \cup {m.request_id})
  BY DEF Awaited
<1> QED
  BY <1>3, <1>4

\* Every step keeps the account of handlers.
LEMMA HandlersStep == Typed /\ HandlersInv /\ [Next]_vars => HandlersInv'
<1> SUFFICES ASSUME Typed, HandlersInv, [Next]_vars PROVE HandlersInv'
  OBVIOUS
<1> DEFINE Quiet == /\ handlers' = handlers /\ delivered' = delivered
                    /\ next_request_id' = next_request_id
<1>a. /\ to_host \in Seq(HostCommand) /\ to_engine \in Seq(Completion)
      /\ next_request_id \in Nat
  BY DEF Typed
<1>b. ASSUME Quiet, engine' # "destroyed" => engine # "destroyed",
             ASSUME NEW id, Awaited(id, to_host, to_engine, current, unsent)
             PROVE  Awaited(id, to_host, to_engine, current, unsent)'
      PROVE  HandlersInv'
  BY <1>b DEF HandlersInv
<1>1. CASE UNCHANGED vars
  BY <1>1 DEF vars, HandlersInv
<1>2. CASE EngineStarts
  <2>1. /\ to_host' = to_host \/ to_host' = Append(to_host, Event("engine_started"))
        /\ Event("engine_started") \in HostCommand
        /\ UNCHANGED <<to_engine, current, unsent>> /\ Quiet /\ engine # "destroyed"
    BY <1>2, NewCommands DEF EngineStarts, Operation, hostVars
  <2> QED
    BY <1>a, <1>b, <2>1, AwaitedSent
<1>3. ASSUME NEW operation \in Operation, NEW resource \in ResourceId,
             BridgeSubmit(operation, resource)
      PROVE  HandlersInv'
  <2> DEFINE m == Submit(operation, resource, PayloadOf(operation))
             n == next_request_id
  <2>1. /\ n \in Request /\ n' = n + 1 /\ engine' = engine /\ engine # "destroyed"
        /\ delivered' = delivered /\ to_engine' = to_engine /\ current' = current
        /\ unsent' = unsent
        /\ \/ to_host' = Append(to_host, m) /\ handlers' = handlers \cup {n}
           \/ to_host' = to_host /\ handlers' = handlers
    BY <1>3 DEF BridgeSubmit, hostVars
  <2>2. m \in HostCommand /\ m.request_id = n /\ m.kind = "submit"
    BY <1>3, <2>1, NewCommands
  <2> HIDE DEF m
  <2>3. \A id \in handlers : Awaited(id, to_host', to_engine', current', unsent')
    <3>1. \A id \in handlers : Awaited(id, to_host, to_engine, current, unsent)
      BY <2>1 DEF HandlersInv
    <3>2. \A id \in handlers : Awaited(id, Append(to_host, m), to_engine, current, unsent)
      BY <1>a, <2>2, <3>1, AwaitedSent
    <3> QED
      BY <2>1, <3>1, <3>2
  <2>4. to_host' = Append(to_host, m) => Awaited(n, to_host', to_engine', current', unsent')
    <3>1. /\ Len(Append(to_host, m)) = Len(to_host) + 1 /\ Len(to_host) \in Nat
          /\ Append(to_host, m)[Len(to_host) + 1] = m
      BY <1>a, <2>2, Added
    <3>2. Len(to_host) + 1 \in 1..Len(Append(to_host, m))
      BY <3>1
    <3> QED
      BY <2>2, <3>1, <3>2 DEF Awaited
  <2>5. \A id \in handlers' : Awaited(id, to_host', to_engine', current', unsent')
    BY <2>1, <2>3, <2>4
  <2>6. ASSUME NEW id \in Request
        PROVE  /\ delivered'[id] <= 1
               /\ delivered'[id] > 0 => id \notin handlers'
               /\ id >= n' => id \notin handlers' /\ delivered'[id] = 0
    <3>1. id >= n + 1 => id >= n /\ id # n
      BY <2>1 DEF Request
    <3>2. n >= n
      BY <2>1 DEF Request
    <3>3. delivered[n] = 0
      BY <2>1, <3>2 DEF HandlersInv
    <3> QED
      BY <2>1, <3>1, <3>3 DEF HandlersInv
  <2> QED
    BY <2>5, <2>6 DEF HandlersInv
<1>4. CASE BridgeCancel
  <2>1. PICK id \in 1..(next_request_id - 1), operation \in {"resource_open", "resource_read"} :
       to_host' = Append(to_host,
         [kind |-> "cancel", operation |-> operation, request_id |-> id,
          resource_id |-> NoResource, ok |-> TRUE, payload |-> NoPayload])
    BY <1>4 DEF BridgeCancel
  <2> DEFINE m == [kind |-> "cancel", operation |-> operation, request_id |-> id,
                   resource_id |-> NoResource, ok |-> TRUE, payload |-> NoPayload]
  <2>2. id \in Request /\ operation \in Operation
    BY BoundAssumption DEF Typed, Request, Operation
  <2>3. m \in HostCommand /\ to_host' = Append(to_host, m)
    BY <2>1, <2>2, NewCancel
  <2>4. Quiet /\ UNCHANGED <<to_engine, current, unsent, engine>>
    BY <1>4 DEF BridgeCancel, hostVars
  <2> HIDE DEF m
  <2> QED
    BY <1>a, <1>b, <2>3, <2>4, AwaitedSent
<1>5. CASE BridgePoll
  <2> DEFINE m == Head(to_engine)
             r == m.request_id
  <2>1. /\ m \in Completion /\ to_engine # <<>> /\ to_engine' = Tail(to_engine)
        /\ UNCHANGED <<engine, next_request_id, to_host, current, unsent>>
        /\ Dispatch(m)
    BY <1>5, Taken DEF BridgePoll, hostVars, Typed
  <2>2. r \in Request
    BY <2>1, Completions
  <2>3. \A id : id # r /\ Awaited(id, to_host, to_engine, current, unsent)
                 => Awaited(id, to_host', to_engine', current', unsent')
    BY <1>a, <2>1, AwaitedTaken
  <2> HIDE DEF m
  <2>4. CASE r \in handlers
    <3>1. /\ handlers' = handlers \ {r}
          /\ delivered' = [delivered EXCEPT ![r] = @ + 1]
      BY <2>1, <2>4 DEF Dispatch
    <3>2. delivered[r] = 0
      BY <2>2, <2>4 DEF HandlersInv, Typed
    <3>3. delivered'[r] = 1
      BY <2>2, <3>1, <3>2 DEF Typed
    <3>4. \A id \in Request : id # r => delivered'[id] = delivered[id]
      BY <3>1 DEF Typed
    <3>5. ~(r >= next_request_id)
      BY <2>2, <2>4 DEF HandlersInv
    <3> QED
      BY <2>1, <2>3, <3>1, <3>3, <3>4, <3>5 DEF HandlersInv
  <2>5. CASE r \notin handlers
    <3>1. handlers' = handlers /\ delivered' = delivered
      BY <2>1, <2>5 DEF Dispatch
    <3> QED
      BY <2>1, <2>3, <2>5, <3>1 DEF HandlersInv
  <2> QED
    BY <2>4, <2>5
<1>6. CASE HostReceive
  <2>1. /\ Quiet /\ UNCHANGED <<engine, to_engine, unsent>> /\ current = None
        /\ to_host # <<>> /\ to_host' = Tail(to_host) /\ current' = Head(to_host)
    BY <1>6 DEF HostReceive, vmVars
  <2> QED
    BY <1>a, <1>b, <2>1, AwaitedTaken
<1>7. CASE HostExecute
  <2>1. Quiet /\ UNCHANGED <<engine, to_host>> /\ current \in HostCommand
    BY <1>7 DEF HostExecute, vmVars, Typed
  <2>2. CASE Ignores
    <3>1. current.kind # "submit" /\ current' = None /\ UNCHANGED <<to_engine, unsent>>
      BY <2>2 DEF Ignores
    <3>2. ASSUME NEW id, Awaited(id, to_host, to_engine, current, unsent)
          PROVE  Awaited(id, to_host, to_engine, current, unsent)'
      BY <2>1, <3>1, <3>2 DEF Awaited
    <3> QED
      BY <1>b, <2>1, <3>2
  <2>3. ASSUME NEW c, Executes(c) PROVE HandlersInv'
    <3>1. c \in Completion /\ c.request_id = current.request_id
      BY <2>3 DEF Executes, Replies
    <3>2. \/ to_engine' = Append(to_engine, c) /\ unsent' = unsent
          \/ to_engine' = to_engine /\ unsent' = unsent \cup {c.request_id}
      BY <2>3, SentOrNot DEF Sent, NotSent
    <3>3. ASSUME NEW id, Awaited(id, to_host, to_engine, current, unsent)
          PROVE  Awaited(id, to_host', to_engine', current', unsent')
      <4>1. /\ Awaited(id, to_host, Append(to_engine, c), current', unsent)
            /\ Awaited(id, to_host, to_engine, current', unsent \cup {c.request_id})
        BY <1>a, <2>1, <3>1, <3>3, AwaitedAnswered
      <4> QED
        BY <2>1, <3>2, <4>1
    <3> QED
      BY <1>b, <2>1, <3>3
  <2> QED
    BY <1>7, <2>2, <2>3, Executions
<1>8. CASE HostRelease
  <2>1. /\ Quiet /\ current' = None /\ current.kind = "release"
        /\ UNCHANGED <<engine, to_host, to_engine, unsent>>
    BY <1>8 DEF HostRelease, vmVars
  <2>2. ASSUME NEW id, Awaited(id, to_host, to_engine, current, unsent)
        PROVE  Awaited(id, to_host, to_engine, current, unsent)'
    BY <2>1, <2>2 DEF Awaited
  <2> QED
    BY <1>b, <2>1, <2>2
<1>9. CASE HostSeesStopping
  BY <1>9, <1>b DEF HostSeesStopping, vmVars
<1>10. CASE HostReturns
  BY <1>10, <1>b DEF HostReturns, vmVars
<1>11. CASE RunReturns
  <2>1. /\ to_host' = to_host \/ to_host' = Append(to_host, Event("engine_stopped"))
        /\ Event("engine_stopped") \in HostCommand
        /\ UNCHANGED <<to_engine, current, unsent>> /\ Quiet /\ engine # "destroyed"
    BY <1>11, NewCommands DEF RunReturns, Operation, hostVars
  <2> QED
    BY <1>a, <1>b, <2>1, AwaitedSent
<1>12. CASE HostDeinit
  BY <1>12, <1>b DEF HostDeinit
<1>13. CASE HostJoined
  BY <1>13, <1>b DEF HostJoined
<1>14. CASE EngineDestroyed
  BY <1>14 DEF EngineDestroyed, hostVars, HandlersInv
<1>15. submitOpen => HandlersInv'
  BY <1>3, NewCommands DEF submitOpen, Operation
<1>16. ASSUME NEW operation \in Operation, submitOn(operation) PROVE HandlersInv'
  BY <1>3, <1>16 DEF submitOn, Typed
<1> QED
  BY <1>1, <1>2, <1>4, <1>5, <1>6, <1>7, <1>8, <1>9, <1>10, <1>11, <1>12,
     <1>13, <1>14, <1>15, <1>16
  DEF Next, Client, HostStep, Teardown, Operation

\* Bridge and Host: a registered handler's command is in the channel, with the
\* host or answered, unless the answer could not be sent, and no handler is
\* called twice.
THEOREM HandlersAnswered == Spec => []HandlersAreAnswered
<1>1. Init => HandlersInv
  BY DEF Init, HandlersInv
<1>2. Typed /\ HandlersInv => HandlersAreAnswered
  <2> SUFFICES ASSUME Typed, HandlersInv PROVE HandlersAreAnswered
    OBVIOUS
  <2>1. DOMAIN to_host = 1..Len(to_host) /\ DOMAIN to_engine = 1..Len(to_engine)
    BY LenProperties DEF Typed
  <2> QED
    BY <2>1 DEF HandlersInv, Typed, Awaited, HandlersAreAnswered, Asked, Answers
<1> QED
  BY <1>1, <1>2, Typing, HandlersStep, PTL DEF Spec

-----------------------------------------------------------------------------
(* Owners of buffers.                                                      *)

\* A message that is sent adds its buffer to those of the channel.
LEMMA CarriedSent ==
  ASSUME NEW S, NEW q \in Seq(S), NEW m \in S, NEW b
  PROVE  Carried(Append(q, m), b) <=> (Carried(q, b) \/ m.payload.buffer = b)
<1>1. /\ Len(q) \in Nat /\ Len(Append(q, m)) = Len(q) + 1
      /\ \A i \in 1..Len(q) : Append(q, m)[i] = q[i]
      /\ Append(q, m)[Len(q) + 1] = m
  BY Added
<1>2. \A i : i \in 1..(Len(q) + 1) <=> (i \in 1..Len(q) \/ i = Len(q) + 1)
  BY <1>1
<1> QED
  BY <1>1, <1>2 DEF Carried

\* A message that is taken takes its buffer out of the channel.
LEMMA CarriedTaken ==
  ASSUME NEW S, NEW q \in Seq(S), q # <<>>, NEW b
  PROVE  /\ Carried(q, b) <=> (Carried(Tail(q), b) \/ Head(q).payload.buffer = b)
         /\ Distinct(q) /\ b # 0 /\ Head(q).payload.buffer = b => ~Carried(Tail(q), b)
<1>1. /\ Head(q) = q[1] /\ Len(Tail(q)) = Len(q) - 1 /\ Len(q) \in Nat /\ Len(q) >= 1
      /\ \A i \in 1..Len(Tail(q)) : Tail(q)[i] = q[i + 1]
  BY Taken
<1>2. /\ \A i \in 1..Len(q) : i # 1 => i - 1 \in 1..Len(Tail(q)) /\ Tail(q)[i - 1] = q[i]
      /\ \A i \in 1..Len(Tail(q)) : i + 1 \in 1..Len(q) /\ i + 1 # 1
      /\ 1 \in 1..Len(q)
  BY <1>1
<1>3. Carried(q, b) <=> (Carried(Tail(q), b) \/ Head(q).payload.buffer = b)
  BY <1>1, <1>2 DEF Carried
<1>4. Distinct(q) /\ b # 0 /\ Head(q).payload.buffer = b => ~Carried(Tail(q), b)
  BY <1>1, <1>2 DEF Carried, Distinct
<1> QED
  BY <1>3, <1>4

\* The messages of a channel still carry different buffers when one with a new
\* buffer, or none, has been sent
LEMMA DistinctSent ==
  ASSUME NEW S, NEW q \in Seq(S), NEW m \in S, Distinct(q),
         m.payload.buffer = 0 \/ ~Carried(q, m.payload.buffer)
  PROVE  Distinct(Append(q, m))
<1>1. /\ Len(q) \in Nat /\ Len(Append(q, m)) = Len(q) + 1
      /\ \A i \in 1..Len(q) : Append(q, m)[i] = q[i]
      /\ Append(q, m)[Len(q) + 1] = m
  BY Added
<1>2. \A i : i \in 1..(Len(q) + 1) <=> (i \in 1..Len(q) \/ i = Len(q) + 1)
  BY <1>1
<1> QED
  BY <1>1, <1>2 DEF Carried, Distinct

\* ... and when the first has been taken.
LEMMA DistinctTaken ==
  ASSUME NEW S, NEW q \in Seq(S), q # <<>>, Distinct(q)
  PROVE  Distinct(Tail(q))
<1>1. /\ Len(Tail(q)) = Len(q) - 1 /\ Len(q) \in Nat
      /\ \A i \in 1..Len(Tail(q)) : Tail(q)[i] = q[i + 1]
  BY Taken
<1>2. \A i \in 1..Len(Tail(q)) : i + 1 \in 1..Len(q) /\ i \in Int
  BY <1>1
<1>3. \A i, j \in Int : i + 1 = j + 1 => i = j
  OBVIOUS
<1> QED
  BY <1>1, <1>2, <1>3 DEF Distinct

\* What releasing and dropping do to the count and the history of buffer b.
LEMMA Released ==
  ASSUME NEW r \in [Request -> Int], NEW d, NEW b \in Request,
         NEW m \in HostCommand \cup Completion
  PROVE  /\ m.payload.buffer # b =>
              /\ ReleaseIn(r, m.payload)[b] = r[b]
              /\ b \in DropIn(d, m.payload) <=> b \in d
         /\ m.payload.buffer = b /\ isEmpty(m.payload) =>
              ReleaseIn(r, m.payload)[b] = r[b] /\ b \in DropIn(d, m.payload)
         /\ m.payload.buffer = b /\ ~isEmpty(m.payload) =>
              /\ ReleaseIn(r, m.payload)[b] = r[b] - 1
              /\ b \in DropIn(d, m.payload) <=> b \in d
<1>1. b # 0 /\ r[b] \in Int
  BY BoundAssumption DEF Request
<1> QED
  BY <1>1 DEF ReleaseIn, DropIn

\* More requests have been made.
LEMMA PlaceLater ==
  ASSUME NEW b \in Request, NEW h, NEW e, NEW c, NEW d, NEW n \in Nat, NEW k,
         OnePlace(b, h, e, c, d, n, k)
  PROVE  OnePlace(b, h, e, c, d, n + 1, k)
<1>1. b >= n + 1 => b >= n
  BY DEF Request
<1> QED
  BY <1>1 DEF OnePlace

\* Every step keeps each buffer in one place.
LEMMA OwnersStep == Typed /\ OwnersInv /\ TeardownInv /\ [Next]_vars => OwnersInv'
<1> SUFFICES ASSUME Typed, OwnersInv, TeardownInv, [Next]_vars PROVE OwnersInv'
  OBVIOUS
<1>a. /\ to_host \in Seq(HostCommand) /\ to_engine \in Seq(Completion)
      /\ next_request_id \in Nat /\ refs \in [Request -> Int] /\ dropped \in SUBSET Request
      /\ current \in HostCommand \cup {None}
  BY DEF Typed
<1>b. /\ NoPayload.buffer = 0 /\ isEmpty(NoPayload)
      /\ \A b \in Request : b # 0 /\ b \in Nat
  BY DEF NoPayload, isEmpty, Request
<1>c. ASSUME NEW m \in HostCommand, m.payload.buffer = 0, to_host' = Append(to_host, m),
             UNCHANGED <<to_engine, current, dropped, next_request_id, refs>>,
             engine # "destroyed"
      PROVE  OwnersInv'
  <2>1. Distinct(to_host') /\ Distinct(to_engine')
    BY <1>a, <1>c, DistinctSent DEF OwnersInv
  <2>2. \A b \in Request : Carried(to_host', b) <=> Carried(to_host, b)
    BY <1>a, <1>b, <1>c, CarriedSent
  <2>3. ASSUME NEW b \in Request
        PROVE  OnePlace(b, to_host', to_engine', current', dropped', next_request_id', refs'[b])
    <3>1. OnePlace(b, to_host, to_engine, current, dropped, next_request_id, refs[b])
      BY <1>c DEF OwnersInv
    <3> QED
      BY <1>c, <2>2, <3>1 DEF OnePlace
  <2> QED
    BY <2>1, <2>3 DEF OwnersInv
<1>1. CASE UNCHANGED <<engine, to_host, to_engine, current, dropped, next_request_id, refs>>
  BY <1>1 DEF OwnersInv
<1>2. CASE EngineStarts
  <2> DEFINE m == Event("engine_started")
  <2>1. m \in HostCommand /\ m.payload.buffer = 0
    BY <1>b, NewCommands DEF Event, Operation
  <2>2. /\ to_host' = to_host \/ to_host' = Append(to_host, m)
        /\ engine # "destroyed"
        /\ UNCHANGED <<to_engine, current, dropped, next_request_id, refs>>
    BY <1>2 DEF EngineStarts, hostVars
  <2> HIDE DEF m
  <2>3. CASE to_host' = to_host
    BY <2>2, <2>3 DEF OwnersInv
  <2> QED
    BY <1>c, <2>1, <2>2, <2>3
<1>3. ASSUME NEW operation \in Operation, NEW resource \in ResourceId,
             BridgeSubmit(operation, resource)
      PROVE  OwnersInv'
  <2> DEFINE p == PayloadOf(operation)
             m == Submit(operation, resource, p)
             n == next_request_id
  <2>1. /\ n \in Request /\ n' = n + 1 /\ engine' = engine /\ engine # "destroyed"
        /\ UNCHANGED <<to_engine, current, dropped>>
        /\ \/ /\ to_host' = Append(to_host, m)
              /\ refs' = IF isEmpty(p) THEN refs ELSE [refs EXCEPT ![p.buffer] = 1]
           \/ to_host' = to_host /\ refs' = refs
    BY <1>3 DEF BridgeSubmit, hostVars
  <2>2. m \in HostCommand /\ m.payload = p
    BY <1>3, <2>1, NewCommands
  <2>3. p = NoPayload \/ (p.buffer = n /\ ~isEmpty(p))
    BY DEF PayloadOf, isEmpty
  <2> HIDE DEF m, p
  <2>4. ASSUME NEW b \in Request
        PROVE  OnePlace(b, to_host, to_engine, current, dropped, n + 1, refs[b])
    BY <1>a, <2>1, PlaceLater DEF OwnersInv
  <2>5. CASE to_host' = to_host /\ refs' = refs
    BY <2>1, <2>4, <2>5 DEF OwnersInv
  <2>6. CASE /\ to_host' = Append(to_host, m)
             /\ refs' = IF isEmpty(p) THEN refs ELSE [refs EXCEPT ![p.buffer] = 1]
    <3>1. OnePlace(n, to_host, to_engine, current, dropped, n, refs[n]) /\ n >= n /\ n # 0
      BY <1>a, <1>b, <2>1 DEF OwnersInv
    <3>2. ~Carried(to_host, n)
      BY <3>1 DEF OnePlace
    <3>3. Distinct(to_host') /\ Distinct(to_engine')
      BY <1>a, <1>b, <2>1, <2>2, <2>3, <2>6, <3>2, DistinctSent DEF OwnersInv
    <3>4. ASSUME NEW b \in Request
          PROVE  OnePlace(b, to_host', to_engine', current', dropped', n + 1, refs'[b])
      <4>1. Carried(to_host', b) <=> (Carried(to_host, b) \/ p.buffer = b)
        BY <1>a, <2>2, <2>6, CarriedSent
      <4>2. CASE p.buffer = b
        <5>1. b = n /\ ~isEmpty(p)
          BY <1>b, <2>3, <4>2
        <5>2. refs'[b] = 1
          BY <1>a, <2>6, <4>2, <5>1
        <5>3. ~(b >= n + 1)
          BY <1>a, <5>1
        <5> QED
          BY <2>1, <3>1, <4>1, <4>2, <5>1, <5>2, <5>3 DEF OnePlace
      <4>3. CASE p.buffer # b
        <5>1. refs'[b] = refs[b]
          BY <1>a, <2>6, <4>3
        <5> QED
          BY <2>1, <2>4, <4>1, <4>3, <5>1 DEF OnePlace
      <4> QED
        BY <4>2, <4>3
    <3> QED
      BY <2>1, <3>3, <3>4 DEF OwnersInv
  <2> QED
    BY <2>1, <2>5, <2>6
<1>4. CASE BridgeCancel
  <2>1. PICK id \in 1..(next_request_id - 1), operation \in {"resource_open", "resource_read"} :
       to_host' = Append(to_host,
         [kind |-> "cancel", operation |-> operation, request_id |-> id,
          resource_id |-> NoResource, ok |-> TRUE, payload |-> NoPayload])
    BY <1>4 DEF BridgeCancel
  <2> DEFINE m == [kind |-> "cancel", operation |-> operation, request_id |-> id,
                   resource_id |-> NoResource, ok |-> TRUE, payload |-> NoPayload]
  <2>2. id \in Request /\ operation \in Operation
    BY BoundAssumption DEF Typed, Request, Operation
  <2>3. m \in HostCommand /\ to_host' = Append(to_host, m) /\ m.payload.buffer = 0
    BY <1>b, <2>1, <2>2, NewCancel
  <2>4. /\ UNCHANGED <<to_engine, current, dropped, next_request_id, refs>>
        /\ engine # "destroyed"
    BY <1>4 DEF BridgeCancel, hostVars
  <2> HIDE DEF m
  <2> QED
    BY <1>c, <2>3, <2>4
<1>5. CASE BridgePoll
  <2> DEFINE m == Head(to_engine)
  <2>1. /\ m \in Completion /\ to_engine # <<>> /\ to_engine' = Tail(to_engine)
        /\ UNCHANGED <<engine, next_request_id, to_host, current>>
        /\ engine # "destroyed"
        /\ refs' = ReleaseIn(refs, m.payload) /\ dropped' = DropIn(dropped, m.payload)
    BY <1>5, Taken DEF BridgePoll, hostVars, Typed, Dispatch
  <2>2. Distinct(to_host') /\ Distinct(to_engine') /\ Distinct(to_engine)
    BY <1>a, <2>1, DistinctTaken DEF OwnersInv
  <2>3. ASSUME NEW b \in Request
        PROVE  OnePlace(b, to_host', to_engine', current', dropped', next_request_id', refs'[b])
    <3>1. /\ Carried(to_engine, b) <=> (Carried(to_engine', b) \/ m.payload.buffer = b)
          /\ m.payload.buffer = b => ~Carried(to_engine', b)
      BY <1>a, <1>b, <2>1, <2>2, CarriedTaken
    <3>2. OnePlace(b, to_host, to_engine, current, dropped, next_request_id, refs[b])
      BY <2>1 DEF OwnersInv
    <3> HIDE DEF m
    <3>a. m \in HostCommand \cup Completion /\ refs \in [Request -> Int]
      BY <1>a, <2>1
    <3>3. CASE m.payload.buffer # b
      <4>1. refs'[b] = refs[b] /\ (b \in dropped' <=> b \in dropped)
        <5>1. /\ ReleaseIn(refs, m.payload)[b] = refs[b]
              /\ b \in DropIn(dropped, m.payload) <=> b \in dropped
          BY <3>a, <3>3, Released
        <5> QED
          BY <2>1, <5>1
      <4> QED
        BY <2>1, <3>1, <3>2, <3>3, <4>1 DEF OnePlace
    <3>4. CASE m.payload.buffer = b /\ isEmpty(m.payload)
      <4>1. refs'[b] = refs[b] /\ b \in dropped'
        <5>1. ReleaseIn(refs, m.payload)[b] = refs[b] /\ b \in DropIn(dropped, m.payload)
          <6>1. ReleaseIn(refs, m.payload) = refs
            BY <3>4 DEF ReleaseIn
          <6>2. DropIn(dropped, m.payload) = dropped \cup {m.payload.buffer}
            BY <1>b, <3>4 DEF DropIn
          <6> QED
            BY <3>4, <6>1, <6>2
        <5> QED
          BY <2>1, <5>1
      <4> QED
        BY <2>1, <3>1, <3>2, <3>4, <4>1 DEF OnePlace
    <3>5. CASE m.payload.buffer = b /\ ~isEmpty(m.payload)
      <4>1. refs'[b] = refs[b] - 1 /\ (b \in dropped' <=> b \in dropped)
        <5>1. /\ ReleaseIn(refs, m.payload)[b] = refs[b] - 1
              /\ b \in DropIn(dropped, m.payload) <=> b \in dropped
          BY <3>a, <3>5, Released
        <5> QED
          BY <2>1, <5>1
      <4>2. refs[b] = 1
        BY <3>1, <3>2, <3>5 DEF OnePlace
      <4>3. refs'[b] = 0
        BY <4>1, <4>2
      <4> QED
        BY <2>1, <3>1, <3>2, <3>5, <4>1, <4>3 DEF OnePlace
    <3> QED
      BY <3>3, <3>4, <3>5
  <2> QED
    BY <2>1, <2>2, <2>3 DEF OwnersInv
<1>6. CASE HostReceive
  <2> DEFINE m == Head(to_host)
  <2>1. /\ m \in HostCommand /\ to_host # <<>> /\ to_host' = Tail(to_host) /\ current' = m
        /\ UNCHANGED <<engine, next_request_id, to_engine, refs, dropped>>
        /\ current = None /\ m # None
    BY <1>6, Taken, Commands DEF HostReceive, vmVars, Typed
  <2> SUFFICES ASSUME engine # "destroyed" PROVE OwnersInv'
    BY <2>1 DEF OwnersInv
  <2>2. Distinct(to_host') /\ Distinct(to_engine') /\ Distinct(to_host)
    BY <1>a, <2>1, DistinctTaken DEF OwnersInv
  <2>3. ASSUME NEW b \in Request
        PROVE  OnePlace(b, to_host', to_engine', current', dropped', next_request_id', refs'[b])
    <3>1. /\ Carried(to_host, b) <=> (Carried(to_host', b) \/ m.payload.buffer = b)
          /\ m.payload.buffer = b => ~Carried(to_host', b)
      BY <1>a, <1>b, <2>1, <2>2, CarriedTaken
    <3>2. OnePlace(b, to_host, to_engine, current, dropped, next_request_id, refs[b])
      BY <2>1 DEF OwnersInv
    <3> HIDE DEF m
    <3>3. ~AtWork(current, b) /\ (AtWork(current', b) <=> m.payload.buffer = b)
      BY <2>1 DEF AtWork
    <3> QED
      BY <2>1, <3>1, <3>2, <3>3 DEF OnePlace
  <2> QED
    BY <2>2, <2>3 DEF OwnersInv
<1>d. ASSUME current # None, refs' = ReleaseIn(refs, current.payload), current' = None,
             UNCHANGED <<engine, to_host, to_engine, dropped, next_request_id>>
      PROVE  OwnersInv'
  <2> SUFFICES ASSUME engine # "destroyed" PROVE OwnersInv'
    BY <1>d DEF OwnersInv
  <2>1. ASSUME NEW b \in Request
        PROVE  OnePlace(b, to_host', to_engine', current', dropped', next_request_id', refs'[b])
    <3>1. OnePlace(b, to_host, to_engine, current, dropped, next_request_id, refs[b])
      BY DEF OwnersInv
    <3>2. ~AtWork(current', b) /\ (AtWork(current, b) <=> current.payload.buffer = b)
      BY <1>d DEF AtWork
    <3>3. CASE current.payload.buffer # b
      <4>1. refs'[b] = refs[b]
        BY <1>a, <1>d, <3>3, Released
      <4> QED
        BY <1>d, <3>1, <3>2, <3>3, <4>1 DEF OnePlace
    <3>4. CASE current.payload.buffer = b
      <4>1. refs'[b] = refs[b] - 1
        BY <1>a, <1>b, <1>d, <3>4, Released, Commands
      <4>2. refs[b] = 1
        BY <3>1, <3>2, <3>4 DEF OnePlace
      <4>3. refs'[b] = 0
        BY <4>1, <4>2
      <4> QED
        BY <1>d, <3>1, <3>2, <3>4, <4>3 DEF OnePlace
    <3> QED
      BY <3>3, <3>4
  <2> QED
    BY <1>d, <2>1 DEF OwnersInv
<1>7. CASE HostExecute
  <2>1. /\ UNCHANGED <<engine, to_host, next_request_id>>
        /\ current \in HostCommand /\ current # None
    BY <1>7 DEF HostExecute, vmVars, Typed
  <2>2. CASE Ignores
    BY <1>d, <2>1, <2>2 DEF Ignores
  <2>3. ASSUME NEW c, Executes(c) PROVE OwnersInv'
    <3> SUFFICES ASSUME engine # "destroyed" PROVE OwnersInv'
      BY <2>1 DEF OwnersInv
    <3>1. c \in Completion /\ current.kind # "event"
      BY <2>3 DEF Executes, Replies
    <3>2. Releasing(current).payload = current.payload /\ Releasing(current) # None
      BY <2>1, <3>1, Releases, Commands
    <3>3. \A b \in Request :
            /\ OnePlace(b, to_host, to_engine, current, dropped, next_request_id, refs[b])
            /\ AtWork(current, b) <=> current.payload.buffer = b
            /\ AtWork(Releasing(current), b) <=> current.payload.buffer = b
            /\ ~AtWork(None, b)
      BY <2>1, <3>2 DEF OwnersInv, AtWork
    <3>4. CASE Sent(c) /\ c.payload.buffer = current.payload.buffer
               /\ refs' = refs /\ current' = None
      <4>1. to_engine' = Append(to_engine, c) /\ dropped' = dropped
        BY <3>4 DEF Sent
      <4>2. \A b \in Request :
              Carried(to_engine', b) <=> (Carried(to_engine, b) \/ c.payload.buffer = b)
        BY <1>a, <3>1, <4>1, CarriedSent
      <4>3. c.payload.buffer = 0 \/ ~Carried(to_engine, c.payload.buffer)
        <5>1. c.payload.buffer = 0 \/ c.payload.buffer \in Request
          BY <3>1, Completions
        <5> QED
          BY <3>3, <3>4, <5>1 DEF OnePlace
      <4>4. Distinct(to_engine') /\ Distinct(to_host')
        BY <1>a, <2>1, <3>1, <4>1, <4>3, DistinctSent DEF OwnersInv
      <4>5. ASSUME NEW b \in Request
            PROVE  OnePlace(b, to_host', to_engine', current', dropped',
                            next_request_id', refs'[b])
        BY <2>1, <3>3, <3>4, <4>1, <4>2 DEF OnePlace
      <4> QED
        BY <4>4, <4>5 DEF OwnersInv
    <3>5. CASE NotSent(c) /\ c.payload.buffer = current.payload.buffer
               /\ refs' = ReleaseIn(refs, c.payload) /\ current' = None
      <4>1. to_engine' = to_engine /\ dropped' = DropIn(dropped, c.payload)
        BY <3>5 DEF NotSent
      <4>2. ASSUME NEW b \in Request
            PROVE  OnePlace(b, to_host', to_engine', current', dropped',
                            next_request_id', refs'[b])
        <5>1. CASE c.payload.buffer # b
          <6>1. refs'[b] = refs[b] /\ (b \in dropped' <=> b \in dropped)
            BY <1>a, <3>1, <3>5, <4>1, <5>1, Released
          <6> QED
            BY <2>1, <3>3, <3>5, <4>1, <5>1, <6>1 DEF OnePlace
        <5>2. CASE c.payload.buffer = b /\ isEmpty(c.payload)
          <6>1. refs'[b] = refs[b] /\ b \in dropped'
            BY <1>a, <3>1, <3>5, <4>1, <5>2, Released
          <6> QED
            BY <2>1, <3>3, <3>5, <4>1, <5>2, <6>1 DEF OnePlace
        <5>3. CASE c.payload.buffer = b /\ ~isEmpty(c.payload)
          <6>1. refs'[b] = refs[b] - 1 /\ (b \in dropped' <=> b \in dropped)
            BY <1>a, <3>1, <3>5, <4>1, <5>3, Released
          <6>2. refs[b] = 1
            BY <3>3, <3>5, <5>3 DEF OnePlace
          <6>3. refs'[b] = 0
            BY <6>1, <6>2
          <6> QED
            BY <2>1, <3>3, <3>5, <4>1, <5>3, <6>1, <6>3 DEF OnePlace
        <5> QED
          BY <5>1, <5>2, <5>3
      <4> QED
        BY <2>1, <4>1, <4>2 DEF OwnersInv
    <3>6. CASE (Sent(c) \/ NotSent(c)) /\ c.payload = NoPayload
      <4>1. dropped' = dropped
        BY <1>b, <3>6 DEF Sent, NotSent, DropIn
      <4>2. to_engine' = to_engine \/ to_engine' = Append(to_engine, c)
        BY <3>6 DEF Sent, NotSent
      <4>3. \A b \in Request : Carried(to_engine', b) <=> Carried(to_engine, b)
        <5> SUFFICES ASSUME NEW b \in Request
                     PROVE  Carried(to_engine', b) <=> Carried(to_engine, b)
          OBVIOUS
        <5>1. Carried(Append(to_engine, c), b) <=> Carried(to_engine, b)
          BY <1>a, <1>b, <3>1, <3>6, CarriedSent
        <5> QED
          BY <4>2, <5>1
      <4>4. Distinct(to_engine') /\ Distinct(to_host')
        BY <1>a, <1>b, <2>1, <3>1, <3>6, <4>2, DistinctSent DEF OwnersInv
      <4>5. CASE refs' = refs /\ current' = Releasing(current)
        <5>1. ASSUME NEW b \in Request
              PROVE  OnePlace(b, to_host', to_engine', current', dropped',
                              next_request_id', refs'[b])
          BY <2>1, <3>3, <4>1, <4>3, <4>5 DEF OnePlace
        <5> QED
          BY <4>4, <5>1 DEF OwnersInv
      <4>6. CASE refs' = ReleaseIn(refs, current.payload) /\ current' = None
        <5>1. ASSUME NEW b \in Request
              PROVE  OnePlace(b, to_host', to_engine', current', dropped',
                              next_request_id', refs'[b])
          <6>1. CASE current.payload.buffer # b
            <7>1. refs'[b] = refs[b]
              BY <1>a, <2>1, <4>6, <6>1, Released
            <7> QED
              BY <2>1, <3>3, <4>1, <4>3, <4>6, <6>1, <7>1 DEF OnePlace
          <6>2. CASE current.payload.buffer = b
            <7>1. refs'[b] = refs[b] - 1
              BY <1>a, <1>b, <2>1, <4>6, <6>2, Released, Commands
            <7>2. refs[b] = 1
              BY <3>3, <6>2 DEF OnePlace
            <7>3. refs'[b] = 0
              BY <7>1, <7>2
            <7> QED
              BY <2>1, <3>3, <4>1, <4>3, <4>6, <6>2, <7>3 DEF OnePlace
          <6> QED
            BY <6>1, <6>2
        <5> QED
          BY <4>4, <5>1 DEF OwnersInv
      <4> QED
        <5>1. \/ refs' = refs /\ current' = Releasing(current)
              \/ refs' = ReleaseIn(refs, current.payload) /\ current' = None
              \/ Handed(c)
          BY <2>3 DEF Executes, Freed, Kept, ReleaseAndAnswer, AnswerAndDefer
        <5>2. Handed(c) => \/ Sent(c) /\ refs' = refs /\ current' = None
                           \/ NotSent(c) /\ refs' = ReleaseIn(refs, c.payload) /\ current' = None
          BY DEF Handed, Answer
        <5>3. Handed(c) => c.payload.buffer = current.payload.buffer
          BY DEF Handed
        <5> QED
          BY <4>5, <4>6, <5>1, <5>2, <5>3, <3>4, <3>5
    <3> QED
      BY <2>3, <3>4, <3>5, <3>6, SentOrNot DEF Executes, Handed, Freed, Kept, Answer
  <2> QED
    BY <1>7, <2>2, <2>3, Executions
<1>8. CASE HostRelease
  BY <1>8, <1>d DEF HostRelease, vmVars
<1>11. CASE RunReturns
  <2> DEFINE m == Event("engine_stopped")
  <2>1. m \in HostCommand /\ m.payload.buffer = 0
    BY <1>b, NewCommands DEF Event, Operation
  <2>2. /\ to_host' = to_host \/ to_host' = Append(to_host, m)
        /\ engine # "destroyed"
        /\ UNCHANGED <<to_engine, current, dropped, next_request_id, refs>>
    BY <1>11 DEF RunReturns, hostVars
  <2> HIDE DEF m
  <2>3. CASE to_host' = to_host
    BY <2>2, <2>3 DEF OwnersInv
  <2> QED
    BY <1>c, <2>1, <2>2, <2>3
<1>12. CASE HostDeinit \/ HostJoined \/ HostSeesStopping \/ HostReturns \/ UNCHANGED vars
  <2>1. /\ UNCHANGED <<to_host, to_engine, current, dropped, next_request_id, refs>>
        /\ engine' # "destroyed" => engine # "destroyed"
    BY <1>12 DEF HostDeinit, HostJoined, HostSeesStopping, HostReturns, vmVars, vars
  <2> QED
    BY <2>1 DEF OwnersInv
<1>14. CASE EngineDestroyed
  BY <1>14 DEF EngineDestroyed, OwnersInv
<1>15. submitOpen => OwnersInv'
  BY <1>3, NewCommands DEF submitOpen, Operation
<1>16. ASSUME NEW operation \in Operation, submitOn(operation) PROVE OwnersInv'
  BY <1>3, <1>16 DEF submitOn, Typed
<1> QED
  BY <1>2, <1>4, <1>5, <1>6, <1>7, <1>8, <1>11, <1>12, <1>14, <1>15, <1>16
  DEF Next, Client, HostStep, Teardown, Operation

\* A channel of distinct buffers carries each at most once.
LEMMA CarryingOnce ==
  ASSUME NEW S, NEW q \in Seq(S), Distinct(q), NEW b, b # 0
  PROVE  /\ Carried(q, b) => Cardinality(Carrying(q, b)) = 1
         /\ ~Carried(q, b) => Cardinality(Carrying(q, b)) = 0
<1>1. DOMAIN q = 1..Len(q)
  BY LenProperties
<1>2. ASSUME Carried(q, b) PROVE Cardinality(Carrying(q, b)) = 1
  <2>1. PICK i \in 1..Len(q) : q[i].payload.buffer = b
    BY <1>2 DEF Carried
  <2>2. Carrying(q, b) = {i}
    BY <1>1, <2>1 DEF Carrying, Distinct
  <2> QED
    BY <2>2, FS_Singleton
<1>3. ASSUME ~Carried(q, b) PROVE Cardinality(Carrying(q, b)) = 0
  <2>1. Carrying(q, b) = {}
    BY <1>1, <1>3 DEF Carrying, Carried
  <2> QED
    BY <2>1, FS_EmptySet
<1> QED
  BY <1>2, <1>3

\* A buffer is always in one place, or none.
LEMMA Owning == Spec => []OwnersInv
<1>1. Init => OwnersInv
  <2> SUFFICES ASSUME Init PROVE OwnersInv
    OBVIOUS
  <2>1. to_host = <<>> /\ to_engine = <<>> /\ current = None /\ dropped = {}
        /\ \A b \in Request : refs[b] = 0
    BY DEF Init
  <2>2. Len(to_host) = 0 /\ Len(to_engine) = 0
    BY <2>1
  <2>3. /\ Distinct(to_host) /\ Distinct(to_engine)
        /\ \A b : ~Carried(to_host, b) /\ ~Carried(to_engine, b) /\ ~AtWork(current, b)
    BY <2>1, <2>2 DEF Distinct, Carried, AtWork
  <2> QED
    BY <2>1, <2>3 DEF OwnersInv, OnePlace
<1> QED
  BY <1>1, Typing, TearingDown, OwnersStep, PTL DEF Spec

\* contract.zig: on every path of the host and the bridge, failed sends
\* included, a buffer has as many references as messages and handlers that
\* carry it, the ones given up through an empty payload apart.
THEOREM OwnershipIsConserved == Spec => []OwnershipConserved
<1>1. Typed /\ OwnersInv => OwnershipConserved
  <2> SUFFICES ASSUME Typed, OwnersInv, engine # "destroyed", NEW b \in Request
               PROVE  refs[b] = Carriers(b) + (IF b \in dropped THEN 1 ELSE 0)
    BY DEF OwnershipConserved
  <2>1. b # 0
    BY DEF Request
  <2>2. OnePlace(b, to_host, to_engine, current, dropped, next_request_id, refs[b])
    BY DEF OwnersInv
  <2> DEFINE x == Cardinality(Carrying(to_host, b))
             y == Cardinality(Carrying(to_engine, b))
  <2>3. /\ Carried(to_host, b) => x = 1
        /\ ~Carried(to_host, b) => x = 0
        /\ Carried(to_engine, b) => y = 1
        /\ ~Carried(to_engine, b) => y = 0
    BY <2>1, CarryingOnce DEF OwnersInv, Typed
  <2>4. Carriers(b) = x + y + (IF AtWork(current, b) THEN 1 ELSE 0)
    BY DEF Carriers, AtWork
  <2> HIDE DEF x, y
  <2> QED
    BY <2>2, <2>3, <2>4 DEF OnePlace
<1> QED
  BY <1>1, Typing, Owning, PTL

-----------------------------------------------------------------------------
(* The order of a request's messages.                                      *)

\* More requests and more handlers disturb nothing.
LEMMA OrderLater ==
  ASSUME NEW h \in Seq(HostCommand), NEW c \in HostCommand \cup {None},
         NEW e \in Seq(Completion), NEW hs, NEW n \in Nat, NEW x,
         HostOrder(h, c, e, hs, n), WorkOrder(c, e, hs, n), EngineOrder(e, hs, n)
  PROVE  /\ HostOrder(h, c, e, hs \cup x, n + 1) /\ WorkOrder(c, e, hs \cup x, n + 1)
         /\ EngineOrder(e, hs \cup x, n + 1)
<1>1. /\ \A i \in 1..Len(h) : h[i] \in HostCommand
      /\ \A i \in 1..Len(e) : e[i] \in Completion
  BY ElementOfSeq
<1>2. \A r \in 0..MaxRequests : r < n => r < n + 1
  OBVIOUS
<1>3. /\ \A i \in 1..Len(h) : h[i].request_id \in 0..MaxRequests
      /\ \A i \in 1..Len(e) : e[i].request_id \in 0..MaxRequests
      /\ c # None => c.request_id \in 0..MaxRequests
  BY <1>1, Commands, Completions, BoundAssumption DEF Request
<1>4. HostOrder(h, c, e, hs \cup x, n + 1)
  BY <1>2, <1>3 DEF HostOrder
<1>5. WorkOrder(c, e, hs \cup x, n + 1)
  BY <1>2, <1>3 DEF WorkOrder
<1>6. EngineOrder(e, hs \cup x, n + 1)
  BY <1>2, <1>3 DEF EngineOrder
<1> QED
  BY <1>4, <1>5, <1>6

\* A command that is sent comes after everything of its request; a submit is
\* the first of a new request.
LEMMA OrderSent ==
  ASSUME NEW h \in Seq(HostCommand), NEW c, NEW e, NEW hs, NEW n,
         HostOrder(h, c, e, hs, n), NEW m \in HostCommand,
         m.request_id < n, m.kind # "release",
         m.kind = "submit" =>
           /\ m.request_id \in hs /\ NoneOf(h, m.request_id) /\ NoneOf(e, m.request_id)
           /\ c # None => c.request_id # m.request_id
  PROVE  HostOrder(Append(h, m), c, e, hs, n)
<1>1. /\ Len(h) \in Nat /\ Len(Append(h, m)) = Len(h) + 1
      /\ \A i \in 1..Len(h) : Append(h, m)[i] = h[i]
      /\ Append(h, m)[Len(h) + 1] = m
  BY Added
<1> DEFINE g == Append(h, m)
<1>2. /\ \A i \in 1..Len(g) : i \in 1..Len(h) \/ i = Len(h) + 1
      /\ \A i \in 1..Len(h), j \in 1..Len(g) : j < i => j \in 1..Len(h)
      /\ \A j \in 1..Len(g) : j < Len(h) + 1 => j \in 1..Len(h)
  BY <1>1
<1> HIDE DEF g
<1>3. \A i \in 1..Len(h) : g[i] = h[i]
  BY <1>1 DEF g
<1>4. g[Len(h) + 1] = m
  BY <1>1 DEF g
<1>5. ASSUME NEW i \in 1..Len(h), NEW r, NoneBefore(h, i, r) PROVE NoneBefore(g, i, r)
  BY <1>2, <1>3, <1>5 DEF NoneBefore
<1>6. ASSUME NEW r, NoneOf(h, r) PROVE NoneBefore(g, Len(h) + 1, r)
  BY <1>2, <1>3, <1>6 DEF NoneBefore, NoneOf
<1>7. ASSUME NEW i \in 1..Len(g)
      PROVE  /\ g[i].request_id < n
             /\ g[i].kind # "release"
             /\ g[i].kind = "submit" =>
                  /\ g[i].request_id \in hs
                  /\ NoneBefore(g, i, g[i].request_id)
                  /\ c # None => c.request_id # g[i].request_id
                  /\ NoneOf(e, g[i].request_id)
  <2>1. CASE i \in 1..Len(h)
    BY <1>3, <1>5, <2>1 DEF HostOrder
  <2>2. CASE i = Len(h) + 1
    BY <1>4, <1>6, <2>2
  <2> QED
    BY <1>2, <2>1, <2>2
<1>8. HostOrder(g, c, e, hs, n)
  BY <1>7 DEF HostOrder
<1> QED
  BY <1>8 DEF g

\* What comes after the first message of a channel, and what comes before that.
LEMMA Behind ==
  ASSUME NEW S, NEW q \in Seq(S), q # <<>>
  PROVE  /\ \A i \in 1..Len(Tail(q)) : Tail(q)[i] = q[i + 1] /\ i + 1 \in 1..Len(q)
         /\ \A i \in 1..Len(Tail(q)) : \A r :
              NoneBefore(q, i + 1, r) => NoneBefore(Tail(q), i, r) /\ Head(q).request_id # r
         /\ \A r : NoneOf(q, r) => NoneOf(Tail(q), r) /\ Head(q).request_id # r
<1>1. /\ Head(q) = q[1] /\ Len(Tail(q)) = Len(q) - 1 /\ Len(q) \in Nat /\ Len(q) >= 1
      /\ \A i \in 1..Len(Tail(q)) : Tail(q)[i] = q[i + 1]
  BY Taken
<1>2. /\ \A i \in 1..Len(Tail(q)) : i + 1 \in 1..Len(q) /\ 1 < i + 1
      /\ \A i, j \in 1..Len(Tail(q)) : j < i => j + 1 < i + 1
      /\ 1 \in 1..Len(q)
  BY <1>1
<1> QED
  BY <1>1, <1>2 DEF NoneBefore, NoneOf

\* The host takes a command.
LEMMA OrderTaken ==
  ASSUME NEW h \in Seq(HostCommand), h # <<>>, NEW e, NEW hs, NEW n,
         HostOrder(h, None, e, hs, n)
  PROVE  HostOrder(Tail(h), Head(h), e, hs, n) /\ WorkOrder(Head(h), e, hs, n)
<1>1. Head(h) = h[1] /\ 1 \in 1..Len(h)
  BY Taken
<1>2. WorkOrder(Head(h), e, hs, n)
  BY <1>1 DEF HostOrder, WorkOrder
<1>3. ASSUME NEW i \in 1..Len(Tail(h))
      PROVE  /\ Tail(h)[i] = h[i + 1] /\ i + 1 \in 1..Len(h)
             /\ \A r : NoneBefore(h, i + 1, r) =>
                         NoneBefore(Tail(h), i, r) /\ Head(h).request_id # r
  BY Behind
<1>4. HostOrder(Tail(h), Head(h), e, hs, n)
  BY <1>3 DEF HostOrder
<1> QED
  BY <1>2, <1>4

\* The host answers a command c with m, and turns to d.
LEMMA OrderAnswered ==
  ASSUME NEW h \in Seq(HostCommand), NEW c \in HostCommand, NEW e \in Seq(Completion),
         NEW hs, NEW n,
         HostOrder(h, c, e, hs, n), WorkOrder(c, e, hs, n), EngineOrder(e, hs, n),
         NEW d, d # None => d.request_id = c.request_id /\ d.kind # "submit",
         NEW m \in Completion, m.request_id = c.request_id,
         m.ok => c.kind = "submit"
  PROVE  /\ HostOrder(h, d, e, hs, n) /\ WorkOrder(d, e, hs, n)
         /\ HostOrder(h, d, Append(e, m), hs, n) /\ WorkOrder(d, Append(e, m), hs, n)
         /\ EngineOrder(Append(e, m), hs, n)
<1>1. /\ Len(e) \in Nat /\ Len(Append(e, m)) = Len(e) + 1
      /\ \A i \in 1..Len(e) : Append(e, m)[i] = e[i]
      /\ Append(e, m)[Len(e) + 1] = m
  BY Added
<1> DEFINE f == Append(e, m)
<1>2. /\ \A i \in 1..Len(f) : i \in 1..Len(e) \/ i = Len(e) + 1
      /\ \A i \in 1..Len(e), j \in 1..Len(f) : j < i => j \in 1..Len(e)
      /\ \A j \in 1..Len(f) : j < Len(e) + 1 => j \in 1..Len(e)
      /\ \A i \in 1..Len(e) : f[i] = e[i]
      /\ f[Len(e) + 1] = m
  BY <1>1
<1> HIDE DEF f
<1>3. c # None /\ c.request_id < n /\ (c.kind = "submit" => c.request_id \in hs)
  BY Commands DEF WorkOrder
<1>4. \A r : NoneOf(e, r) /\ r # c.request_id => NoneOf(f, r)
  BY <1>2 DEF NoneOf
<1>5. HostOrder(h, d, e, hs, n) /\ HostOrder(h, d, f, hs, n)
  BY <1>3, <1>4 DEF HostOrder
<1>6. WorkOrder(d, e, hs, n) /\ WorkOrder(d, f, hs, n)
  BY <1>3 DEF WorkOrder
<1>7. ASSUME NEW i \in 1..Len(f)
      PROVE  /\ f[i].request_id < n
             /\ f[i].ok => f[i].request_id \in hs /\ NoneBefore(f, i, f[i].request_id)
  <2>1. CASE i \in 1..Len(e)
    <3>1. \A r : NoneBefore(e, i, r) => NoneBefore(f, i, r)
      BY <1>2, <2>1 DEF NoneBefore
    <3> QED
      BY <1>2, <2>1, <3>1 DEF EngineOrder
  <2>2. CASE i = Len(e) + 1
    <3>1. c.kind = "submit" => NoneOf(e, c.request_id)
      BY <1>3 DEF WorkOrder
    <3>2. \A r : NoneOf(e, r) => NoneBefore(f, i, r)
      BY <1>2, <2>2 DEF NoneBefore, NoneOf
    <3> QED
      BY <1>2, <1>3, <2>2, <3>1, <3>2
  <2> QED
    BY <1>2, <2>1, <2>2
<1>8. EngineOrder(f, hs, n)
  BY <1>7 DEF EngineOrder
<1> QED
  BY <1>5, <1>6, <1>8 DEF f

\* The bridge dispatches an answer, to its handler if it still has one.
LEMMA OrderDispatched ==
  ASSUME NEW h, NEW c, NEW e \in Seq(Completion), e # <<>>, NEW hs, NEW n,
         HostOrder(h, c, e, hs, n), WorkOrder(c, e, hs, n), EngineOrder(e, hs, n)
  PROVE  LET left == hs \ {Head(e).request_id} IN
         /\ HostOrder(h, c, Tail(e), left, n) /\ WorkOrder(c, Tail(e), left, n)
         /\ EngineOrder(Tail(e), left, n)
<1> DEFINE left == hs \ {Head(e).request_id}
<1>1. \A r : NoneOf(e, r) => NoneOf(Tail(e), r) /\ Head(e).request_id # r
  BY Behind
<1>2. ASSUME NEW i \in 1..Len(Tail(e))
      PROVE  /\ Tail(e)[i] = e[i + 1] /\ i + 1 \in 1..Len(e)
             /\ \A r : NoneBefore(e, i + 1, r) =>
                         NoneBefore(Tail(e), i, r) /\ Head(e).request_id # r
  BY Behind
<1>3. HostOrder(h, c, Tail(e), left, n)
  BY <1>1 DEF HostOrder
<1>4. WorkOrder(c, Tail(e), left, n)
  BY <1>1 DEF WorkOrder
<1>5. EngineOrder(Tail(e), left, n)
  BY <1>2 DEF EngineOrder
<1> QED
  BY <1>3, <1>4, <1>5

\* Every step keeps the order.
LEMMA OrderStep == Typed /\ TeardownInv /\ OrderInv /\ [Next]_vars => OrderInv'
<1> SUFFICES ASSUME Typed, TeardownInv, OrderInv, [Next]_vars PROVE OrderInv'
  OBVIOUS
<1> DEFINE H == to_host
           C == current
           E == to_engine
           K == handlers
           N == next_request_id
<1>a. /\ H \in Seq(HostCommand) /\ E \in Seq(Completion)
      /\ N \in Nat /\ N >= 1 /\ C \in HostCommand \cup {None}
  BY DEF Typed
<1>b. HostOrder(H, C, E, K, N) /\ WorkOrder(C, E, K, N) /\ EngineOrder(E, K, N)
  BY DEF OrderInv
<1>c. ASSUME NEW m \in HostCommand, m.request_id < N, m.kind \in {"event", "cancel"},
             to_host' = Append(to_host, m),
             UNCHANGED <<to_engine, current, handlers, next_request_id>>
      PROVE  OrderInv'
  <2>1. HostOrder(Append(H, m), C, E, K, N)
    BY <1>a, <1>b, <1>c, OrderSent
  <2> QED
    BY <1>b, <1>c, <2>1 DEF OrderInv
<1>1. CASE EngineStarts \/ RunReturns
  <2>1. /\ UNCHANGED <<to_engine, current, handlers, next_request_id>>
        /\ \/ to_host' = to_host
           \/ \E operation \in Operation : to_host' = Append(to_host, Event(operation))
    BY <1>1 DEF EngineStarts, RunReturns, hostVars, Operation
  <2>2. \A operation \in Operation :
          /\ Event(operation) \in HostCommand /\ Event(operation).kind = "event"
          /\ Event(operation).request_id < N
    BY <1>a, NewCommands DEF Event
  <2>3. CASE to_host' = to_host
    BY <1>b, <2>1, <2>3 DEF OrderInv
  <2>4. ASSUME NEW operation \in Operation, to_host' = Append(to_host, Event(operation))
        PROVE  OrderInv'
    BY <1>c, <2>1, <2>2, <2>4
  <2> QED
    BY <2>1, <2>3, <2>4
<1>3. ASSUME NEW operation \in Operation, NEW resource \in ResourceId,
             BridgeSubmit(operation, resource)
      PROVE  OrderInv'
  <2> DEFINE m == Submit(operation, resource, PayloadOf(operation))
  <2>1. /\ N \in Request /\ N' = N + 1
        /\ UNCHANGED <<to_engine, current>>
        /\ \/ to_host' = Append(to_host, m) /\ handlers' = handlers \cup {N}
           \/ to_host' = to_host /\ handlers' = handlers \cup {}
    BY <1>3 DEF BridgeSubmit, hostVars
  <2>2. m \in HostCommand /\ m.request_id = N /\ m.kind = "submit"
    BY <1>3, <2>1, NewCommands
  <2> HIDE DEF m
  <2>3. \A x : /\ HostOrder(H, C, E, K \cup x, N + 1) /\ WorkOrder(C, E, K \cup x, N + 1)
               /\ EngineOrder(E, K \cup x, N + 1)
    BY <1>a, <1>b, OrderLater
  <2>4. HostOrder(Append(H, m), C, E, K \cup {N}, N + 1)
    <3>1. NoneOf(H, N)
      BY <1>a, <1>b DEF NoneOf, HostOrder
    <3>2. NoneOf(E, N)
      BY <1>a, <1>b DEF NoneOf, EngineOrder
    <3>3. C # None => C.request_id # N
      BY <1>a, <1>b DEF WorkOrder
    <3>4. N < N + 1
      BY <1>a
    <3> QED
      BY <1>a, <2>2, <2>3, <3>1, <3>2, <3>3, <3>4, OrderSent
  <2>5. CASE to_host' = Append(to_host, m) /\ handlers' = handlers \cup {N}
    BY <2>1, <2>3, <2>4, <2>5 DEF OrderInv
  <2>6. CASE to_host' = to_host /\ handlers' = handlers \cup {}
    BY <2>1, <2>3, <2>6 DEF OrderInv
  <2> QED
    BY <2>1, <2>5, <2>6
<1>4. CASE BridgeCancel
  <2>1. PICK id \in 1..(next_request_id - 1), operation \in {"resource_open", "resource_read"} :
       to_host' = Append(to_host,
         [kind |-> "cancel", operation |-> operation, request_id |-> id,
          resource_id |-> NoResource, ok |-> TRUE, payload |-> NoPayload])
    BY <1>4 DEF BridgeCancel
  <2> DEFINE m == [kind |-> "cancel", operation |-> operation, request_id |-> id,
                   resource_id |-> NoResource, ok |-> TRUE, payload |-> NoPayload]
  <2>2. id \in Request /\ operation \in Operation /\ id < N
    BY BoundAssumption DEF Typed, Request, Operation
  <2>3. m \in HostCommand /\ to_host' = Append(to_host, m)
    BY <2>1, <2>2, NewCancel
  <2>4. m.request_id < N /\ m.kind = "cancel"
    BY <2>2
  <2>5. UNCHANGED <<to_engine, current, handlers, next_request_id>>
    BY <1>4 DEF BridgeCancel, hostVars
  <2> HIDE DEF m
  <2> QED
    BY <1>c, <2>3, <2>4, <2>5
<1>5. CASE BridgePoll
  <2> DEFINE m == Head(to_engine)
  <2>1. /\ to_engine # <<>> /\ to_engine' = Tail(to_engine)
        /\ UNCHANGED <<next_request_id, to_host, current>>
        /\ Dispatch(m)
    BY <1>5 DEF BridgePoll, hostVars
  <2>2. handlers' = handlers \ {m.request_id}
    BY <2>1 DEF Dispatch
  <2>3. /\ HostOrder(H, C, Tail(E), K \ {m.request_id}, N)
        /\ WorkOrder(C, Tail(E), K \ {m.request_id}, N)
        /\ EngineOrder(Tail(E), K \ {m.request_id}, N)
    BY <1>a, <1>b, <2>1, OrderDispatched
  <2> QED
    BY <2>1, <2>2, <2>3 DEF OrderInv
<1>6. CASE HostReceive
  <2>1. /\ to_host # <<>> /\ to_host' = Tail(to_host) /\ current' = Head(to_host)
        /\ UNCHANGED <<next_request_id, to_engine, handlers>> /\ current = None
    BY <1>6 DEF HostReceive, vmVars
  <2>2. HostOrder(Tail(H), Head(H), E, K, N) /\ WorkOrder(Head(H), E, K, N)
    BY <1>a, <1>b, <2>1, OrderTaken
  <2> QED
    BY <1>b, <2>1, <2>2 DEF OrderInv
<1>7. CASE HostExecute
  <2>1. /\ UNCHANGED <<to_host, next_request_id, handlers>>
        /\ current \in HostCommand /\ current # None
    BY <1>7 DEF HostExecute, vmVars, Typed
  <2>2. CASE Ignores
    <3>1. HostOrder(H, None, E, K, N) /\ WorkOrder(None, E, K, N)
      BY <1>b, <2>1 DEF HostOrder, WorkOrder
    <3> QED
      BY <1>b, <2>1, <2>2, <3>1 DEF Ignores, OrderInv
  <2>3. ASSUME NEW c, Executes(c) PROVE OrderInv'
    <3> DEFINE D == current'
    <3>1. /\ c \in Completion /\ c.request_id = current.request_id
          /\ c.ok => current.kind = "submit"
          /\ current.kind # "event"
      BY <2>3 DEF Executes, Replies
    <3>2. D # None => D.request_id = current.request_id /\ D.kind # "submit"
      BY <2>1, <2>3, <3>1, SentOrNot, Releases
    <3>3. /\ HostOrder(H, D, E, K, N) /\ WorkOrder(D, E, K, N)
          /\ HostOrder(H, D, Append(E, c), K, N) /\ WorkOrder(D, Append(E, c), K, N)
          /\ EngineOrder(Append(E, c), K, N)
      <4> HIDE DEF D
      <4> QED
        BY <1>a, <1>b, <2>1, <3>1, <3>2, OrderAnswered
    <3>4. to_engine' = to_engine \/ to_engine' = Append(to_engine, c)
      BY <2>3, SentOrNot DEF Sent, NotSent
    <3> QED
      BY <1>b, <2>1, <3>3, <3>4 DEF OrderInv
  <2> QED
    BY <1>7, <2>2, <2>3, Executions
<1>8. CASE HostRelease
  <2>1. current' = None /\ UNCHANGED <<to_host, next_request_id, handlers, to_engine>>
    BY <1>8 DEF HostRelease, vmVars
  <2>2. HostOrder(H, None, E, K, N) /\ WorkOrder(None, E, K, N)
    BY <1>b DEF HostOrder, WorkOrder
  <2> QED
    BY <1>b, <2>1, <2>2 DEF OrderInv
<1>9. CASE HostDeinit \/ HostJoined \/ HostSeesStopping \/ HostReturns \/ UNCHANGED vars
  <2>1. UNCHANGED <<to_host, to_engine, current, next_request_id, handlers>>
    BY <1>9 DEF HostDeinit, HostJoined, HostSeesStopping, HostReturns, vmVars, vars
  <2> QED
    BY <1>b, <2>1 DEF OrderInv
<1>14. CASE EngineDestroyed
  <2>1. to_host' = <<>> /\ to_engine' = <<>> /\ current' = None
    BY <1>14 DEF EngineDestroyed, hostVars, TeardownInv
  <2>2. Len(to_host') = 0 /\ Len(to_engine') = 0
    BY <2>1
  <2> QED
    BY <2>1, <2>2 DEF OrderInv, HostOrder, WorkOrder, EngineOrder
<1>15. submitOpen => OrderInv'
  BY <1>3, NewCommands DEF submitOpen, Operation
<1>16. ASSUME NEW operation \in Operation, submitOn(operation) PROVE OrderInv'
  BY <1>3, <1>16 DEF submitOn, Typed
<1> QED
  BY <1>1, <1>4, <1>5, <1>6, <1>7, <1>8, <1>9, <1>14, <1>15, <1>16
  DEF Next, Client, HostStep, Teardown, Operation

\* Nothing overtakes a submit or a success.
LEMMA Ordering == Spec => []OrderInv
<1>1. Init => OrderInv
  <2> SUFFICES ASSUME Init PROVE OrderInv
    OBVIOUS
  <2>1. to_host = <<>> /\ to_engine = <<>> /\ current = None
    BY DEF Init
  <2>2. Len(to_host) = 0 /\ Len(to_engine) = 0
    BY <2>1
  <2> QED
    BY <2>1, <2>2 DEF OrderInv, HostOrder, WorkOrder, EngineOrder
<1> QED
  BY <1>1, Typing, TearingDown, OrderStep, PTL DEF Spec

-----------------------------------------------------------------------------
(* Open files.                                                             *)

\* A file is still named when an answer has been sent,
LEMMA NamedSent ==
  ASSUME NEW t, NEW i, NEW kn, NEW e \in Seq(Completion), FileNamed(t, i, kn, e),
         NEW m \in Completion
  PROVE  FileNamed(t, i, kn, Append(e, m))
<1>1. /\ Len(e) \in Nat /\ Len(Append(e, m)) = Len(e) + 1
      /\ \A j \in 1..Len(e) : Append(e, m)[j] = e[j]
  BY Added
<1>2. \A j \in 1..Len(e) : j \in 1..Len(Append(e, m))
  BY <1>1
<1> QED
  BY <1>1, <1>2 DEF FileNamed

\* ... and when it has been dispatched, the id being known if it told one.
LEMMA NamedDispatched ==
  ASSUME NEW t, NEW i, NEW kn, NEW e \in Seq(Completion), e # <<>>, FileNamed(t, i, kn, e),
         NEW kn2, kn \subseteq kn2,
         Head(e).ok /\ Head(e).operation = "resource_open" =>
           [id |-> Head(e).resource_id, file |-> Head(e).request_id] \in kn2
  PROVE  FileNamed(t, i, kn2, Tail(e))
<1>1. /\ Head(e) = e[1] /\ Len(Tail(e)) = Len(e) - 1 /\ Len(e) \in Nat
      /\ \A j \in 1..Len(Tail(e)) : Tail(e)[j] = e[j + 1]
  BY Taken
<1>2. \A j \in 1..Len(e) : j # 1 => j - 1 \in 1..Len(Tail(e)) /\ Tail(e)[j - 1] = e[j]
  BY <1>1
<1> SUFFICES ASSUME t[i].fd # 0
             PROVE  LET id == [index |-> i, generation |-> t[i].generation]
                    IN \/ [id |-> id, file |-> t[i].fd] \in kn2
                       \/ \E m \in 1..Len(Tail(e)) : Tells(Tail(e)[m], id, t[i].fd)
  BY DEF FileNamed
<1> DEFINE id == [index |-> i, generation |-> t[i].generation]
<1>3. CASE [id |-> id, file |-> t[i].fd] \in kn
  BY <1>3
<1>4. ASSUME NEW m \in 1..Len(e), Tells(e[m], id, t[i].fd)
      PROVE  \/ [id |-> id, file |-> t[i].fd] \in kn2
             \/ \E k \in 1..Len(Tail(e)) : Tells(Tail(e)[k], id, t[i].fd)
  <2>1. CASE m = 1
    BY <1>1, <1>4, <2>1 DEF Tells
  <2>2. CASE m # 1
    BY <1>2, <1>4, <2>2
  <2> QED
    BY <2>1, <2>2
<1>5. \/ [id |-> id, file |-> t[i].fd] \in kn
      \/ \E m \in 1..Len(e) : Tells(e[m], id, t[i].fd)
  BY DEF FileNamed
<1> QED
  BY <1>3, <1>4, <1>5

\* A slot that is closed needs no name.
LEMMA ClosedNeedsNoName ==
  ASSUME NEW table, NEW i, table[i].fd = 0, NEW kn, NEW e
  PROVE  FileNamed(table, i, kn, e)
  BY DEF FileNamed

\* A slot that is not touched keeps its name.
LEMMA SameSlotNamed ==
  ASSUME NEW t, NEW u, NEW i, u[i] = t[i], NEW kn, NEW e, FileNamed(t, i, kn, e)
  PROVE  FileNamed(u, i, kn, e)
  BY DEF FileNamed

\* Every step keeps the open files named.
LEMMA FilesStep == Typed /\ OrderInv /\ FilesInv /\ [Next]_vars => FilesInv'
<1> SUFFICES ASSUME Typed, OrderInv, FilesInv, [Next]_vars PROVE FilesInv'
  OBVIOUS
<1>a. /\ to_engine \in Seq(Completion) /\ resources \in Seq(ResourceSlot)
      /\ DOMAIN resources = 1..Len(resources)
  BY LenProperties DEF Typed
<1>1. CASE UNCHANGED <<resources, known, to_engine>>
  BY <1>1 DEF FilesInv
<1>2. CASE HostJoined
  BY <1>2 DEF HostJoined, FilesInv
<1>3. CASE BridgePoll
  <2> DEFINE m == Head(to_engine)
  <2>1. /\ m \in Completion /\ to_engine # <<>> /\ to_engine' = Tail(to_engine)
        /\ resources' = resources /\ Dispatch(m) /\ m = to_engine[1]
        /\ 1 \in 1..Len(to_engine)
    BY <1>3, Taken DEF BridgePoll, hostVars, Typed
  <2>2. m.ok => m.request_id \in handlers
    BY <2>1 DEF OrderInv, EngineOrder
  <2>3. /\ known \subseteq known'
        /\ m.ok /\ m.operation = "resource_open" =>
             [id |-> m.resource_id, file |-> m.request_id] \in known'
    <3> HIDE DEF m
    <3> QED
      BY <2>1, <2>2 DEF Dispatch
  <2>4. ASSUME NEW i \in DOMAIN resources
        PROVE  FileNamed(resources, i, known', Tail(to_engine))
    BY <1>a, <2>1, <2>3, NamedDispatched DEF FilesInv
  <2> QED
    BY <2>1, <2>4 DEF FilesInv
<1>4. CASE HostExecute
  <2>1. known' = known /\ current \in HostCommand
    BY <1>4 DEF HostExecute, vmVars, Typed
  <2>2. CASE Ignores
    BY <1>1, <2>1, <2>2 DEF Ignores
  <2>3. ASSUME NEW c, Executes(c) PROVE FilesInv'
    <3>1. c \in Completion /\ c.request_id \in Request
      BY <2>3, Completions DEF Executes, Replies
    <3>2. to_engine' = to_engine \/ to_engine' = Append(to_engine, c)
      BY <2>3, SentOrNot DEF Sent, NotSent
    <3>3. ASSUME NEW i \in DOMAIN resources
          PROVE  FileNamed(resources, i, known', to_engine')
      <4>1. /\ FileNamed(resources, i, known, to_engine)
            /\ FileNamed(resources, i, known, Append(to_engine, c))
        BY <1>a, <3>1, NamedSent DEF FilesInv
      <4> QED
        BY <2>1, <3>2, <4>1
    <3>4. CASE Untouched(c)
      BY <3>3, <3>4 DEF Untouched, FilesInv
    <3>5. CASE ClosesOne(c)
      <4>1. PICK i \in DOMAIN resources : resources' = WithoutResource(resources, i)
        BY <3>5 DEF ClosesOne
      <4>2. /\ DOMAIN resources' = DOMAIN resources /\ resources'[i].fd = 0
            /\ \A j \in DOMAIN resources : j # i => resources'[j] = resources[j]
        BY <1>a, <4>1, SlotClosed
      <4>3. ASSUME NEW j \in DOMAIN resources
            PROVE  FileNamed(resources', j, known', to_engine')
        BY <3>3, <4>2, SameSlotNamed, ClosedNeedsNoName
      <4> QED
        BY <4>2, <4>3 DEF FilesInv
    <3>6. ASSUME NEW i \in 1..(Len(resources) + 1), OpensOne(c, i) PROVE FilesInv'
      <4> DEFINE t == WithResource(i, c.request_id)
      <4>1. /\ t \in Seq(ResourceSlot) /\ DOMAIN t = DOMAIN resources \cup {i}
            /\ t[i].fd = c.request_id
            /\ \A j \in DOMAIN resources : j # i => t[j] = resources[j]
        BY <1>a, <3>1, SlotOpened
      <4>2. /\ c.ok /\ c.operation = "resource_open"
            /\ c.resource_id = [index |-> i, generation |-> t[i].generation]
            /\ Opened(c, t, i)
        BY <3>6 DEF OpensOne
      <4> HIDE DEF t
      <4>3. CASE Sent(c) /\ resources' = t
        <5>1. FileNamed(t, i, known', to_engine')
          <6>1. /\ Len(to_engine) + 1 \in 1..Len(to_engine')
                /\ to_engine'[Len(to_engine) + 1] = c
            BY <1>a, <3>1, <4>3, Added DEF Sent
          <6>2. Tells(c, [index |-> i, generation |-> t[i].generation], t[i].fd)
            BY <4>1, <4>2 DEF Tells
          <6> QED
            BY <6>1, <6>2 DEF FileNamed
        <5>2. ASSUME NEW j \in DOMAIN resources, j # i
              PROVE  FileNamed(t, j, known', to_engine')
          BY <3>3, <4>1, <5>2, SameSlotNamed
        <5> QED
          BY <4>1, <4>3, <5>1, <5>2 DEF FilesInv
      <4>4. CASE resources' = WithoutResource(t, i)
        <5>1. i \in DOMAIN t
          BY <4>1
        <5>2. /\ DOMAIN resources' = DOMAIN t /\ resources'[i].fd = 0
              /\ \A j \in DOMAIN t : j # i => resources'[j] = t[j]
          BY <4>1, <4>4, <5>1, SlotClosed
        <5>3. ASSUME NEW j \in DOMAIN t
              PROVE  FileNamed(resources', j, known', to_engine')
          <6>1. CASE j = i
            BY <5>2, <6>1, ClosedNeedsNoName
          <6>2. CASE j # i
            BY <3>3, <4>1, <5>2, <6>2, SameSlotNamed
          <6> QED
            BY <6>1, <6>2
        <5> QED
          BY <5>2, <5>3 DEF FilesInv
      <4> QED
        BY <4>2, <4>3, <4>4 DEF Opened
    <3> QED
      BY <2>3, <3>4, <3>5, <3>6 DEF Executes
  <2> QED
    BY <1>4, <2>2, <2>3, Executions
<1> QED
  <2>1. CASE Client
    BY <1>1, <2>1
    DEF Client, submitOpen, submitOn, BridgeSubmit, BridgeCancel, hostVars
  <2>2. CASE EngineStarts \/ RunReturns
    BY <1>1, <2>2 DEF EngineStarts, RunReturns, hostVars
  <2>3. CASE HostReceive \/ HostRelease \/ HostSeesStopping \/ HostReturns
    BY <1>1, <2>3 DEF HostReceive, HostRelease, HostSeesStopping, HostReturns, vmVars
  <2>4. CASE HostDeinit \/ EngineDestroyed
    BY <1>1, <2>4 DEF HostDeinit, EngineDestroyed, hostVars
  <2>5. CASE UNCHANGED vars
    BY <1>1, <2>5 DEF vars
  <2> QED
    BY <1>2, <1>3, <1>4, <2>1, <2>2, <2>3, <2>4, <2>5 DEF Next, HostStep, Teardown

\* Host.openFile: a file stays open only if the engine can name it: it was told
\* the id or the completion is on its way.
THEOREM FilesReachable == Spec => []OpenFilesAreReachable
<1>1. Init => FilesInv
  BY DEF Init, FilesInv
<1>2. Typed /\ FilesInv => OpenFilesAreReachable
  <2> SUFFICES ASSUME Typed, FilesInv PROVE OpenFilesAreReachable
    OBVIOUS
  <2>1. DOMAIN to_engine = 1..Len(to_engine)
    BY LenProperties DEF Typed
  <2> QED
    BY <2>1 DEF FilesInv, FileNamed, Tells, OpenFilesAreReachable
<1> QED
  BY <1>1, <1>2, Typing, Ordering, FilesStep, PTL DEF Spec

-----------------------------------------------------------------------------
(* Resource ids.                                                           *)

\* Closing a slot outdates the ids told for it; the others stay as they are.
LEMMA FitsClosed ==
  ASSUME NEW t \in Seq(ResourceSlot), NEW i \in DOMAIN t, SlotInv(t[i]),
         NEW id \in ResourceId, NEW file, IdFits(t, id, file)
  PROVE  IdFits(WithoutResource(t, i), id, file)
<1> DEFINE u == WithoutResource(t, i)
<1>1. /\ DOMAIN u = DOMAIN t /\ u[i] = ClosedSlot(t[i])
      /\ \A j \in DOMAIN t : j # i => u[j] = t[j]
      /\ u[i].closes = t[i].closes + 1
      /\ t[i].closes \in Nat /\ t[i].generation \in 1..MaxGeneration
      /\ t[i].generation # MaxGeneration => u[i].generation = t[i].generation + 1
  BY SlotClosed
<1> HIDE DEF u
<1>2. CASE id.index # i
  BY <1>1, <1>2 DEF IdFits, u
<1>3. CASE id.index = i
  <2>1. SUFFICES ASSUME u[i].closes < MaxGeneration
                 PROVE  id.generation < u[i].generation
    BY <1>1, <1>3 DEF IdFits, u
  <2>2. id.generation \in Nat
    BY DEF ResourceId
  <2>3. t[i].closes < MaxGeneration /\ t[i].closes + 1 < MaxGeneration
    BY <1>1, <2>1, BoundAssumption
  <2>4. t[i].generation = t[i].closes + 1
    BY <2>3 DEF SlotInv
  <2>5. u[i].generation = t[i].generation + 1
    BY <1>1, <2>3, <2>4, BoundAssumption
  <2>6. id.generation < t[i].generation \/ id.generation = t[i].generation
    BY <1>3, <2>3 DEF IdFits
  <2> QED
    BY <1>1, <2>2, <2>5, <2>6
<1> QED
  BY <1>2, <1>3

\* A slot still counts its closes.
LEMMA SlotInvClosed ==
  ASSUME NEW t \in Seq(ResourceSlot), NEW i \in DOMAIN t,
         \A j \in DOMAIN t : SlotInv(t[j])
  PROVE  \A j \in DOMAIN t : SlotInv(WithoutResource(t, i)[j])
<1> DEFINE u == WithoutResource(t, i)
<1>1. /\ \A j \in DOMAIN t : j # i => u[j] = t[j]
      /\ u[i].closes = t[i].closes + 1
      /\ t[i].closes \in Nat /\ t[i].generation \in 1..MaxGeneration
      /\ t[i].generation # MaxGeneration => u[i].generation = t[i].generation + 1
  BY SlotClosed
<1> HIDE DEF u
<1>2. SlotInv(u[i])
  <2> SUFFICES ASSUME u[i].closes < MaxGeneration PROVE u[i].generation = u[i].closes + 1
    BY DEF SlotInv
  <2>1. t[i].closes < MaxGeneration /\ t[i].closes + 1 < MaxGeneration
    BY <1>1, BoundAssumption
  <2>2. t[i].generation = t[i].closes + 1
    BY <2>1 DEF SlotInv
  <2> QED
    BY <1>1, <2>1, <2>2, BoundAssumption
<1> QED
  BY <1>1, <1>2 DEF u

\* Opening a file in a free slot leaves the ids told before outdated, and the
\* new one fits.
LEMMA FitsOpened ==
  ASSUME resources \in Seq(ResourceSlot), NEW fd \in Request,
         NEW i \in 1..(Len(resources) + 1),
         i \in DOMAIN resources => resources[i].fd = 0,
         \A j \in DOMAIN resources : SlotInv(resources[j])
  PROVE  LET t == WithResource(i, fd) IN
         /\ \A id, file : file \in Request /\ IdFits(resources, id, file) =>
              IdFits(t, id, file)
         /\ \A j \in DOMAIN t : SlotInv(t[j])
         /\ IdFits(t, [index |-> i, generation |-> t[i].generation], fd)
<1> DEFINE t == WithResource(i, fd)
<1>1. /\ DOMAIN t = DOMAIN resources \cup {i}
      /\ t[i].fd = fd
      /\ i \in DOMAIN resources =>
           t[i].generation = resources[i].generation /\ t[i].closes = resources[i].closes
      /\ i \notin DOMAIN resources => t[i].generation = 1 /\ t[i].closes = 0
      /\ \A j \in DOMAIN resources : j # i => t[j] = resources[j]
  BY SlotOpened
<1> HIDE DEF t
<1>2. ASSUME NEW id, NEW file \in Request, IdFits(resources, id, file)
      PROVE  IdFits(t, id, file)
  <2>1. file # 0
    BY DEF Request
  <2> QED
    BY <1>1, <1>2, <2>1 DEF IdFits
<1>3. \A j \in DOMAIN t : SlotInv(t[j])
  BY <1>1 DEF SlotInv
<1>4. IdFits(t, [index |-> i, generation |-> t[i].generation], fd)
  BY <1>1 DEF IdFits
<1> QED
  BY <1>2, <1>3, <1>4 DEF t

\* The ids that fit still do when an answer that tells no id, or a fitting one,
\* has been sent,
LEMMA FitSent ==
  ASSUME NEW t, NEW kn, NEW e \in Seq(Completion), IdsFit(t, kn, e), NEW m \in Completion,
         m.ok /\ m.operation = "resource_open" => IdFits(t, m.resource_id, m.request_id)
  PROVE  IdsFit(t, kn, Append(e, m))
<1>1. /\ Len(e) \in Nat /\ Len(Append(e, m)) = Len(e) + 1
      /\ \A j \in 1..Len(e) : Append(e, m)[j] = e[j]
      /\ Append(e, m)[Len(e) + 1] = m
  BY Added
<1>2. \A j \in 1..Len(Append(e, m)) : j \in 1..Len(e) \/ j = Len(e) + 1
  BY <1>1
<1> QED
  BY <1>1, <1>2 DEF IdsFit

\* ... and when one has been dispatched.
LEMMA FitDispatched ==
  ASSUME NEW t, NEW kn, NEW e \in Seq(Completion), e # <<>>, IdsFit(t, kn, e),
         NEW kn2,
         \A k \in kn2 : \/ k \in kn
                        \/ /\ Head(e).ok /\ Head(e).operation = "resource_open"
                           /\ k.id = Head(e).resource_id /\ k.file = Head(e).request_id
  PROVE  IdsFit(t, kn2, Tail(e))
<1>1. /\ Head(e) = e[1] /\ Len(Tail(e)) = Len(e) - 1 /\ Len(e) \in Nat /\ Len(e) >= 1
      /\ \A j \in 1..Len(Tail(e)) : Tail(e)[j] = e[j + 1]
  BY Taken
<1>2. 1 \in 1..Len(e) /\ \A j \in 1..Len(Tail(e)) : j + 1 \in 1..Len(e)
  BY <1>1
<1> QED
  BY <1>1, <1>2 DEF IdsFit

\* Every step keeps the ids fitting.
LEMMA IdsStep == Typed /\ IdsInv /\ [Next]_vars => IdsInv'
<1> SUFFICES ASSUME Typed, IdsInv, [Next]_vars PROVE IdsInv'
  OBVIOUS
<1>a. /\ to_engine \in Seq(Completion) /\ resources \in Seq(ResourceSlot)
      /\ DOMAIN resources = 1..Len(resources)
      /\ \A k \in known : k.id \in ResourceId /\ k.file \in Request
      /\ \A m \in 1..Len(to_engine) : /\ to_engine[m].resource_id \in ResourceId
                                      /\ to_engine[m].request_id \in Request
  <2>1. \A m \in 1..Len(to_engine) : to_engine[m] \in Completion
    BY ElementOfSeq DEF Typed
  <2> QED
    BY <2>1, LenProperties, Completions DEF Typed
<1>1. CASE /\ UNCHANGED <<resources, known, to_engine>>
           /\ engine' \notin {"joined", "destroyed"} => engine \notin {"joined", "destroyed"}
  BY <1>1 DEF IdsInv
<1>2. CASE HostJoined
  BY <1>2 DEF HostJoined, IdsInv
<1>3. CASE BridgePoll
  <2> DEFINE m == Head(to_engine)
  <2>1. /\ to_engine # <<>> /\ to_engine' = Tail(to_engine)
        /\ resources' = resources /\ engine' = engine /\ Dispatch(m)
    BY <1>3 DEF BridgePoll, hostVars
  <2>2. ASSUME NEW k \in known'
        PROVE  \/ k \in known
               \/ /\ m.ok /\ m.operation = "resource_open"
                  /\ k.id = m.resource_id /\ k.file = m.request_id
    <3> HIDE DEF m
    <3> QED
      BY <2>1 DEF Dispatch
  <2>3. IdsFit(resources, known, to_engine) => IdsFit(resources, known', Tail(to_engine))
    BY <1>a, <2>1, <2>2, FitDispatched
  <2> QED
    BY <2>1, <2>3 DEF IdsInv
<1>4. CASE HostExecute
  <2>1. known' = known /\ engine' = engine /\ current \in HostCommand
    BY <1>4 DEF HostExecute, vmVars, Typed
  <2>2. CASE Ignores
    BY <1>1, <2>1, <2>2 DEF Ignores
  <2>3. ASSUME NEW c, Executes(c) PROVE IdsInv'
    <3>1. c \in Completion /\ c.request_id \in Request
      BY <2>3, Completions DEF Executes, Replies
    <3>2. to_engine' = to_engine \/ to_engine' = Append(to_engine, c)
      BY <2>3, SentOrNot DEF Sent, NotSent
    <3>3. ASSUME NEW t, IdsFit(t, known, to_engine),
                 c.ok /\ c.operation = "resource_open" => IdFits(t, c.resource_id, c.request_id)
          PROVE  IdsFit(t, known', to_engine')
      <4>1. IdsFit(t, known, Append(to_engine, c))
        BY <1>a, <3>1, <3>3, FitSent
      <4> QED
        BY <2>1, <3>2, <3>3, <4>1
    <3>4. CASE Untouched(c)
      <4>1. IdsFit(resources, known, to_engine) => IdsFit(resources, known', to_engine')
        BY <3>3, <3>4 DEF Untouched
      <4> QED
        BY <2>1, <3>4, <4>1 DEF Untouched, IdsInv
    <3>5. CASE ClosesOne(c)
      <4>1. PICK i \in DOMAIN resources : resources' = WithoutResource(resources, i)
        BY <3>5 DEF ClosesOne
      <4>2. /\ DOMAIN resources' = DOMAIN resources
            /\ \A j \in DOMAIN resources : SlotInv(resources'[j])
        BY <1>a, <4>1, SlotClosed, SlotInvClosed DEF IdsInv
      <4>3. \A id \in ResourceId : \A file :
              IdFits(resources, id, file) => IdFits(resources', id, file)
        BY <1>a, <4>1, FitsClosed DEF IdsInv
      <4>4. IdsFit(resources, known, to_engine) => IdsFit(resources', known, to_engine)
        BY <1>a, <4>3 DEF IdsFit
      <4>5. ~(c.ok /\ c.operation = "resource_open")
        BY <3>5 DEF ClosesOne
      <4>6. IdsFit(resources, known, to_engine) => IdsFit(resources', known', to_engine')
        BY <3>3, <4>4, <4>5
      <4> QED
        BY <2>1, <4>2, <4>6 DEF IdsInv
    <3>6. ASSUME NEW i \in 1..(Len(resources) + 1), OpensOne(c, i) PROVE IdsInv'
      <4> DEFINE t == WithResource(i, c.request_id)
      <4>1. t \in Seq(ResourceSlot) /\ i \in DOMAIN t
        <5>1. t \in Seq(ResourceSlot) /\ DOMAIN t = DOMAIN resources \cup {i}
          BY <1>a, <3>1, <3>6, SlotOpened
        <5> QED
          BY <5>1
      <4>2. /\ c.ok /\ c.operation = "resource_open"
            /\ c.resource_id = [index |-> i, generation |-> t[i].generation]
            /\ Opened(c, t, i)
            /\ i \in DOMAIN resources => resources[i].fd = 0
        BY <3>6 DEF OpensOne
      <4>3. /\ \A id, file : file \in Request /\ IdFits(resources, id, file) =>
                 IdFits(t, id, file)
            /\ \A j \in DOMAIN t : SlotInv(t[j])
            /\ IdFits(t, [index |-> i, generation |-> t[i].generation], c.request_id)
        BY <1>a, <3>1, <4>2, FitsOpened DEF IdsInv
      <4> HIDE DEF t
      <4>4. IdsFit(resources, known, to_engine) => IdsFit(t, known, to_engine)
        BY <1>a, <4>3 DEF IdsFit
      <4>5. CASE resources' = t
        <5>1. IdsFit(t, known, to_engine) => IdsFit(t, known', to_engine')
          BY <3>3, <4>2, <4>3
        <5> QED
          BY <2>1, <4>3, <4>4, <4>5, <5>1 DEF IdsInv
      <4>6. CASE resources' = WithoutResource(t, i) /\ to_engine' = to_engine
        <5>1. /\ DOMAIN resources' = DOMAIN t
              /\ \A j \in DOMAIN t : SlotInv(resources'[j])
          BY <4>1, <4>3, <4>6, SlotClosed, SlotInvClosed
        <5>2. \A id \in ResourceId : \A file :
                IdFits(t, id, file) => IdFits(resources', id, file)
          BY <4>1, <4>3, <4>6, FitsClosed
        <5>3. IdsFit(t, known, to_engine) => IdsFit(resources', known', to_engine')
          BY <1>a, <2>1, <4>6, <5>2 DEF IdsFit
        <5> QED
          BY <2>1, <4>4, <5>1, <5>3 DEF IdsInv
      <4> QED
        BY <4>2, <4>5, <4>6 DEF Opened, NotSent
    <3> QED
      BY <2>3, <3>4, <3>5, <3>6 DEF Executes
  <2> QED
    BY <1>4, <2>2, <2>3, Executions
<1> QED
  <2>1. CASE Client
    BY <1>1, <2>1
    DEF Client, submitOpen, submitOn, BridgeSubmit, BridgeCancel, hostVars
  <2>2. CASE EngineStarts \/ RunReturns
    BY <1>1, <2>2 DEF EngineStarts, RunReturns, hostVars
  <2>3. CASE HostReceive \/ HostRelease \/ HostSeesStopping \/ HostReturns
    BY <1>1, <2>3 DEF HostReceive, HostRelease, HostSeesStopping, HostReturns, vmVars
  <2>4. CASE HostDeinit \/ EngineDestroyed
    BY <1>1, <2>4 DEF HostDeinit, EngineDestroyed, hostVars
  <2>5. CASE UNCHANGED vars
    BY <1>1, <2>5 DEF vars
  <2> QED
    BY <1>2, <1>3, <1>4, <2>1, <2>2, <2>3, <2>4, <2>5 DEF Next, HostStep, Teardown

\* Host.getResource: until a slot's generation has gone a whole lap, an id the
\* engine was ever told names the file it was told for, or nothing.
THEOREM IdsKeepTheirFile == Spec => []ResourceIdsKeepTheirFile
<1>1. Init => IdsInv
  <2> SUFFICES ASSUME Init PROVE IdsInv
    OBVIOUS
  <2>1. resources = <<>> /\ known = {} /\ to_engine = <<>>
    BY DEF Init
  <2>2. Len(to_engine) = 0
    BY <2>1
  <2> QED
    BY <2>1, <2>2 DEF IdsInv, IdsFit
<1>2. Typed /\ TeardownInv /\ IdsInv => ResourceIdsKeepTheirFile
  <2> SUFFICES ASSUME Typed, TeardownInv, IdsInv, NEW k \in known,
                      getResource(k.id), resources[k.id.index].fd # k.file
               PROVE  resources[k.id.index].closes >= MaxGeneration
    BY DEF ResourceIdsKeepTheirFile
  <2> DEFINE i == k.id.index
  <2>1. i \in DOMAIN resources /\ resources[i].generation = k.id.generation
    BY DEF getResource
  <2>2. engine \notin {"joined", "destroyed"}
    BY <2>1 DEF TeardownInv
  <2>3. resources[i] \in ResourceSlot
    BY <2>1, ElementOfSeq, LenProperties DEF Typed
  <2>4. resources[i].closes \in Nat /\ resources[i].generation \in Nat
    BY <2>3 DEF ResourceSlot
  <2>5. IdFits(resources, k.id, k.file)
    BY <2>2 DEF IdsInv, IdsFit
  <2>6. ~(resources[i].closes < MaxGeneration)
    BY <2>1, <2>4, <2>5 DEF IdFits
  <2> QED
    BY <2>4, <2>6, BoundAssumption
<1> QED
  BY <1>1, <1>2, Typing, TearingDown, IdsStep, PTL DEF Spec

-----------------------------------------------------------------------------
(* Type correctness.                                                       *)

\* The pool has nothing left in it once it is freed.
PoolFreed == engine = "destroyed" => refs = [b \in Request |-> 0]

\* Nobody uses the pool afterwards.
LEMMA FreedStep == TeardownInv /\ PoolFreed /\ [Next]_vars => PoolFreed'
<1> SUFFICES ASSUME TeardownInv, PoolFreed, [Next]_vars, engine' = "destroyed"
             PROVE  refs' = [b \in Request |-> 0]
  BY DEF PoolFreed
<1>1. CASE EngineDestroyed
  BY <1>1 DEF EngineDestroyed
<1>2. CASE engine = "destroyed" /\ refs' = refs
  BY <1>2 DEF PoolFreed
<1>3. CASE HostExecute \/ HostRelease
  <2>1. engine = "destroyed" /\ current # None
    BY <1>3 DEF HostExecute, HostRelease, vmVars
  <2> QED
    BY <2>1 DEF TeardownInv
<1>4. CASE Client \/ EngineStarts \/ RunReturns
  BY <1>4 DEF Client, submitOpen, submitOn, BridgeSubmit, BridgeCancel, EngineStarts, RunReturns
<1>5. CASE BridgePoll
  BY <1>5 DEF BridgePoll
<1>6. CASE HostReceive \/ HostSeesStopping \/ HostReturns
  BY <1>2, <1>6 DEF HostReceive, HostSeesStopping, HostReturns, vmVars
<1>7. CASE HostDeinit \/ HostJoined
  BY <1>7 DEF HostDeinit, HostJoined
<1>8. CASE UNCHANGED vars
  BY <1>2, <1>8 DEF vars
<1> QED
  BY <1>1, <1>3, <1>4, <1>5, <1>6, <1>7, <1>8 DEF Next, HostStep, Teardown

\* The state is well typed, and no count of references becomes negative.
THEOREM TypeCorrect == Spec => []TypeOK
<1>1. Typed /\ TeardownInv /\ OwnersInv /\ OrderInv /\ PoolFreed => TypeOK
  <2> SUFFICES ASSUME Typed, TeardownInv, OwnersInv, OrderInv, PoolFreed PROVE TypeOK
    OBVIOUS
  <2>1. refs \in [Request -> Nat]
    <3>1. ASSUME NEW b \in Request PROVE refs[b] \in Nat
      <4>1. CASE engine = "destroyed"
        BY <4>1 DEF PoolFreed
      <4>2. CASE engine # "destroyed"
        <5>1. OnePlace(b, to_host, to_engine, current, dropped, next_request_id, refs[b])
          BY <4>2 DEF OwnersInv
        <5>2. refs[b] = 0 \/ refs[b] = 1
          BY <5>1 DEF OnePlace
        <5> QED
          BY <5>2
      <4> QED
        BY <4>1, <4>2
    <3> QED
      BY <3>1 DEF Typed
  <2>2. to_host \in Seq(Command)
    <3>1. ASSUME NEW i \in 1..Len(to_host) PROVE to_host[i] \in Command
      <4>1. to_host[i] \in HostCommand
        BY ElementOfSeq DEF Typed
      <4>2. to_host[i].kind # "release"
        BY DEF OrderInv, HostOrder
      <4> QED
        BY <4>1, <4>2 DEF HostCommand, Command
    <3>2. Len(to_host) \in Nat /\ to_host = [i \in 1..Len(to_host) |-> to_host[i]]
      BY LenProperties DEF Typed
    <3> QED
      BY <3>1, <3>2, IsASeq
  <2>3. to_engine \in Seq(Command)
    <3>1. ASSUME NEW i \in 1..Len(to_engine) PROVE to_engine[i] \in Command
      <4>1. to_engine[i] \in Completion
        BY ElementOfSeq DEF Typed
      <4>2. \A r \in Request : r \in 0..MaxRequests
        BY DEF Request
      <4> QED
        BY <4>1, <4>2 DEF Completion, Command
    <3>2. Len(to_engine) \in Nat /\ to_engine = [i \in 1..Len(to_engine) |-> to_engine[i]]
      BY LenProperties DEF Typed
    <3> QED
      BY <3>1, <3>2, IsASeq
  <2> QED
    BY <2>1, <2>2, <2>3 DEF TypeOK, Typed, TeardownInv
<1>2. Init => PoolFreed
  BY DEF Init, PoolFreed
<1> QED
  BY <1>1, <1>2, Typing, TearingDown, Owning, Ordering, FreedStep, PTL DEF Spec

=============================================================================
