-------------------------- MODULE HttpThreadProofs --------------------------
(***************************************************************************)
(* Proofs about HttpThread, for any number of requests, any limit of       *)
(* simultaneous ones and any choice of those that have signals, stream     *)
(* their bodies or may be aborted.                                         *)
(*                                                                         *)
(*   TypeOK      what each variable can be                                 *)
(*   PlaceInv    the three lists are in the order of scheduling, and a     *)
(*               request is in one of them, running or finished            *)
(*   TurnInv     who starts, starts before all that wait, because a list   *)
(*               is only ever left behind when every slot is taken         *)
(***************************************************************************)
EXTENDS HttpThread, FiniteSetTheorems, SequenceTheorems, TLAPS

-----------------------------------------------------------------------------
(* The invariants.                                                         *)

\* What a list holds.
In(x, list) == \E i \in 1..Len(list) : list[i] = x

\* A list is in the order of scheduling,
Ascending(list) ==
  \A i, j \in 1..Len(list) : i < j => list[i] < list[j]

\* ... and all of one list comes before another.
Before(a, b) == \A x, y \in Request : In(x, a) /\ In(y, b) => x < y

\* The request r waits in one of the lists.
Waits(r, d, p, q) == In(r, d) \/ In(r, p) \/ In(r, q)

\* The lists that are walked one after the other are one list.
Ordered(d, p, q) ==
  /\ Ascending(d) /\ Ascending(p) /\ Ascending(q)
  /\ Before(d, p) /\ Before(d, q) /\ Before(p, q)

\* A request that waits has not been started, one that runs has not finished,
\* and one that has been scheduled is in one of the three places.
PlaceOf(d, p, q, a, o, t, c) ==
  \A r \in Request :
    /\ Waits(r, d, p, q) => r \notin a /\ o[r] = "none" /\ t[r] = "none"
    /\ r \in a => o[r] = "none"
    /\ c[r] = "new" => /\ ~Waits(r, d, p, q) /\ r \notin a
                       /\ o[r] = "none" /\ t[r] = "none"
    /\ c[r] # "new" => Waits(r, d, p, q) \/ r \in a \/ o[r] # "none"

\* Requests are named in the order they are scheduled.
NewLast(c) == \A x, y \in Request : x < y /\ c[x] = "new" => c[y] = "new"

PlaceInv ==
  /\ Ordered(deferred_tasks, pending, queued_tasks)
  /\ PlaceOf(deferred_tasks, pending, queued_tasks, active, outcome, transport, caller)
  /\ NewLast(caller)

\* One that has left the lists without an abort was before all that wait;
Overtakes(d, p, q, ab, c) ==
  \A r, w \in Request :
    /\ Waits(w, d, p, q) /\ ~Waits(r, d, p, q)
    /\ c[r] # "new" /\ r \notin ab
    => r < w

\* ... for while the lists are walked, one that is put back has found no slot.
SlotsTaken(d, a, at) ==
  at \in {"deferred", "queued"} /\ d # <<>> => Cardinality(a) >= Max

TurnInv ==
  /\ Overtakes(deferred_tasks, pending, queued_tasks, aborted, caller)
  /\ SlotsTaken(deferred_tasks, active, pc)

-----------------------------------------------------------------------------
(* Lists.                                                                  *)

\* The head of a list is one of its entries, and the rest are the others.
LEMMA Taken ==
  ASSUME NEW S, NEW q \in Seq(S), q # <<>>
  PROVE  /\ Len(q) \in Nat /\ Len(q) >= 1
         /\ Head(q) = q[1] /\ Head(q) \in S
         /\ Tail(q) \in Seq(S) /\ Len(Tail(q)) = Len(q) - 1
         /\ \A i \in 1..Len(Tail(q)) : Tail(q)[i] = q[i + 1] /\ i + 1 \in 1..Len(q)
         /\ \A i \in 1..Len(q) :
              i # 1 => i - 1 \in 1..Len(Tail(q)) /\ Tail(q)[i - 1] = q[i]
         /\ 1 \in 1..Len(q)
<1>1. /\ Tail(q) \in Seq(S) /\ Len(Tail(q)) = Len(q) - 1
      /\ \A i \in 1..Len(Tail(q)) : Tail(q)[i] = q[i + 1]
      /\ Head(q) \in S
  BY HeadTailProperties
<1>2. Len(q) \in Nat /\ Len(q) # 0
  BY LenProperties, EmptySeq
<1>3. Head(q) = q[1]
  OBVIOUS
<1> QED
  BY <1>1, <1>2, <1>3

\* An entry that is added comes last and leaves the others where they are.
LEMMA Added ==
  ASSUME NEW S, NEW q \in Seq(S), NEW m \in S
  PROVE  /\ Len(q) \in Nat
         /\ Append(q, m) \in Seq(S) /\ Len(Append(q, m)) = Len(q) + 1
         /\ \A i \in 1..Len(q) : Append(q, m)[i] = q[i] /\ i \in 1..Len(Append(q, m))
         /\ Append(q, m)[Len(q) + 1] = m /\ Len(q) + 1 \in 1..Len(Append(q, m))
         /\ \A i \in 1..Len(Append(q, m)) : i \in 1..Len(q) \/ i = Len(q) + 1
<1>1. /\ Len(q) \in Nat
      /\ Append(q, m) \in Seq(S) /\ Len(Append(q, m)) = Len(q) + 1
      /\ \A i \in 1..Len(q) : Append(q, m)[i] = q[i]
      /\ Append(q, m)[Len(q) + 1] = m
  BY AppendProperties, LenProperties
<1> QED
  BY <1>1

\* An empty list holds nothing.
LEMMA NoneIn == \A x : ~In(x, <<>>)
<1>1. Len(<<>>) = 0
  BY EmptySeq
<1> QED
  BY <1>1 DEF In

\* What a list holds after its head was taken,
LEMMA TakenIn ==
  ASSUME NEW S, NEW q \in Seq(S), q # <<>>, NEW x
  PROVE  In(x, q) <=> x = Head(q) \/ In(x, Tail(q))
<1>1. /\ Head(q) = q[1] /\ 1 \in 1..Len(q)
      /\ \A i \in 1..Len(Tail(q)) : Tail(q)[i] = q[i + 1] /\ i + 1 \in 1..Len(q)
      /\ \A i \in 1..Len(q) :
           i # 1 => i - 1 \in 1..Len(Tail(q)) /\ Tail(q)[i - 1] = q[i]
  BY Taken
<1>2. In(x, q) => x = Head(q) \/ In(x, Tail(q))
  <2> SUFFICES ASSUME NEW i \in 1..Len(q), q[i] = x, x # Head(q)
               PROVE  In(x, Tail(q))
    BY DEF In
  <2>1. i # 1
    BY <1>1
  <2>2. i - 1 \in 1..Len(Tail(q)) /\ Tail(q)[i - 1] = x
    BY <1>1, <2>1
  <2> QED
    BY <2>2 DEF In
<1>3. In(x, Tail(q)) => In(x, q)
  BY <1>1 DEF In
<1>4. x = Head(q) => In(x, q)
  BY <1>1 DEF In
<1> QED
  BY <1>2, <1>3, <1>4

\* ... and after an entry was added.
LEMMA AddedIn ==
  ASSUME NEW S, NEW q \in Seq(S), NEW m \in S, NEW x
  PROVE  In(x, Append(q, m)) <=> In(x, q) \/ x = m
<1>1. /\ \A i \in 1..Len(q) : Append(q, m)[i] = q[i] /\ i \in 1..Len(Append(q, m))
      /\ Append(q, m)[Len(q) + 1] = m /\ Len(q) + 1 \in 1..Len(Append(q, m))
      /\ \A i \in 1..Len(Append(q, m)) : i \in 1..Len(q) \/ i = Len(q) + 1
  BY Added
<1> DEFINE w == Append(q, m)
           n == Len(q) + 1
<1> HIDE DEF w, n
<1>2. /\ \A i \in 1..Len(q) : w[i] = q[i] /\ i \in 1..Len(w)
      /\ w[n] = m /\ n \in 1..Len(w)
      /\ \A i \in 1..Len(w) : i \in 1..Len(q) \/ i = n
  BY <1>1 DEF w, n
<1>3. In(x, w) <=> In(x, q) \/ x = m
  BY <1>2 DEF In
<1> QED
  BY <1>3 DEF w

\* The head of a list in order comes before the rest, which is in order,
LEMMA TakenOrder ==
  ASSUME NEW q \in Seq(Request), q # <<>>, Ascending(q)
  PROVE  /\ Ascending(Tail(q))
         /\ \A x \in Request : In(x, Tail(q)) => Head(q) < x
<1>1. /\ Len(q) \in Nat /\ Head(q) = q[1] /\ 1 \in 1..Len(q)
      /\ Len(Tail(q)) = Len(q) - 1
      /\ \A i \in 1..Len(Tail(q)) : Tail(q)[i] = q[i + 1] /\ i + 1 \in 1..Len(q)
  BY Taken
<1>2. Ascending(Tail(q))
  BY <1>1 DEF Ascending
<1>3. \A i \in 1..Len(Tail(q)) : q[1] < q[i + 1]
  BY <1>1 DEF Ascending
<1> QED
  BY <1>1, <1>2, <1>3 DEF In

\* ... and a list in order stays so when something later is added.
LEMMA AddedOrder ==
  ASSUME NEW q \in Seq(Request), NEW m \in Request, Ascending(q),
         \A x \in Request : In(x, q) => x < m
  PROVE  Ascending(Append(q, m))
<1> DEFINE w == Append(q, m)
<1>1. /\ Len(q) \in Nat
      /\ \A i \in 1..Len(q) : w[i] = q[i]
      /\ w[Len(q) + 1] = m
      /\ \A i \in 1..Len(w) : i \in 1..Len(q) \/ i = Len(q) + 1
  BY Added
<1>2. \A i \in 1..Len(q) : q[i] \in Request
  BY ElementOfSeq
<1>3. \A i \in 1..Len(q) : q[i] < m
  BY <1>2 DEF In
<1> HIDE DEF w
<1>4. \A i, j \in 1..Len(w) : i < j => w[i] < w[j]
  <2> SUFFICES ASSUME NEW i \in 1..Len(w), NEW j \in 1..Len(w), i < j
               PROVE  w[i] < w[j]
    OBVIOUS
  <2>1. i \in 1..Len(q)
    BY <1>1
  <2>2. CASE j \in 1..Len(q)
    BY <1>1, <2>1, <2>2 DEF Ascending
  <2>3. CASE j = Len(q) + 1
    BY <1>1, <1>3, <2>1, <2>3
  <2> QED
    BY <1>1, <2>2, <2>3
<1> QED
  BY <1>4 DEF w, Ascending

-----------------------------------------------------------------------------
(* Typing.                                                                 *)

\* The lists of TypeOK, one by one.
LEMMA Lists ==
  ASSUME TypeOK
  PROVE  /\ queued_tasks \in Seq(Request) /\ deferred_tasks \in Seq(Request)
         /\ pending \in Seq(Request)
  BY DEF TypeOK

\* A request's id is an id.
LEMMA Ids == \A r \in Request : async_http_id(r) \in Id
  BY DEF Id

\* Ending a request keeps the types of what it changes.
LEMMA FinishTyped ==
  ASSUME TypeOK, NEW r \in Request, NEW how \in {"result", "aborted"}, NEW waiting,
         Finish(r, how, waiting)
  PROVE  /\ active' \subseteq Request /\ ended' \subseteq Request
         /\ transport' \in [Request -> Transport \cup {"none"}]
         /\ outcome' \in [Request -> {"none", "result", "aborted"}]
         /\ wake' \in BOOLEAN
  BY DEF TypeOK, Finish

\* Starting one does, too.
LEMMA StartTyped ==
  ASSUME TypeOK, NEW r \in Request, NEW waiting, startQueuedTask(r, waiting)
  PROVE  /\ active' \subseteq Request /\ ended' \subseteq Request
         /\ transport' \in [Request -> Transport \cup {"none"}]
         /\ outcome' \in [Request -> {"none", "result", "aborted"}]
         /\ wake' \in BOOLEAN
<1>1. CASE Finish(r, "aborted", waiting)
  BY <1>1, FinishTyped
<1>2. CASE Finish(r, "result", waiting)
  BY <1>2, FinishTyped
<1>3. CASE /\ active' = active \cup {r}
           /\ \E t \in Transport : transport' = [transport EXCEPT ![r] = t]
           /\ UNCHANGED <<outcome, ended, wake>>
  BY <1>3 DEF TypeOK
<1> QED
  BY <1>1, <1>2, <1>3 DEF startQueuedTask

\* Every step keeps the types.
LEMMA TypeStep == TypeOK /\ [Next]_vars => TypeOK'
<1> SUFFICES ASSUME TypeOK, [Next]_vars PROVE TypeOK'
  OBVIOUS
<1>a. /\ queued_tasks \in Seq(Request) /\ deferred_tasks \in Seq(Request)
      /\ pending \in Seq(Request) /\ <<>> \in Seq(Request)
      /\ queued_shutdowns \in Seq(Id) /\ queued_writes \in Seq(Id)
  BY Lists, EmptySeq DEF TypeOK
<1>1. CASE UNCHANGED vars
  BY <1>1 DEF vars, TypeOK
<1>2. ASSUME NEW r \in Request, schedule(r) PROVE TypeOK'
  <2>1. queued_tasks' \in Seq(Request)
    BY <1>2, <1>a, Added DEF schedule
  <2> QED
    BY <1>2, <2>1 DEF schedule, TypeOK, clients
<1>3. ASSUME NEW r \in Request, Abort(r) PROVE TypeOK'
  BY <1>3 DEF Abort, TypeOK, lists, clients
<1>4. ASSUME NEW r \in Request, scheduleShutdown(r) PROVE TypeOK'
  <2>1. queued_shutdowns' \in Seq(Id)
    BY <1>4, <1>a, Ids, Added DEF scheduleShutdown
  <2> QED
    BY <1>4, <2>1 DEF scheduleShutdown, TypeOK, lists, clients
<1>5. ASSUME NEW r \in Request, scheduleRequestWrite(r) PROVE TypeOK'
  <2>1. queued_writes' \in Seq(Id)
    BY <1>5, <1>a, Ids, Added DEF scheduleRequestWrite
  <2> QED
    BY <1>5, <2>1 DEF scheduleRequestWrite, TypeOK, lists, clients
<1>6. ASSUME NEW r \in Request, Wakeup(r) PROVE TypeOK'
  BY <1>6 DEF Wakeup, TypeOK, lists, clients
<1>7. CASE drainQueuedWrites
  <2>1. CASE queued_writes = <<>>
    BY <1>7, <2>1 DEF drainQueuedWrites, TypeOK, lists, callers
  <2>2. CASE queued_writes # <<>>
    <3>1. queued_writes' \in Seq(Id)
      <4>1. queued_writes' = Tail(queued_writes)
        BY <1>7, <2>2 DEF drainQueuedWrites
      <4> QED
        BY <2>2, <4>1, <1>a, Taken
    <3>2. PICK told : ended' = ended \cup (told \cap Streaming)
      BY <1>7, <2>2 DEF drainQueuedWrites
    <3>3. ended' \subseteq Request
      BY <3>2, RequestAssumption DEF TypeOK
    <3> QED
      BY <1>7, <2>2, <3>1, <3>3 DEF drainQueuedWrites, TypeOK, lists, callers
  <2> QED
    BY <2>1, <2>2
<1>8. CASE drainQueuedShutdowns
  <2>1. CASE queued_shutdowns = <<>>
    BY <1>8, <2>1 DEF drainQueuedShutdowns, TypeOK, lists, clients, callers
  <2>2. CASE queued_shutdowns # <<>>
    <3>1. queued_shutdowns' \in Seq(Id)
      BY <1>8, <2>2, <1>a, Taken DEF drainQueuedShutdowns
    <3>2. /\ active' \subseteq Request /\ ended' \subseteq Request
          /\ transport' \in [Request -> Transport \cup {"none"}]
          /\ outcome' \in [Request -> {"none", "result", "aborted"}]
          /\ wake' \in BOOLEAN /\ has_pending_queued_abort' \in BOOLEAN
      <4>1. CASE has_pending_queued_abort' = TRUE /\ UNCHANGED <<clients, wake>>
        BY <4>1 DEF TypeOK, clients
      <4>2. CASE /\ \E r \in ShutdownTargets(Head(queued_shutdowns)) :
                      Finish(r, "aborted", TasksWaiting)
                 /\ UNCHANGED has_pending_queued_abort
        <5>1. PICK r \in ShutdownTargets(Head(queued_shutdowns)) :
                Finish(r, "aborted", TasksWaiting)
          BY <4>2
        <5>2. r \in Request
          BY <5>1 DEF ShutdownTargets, Tracked, On, TypeOK
        <5> QED
          BY <4>2, <5>1, <5>2, FinishTyped DEF TypeOK
      <4> QED
        BY <1>8, <2>2, <4>1, <4>2 DEF drainQueuedShutdowns
    <3> QED
      BY <1>8, <2>2, <3>1, <3>2 DEF drainQueuedShutdowns, TypeOK, lists, callers
  <2> QED
    BY <2>1, <2>2
<1>9. CASE Gate
  BY <1>9, <1>a DEF Gate, TypeOK, clients, callers
<1>10. CASE DrainDeferred
  <2>1. CASE pending = <<>>
    BY <1>10, <2>1 DEF DrainDeferred, TypeOK, clients, callers
  <2>2. CASE pending # <<>>
    <3>1. pending' \in Seq(Request) /\ Head(pending) \in Request
      BY <1>10, <2>2, <1>a, Taken DEF DrainDeferred
    <3>2. CASE MayStart(Head(pending))
      <4>1. /\ startQueuedTask(Head(pending), TasksWaiting)
            /\ UNCHANGED deferred_tasks
        BY <1>10, <2>2, <3>2 DEF DrainDeferred
      <4>2. /\ active' \subseteq Request /\ ended' \subseteq Request
            /\ transport' \in [Request -> Transport \cup {"none"}]
            /\ outcome' \in [Request -> {"none", "result", "aborted"}]
            /\ wake' \in BOOLEAN
        BY <3>1, <4>1, StartTyped
      <4> QED
        BY <1>10, <2>2, <3>1, <4>1, <4>2 DEF DrainDeferred, TypeOK, callers
    <3>3. CASE ~MayStart(Head(pending))
      <4>1. /\ deferred_tasks' = Append(deferred_tasks, Head(pending))
            /\ UNCHANGED <<clients, wake>>
        BY <1>10, <2>2, <3>3 DEF DrainDeferred
      <4>2. deferred_tasks' \in Seq(Request)
        BY <3>1, <4>1, <1>a, Added
      <4> QED
        BY <1>10, <2>2, <3>1, <4>1, <4>2 DEF DrainDeferred, TypeOK, clients, callers
    <3> QED
      BY <3>2, <3>3
  <2> QED
    BY <2>1, <2>2
<1>11. CASE DrainQueued
  <2>1. CASE queued_tasks = <<>>
    BY <1>11, <2>1 DEF DrainQueued, TypeOK, clients, callers
  <2>2. CASE queued_tasks # <<>>
    <3>1. queued_tasks' \in Seq(Request) /\ Head(queued_tasks) \in Request
      BY <1>11, <2>2, <1>a, Taken DEF DrainQueued
    <3>2. CASE MayStart(Head(queued_tasks))
      <4>1. /\ startQueuedTask(Head(queued_tasks), Tail(queued_tasks) # <<>>
                                                   \/ deferred_tasks # <<>>)
            /\ UNCHANGED deferred_tasks
        BY <1>11, <2>2, <3>2 DEF DrainQueued
      <4>2. /\ active' \subseteq Request /\ ended' \subseteq Request
            /\ transport' \in [Request -> Transport \cup {"none"}]
            /\ outcome' \in [Request -> {"none", "result", "aborted"}]
            /\ wake' \in BOOLEAN
        BY <3>1, <4>1, StartTyped
      <4> QED
        BY <1>11, <2>2, <3>1, <4>1, <4>2 DEF DrainQueued, TypeOK, callers
    <3>3. CASE ~MayStart(Head(queued_tasks))
      <4>1. /\ deferred_tasks' = Append(deferred_tasks, Head(queued_tasks))
            /\ UNCHANGED <<clients, wake>>
        BY <1>11, <2>2, <3>3 DEF DrainQueued
      <4>2. deferred_tasks' \in Seq(Request)
        BY <3>1, <4>1, <1>a, Added
      <4> QED
        BY <1>11, <2>2, <3>1, <4>1, <4>2 DEF DrainQueued, TypeOK, clients, callers
    <3> QED
      BY <3>2, <3>3
  <2> QED
    BY <2>1, <2>2
<1>12. CASE TickByWakeup
  BY <1>12 DEF TickByWakeup, TypeOK, lists, clients, callers
<1>13. ASSUME NEW r \in Request, NetworkResult(r) PROVE TypeOK'
  <2> DEFINE how == IF r \in aborted THEN "aborted" ELSE "result"
  <2>1. how \in {"result", "aborted"} /\ Finish(r, how, TasksWaiting)
    BY <1>13 DEF NetworkResult
  <2> HIDE DEF how
  <2>2. /\ active' \subseteq Request /\ ended' \subseteq Request
        /\ transport' \in [Request -> Transport \cup {"none"}]
        /\ outcome' \in [Request -> {"none", "result", "aborted"}]
        /\ wake' \in BOOLEAN
    BY <2>1, FinishTyped
  <2> QED
    BY <1>13, <2>2 DEF NetworkResult, TypeOK, lists, callers
<1>14. ASSUME NEW r \in Request, resolveH2Waiter(r) PROVE TypeOK'
  <2>1. /\ active' \subseteq Request /\ ended' \subseteq Request
        /\ transport' \in [Request -> Transport \cup {"none"}]
        /\ outcome' \in [Request -> {"none", "result", "aborted"}]
        /\ wake' \in BOOLEAN
    <3>1. CASE Finish(r, "aborted", TasksWaiting)
      BY <3>1, FinishTyped
    <3>2. CASE /\ transport' = [transport EXCEPT ![r] = "socket"]
               /\ UNCHANGED <<active, outcome, ended, wake>>
      BY <3>2 DEF TypeOK, Transport
    <3> QED
      BY <1>14, <3>1, <3>2 DEF resolveH2Waiter
  <2> QED
    BY <1>14, <2>1 DEF resolveH2Waiter, TypeOK, lists, callers
<1> QED
  BY <1>1, <1>2, <1>3, <1>4, <1>5, <1>6, <1>7, <1>8, <1>9, <1>10, <1>11, <1>12,
     <1>13, <1>14 DEF Next, CallerStep, drainEvents

\* The state of the HTTP thread is well typed, whatever the callers do.
THEOREM TypeCorrect == Spec => []TypeOK
<1>1. Init => TypeOK
  <2>1. \A S : <<>> \in Seq(S)
    BY EmptySeq
  <2> QED
    BY <2>1, Zenon DEF Init, TypeOK
<1> QED
  BY <1>1, TypeStep, PTL DEF Spec

-----------------------------------------------------------------------------
(* Places.  Steps are sorted by what they do to the places of requests.    *)

\* None changes its place, though a caller may abort one that waits;
Quiet ==
  /\ UNCHANGED <<deferred_tasks, pending, queued_tasks, active, outcome, transport>>
  /\ \A x \in Request : caller'[x] = "new" <=> caller[x] = "new"
  /\ aborted \subseteq aborted'
  /\ pc' \in {"deferred", "queued"} => pc \in {"deferred", "queued"}

\* ... a running one, r, ends or gets its socket;
Runs(r) ==
  /\ r \in active
  /\ UNCHANGED <<deferred_tasks, pending, queued_tasks, caller, aborted>>
  /\ pc' \notin {"deferred", "queued"}
  /\ \/ /\ active' = active \ {r} /\ transport' = transport
        /\ \/ outcome' = [outcome EXCEPT ![r] = "aborted"]
           \/ outcome' = [outcome EXCEPT ![r] = "result"]
     \/ /\ active' = active /\ outcome' = outcome
        /\ transport[r] = "h2_waiter"
        /\ transport' = [transport EXCEPT ![r] = "socket"]

\* ... or one that waited, r, is started, and runs or ends at once.
Starts(r) ==
  /\ UNCHANGED <<deferred_tasks, caller, aborted, pc>>
  /\ MayStart(r)
  /\ \/ /\ active' = active \ {r} /\ transport' = transport
        /\ \/ outcome' = [outcome EXCEPT ![r] = "aborted"]
           \/ outcome' = [outcome EXCEPT ![r] = "result"]
     \/ /\ active' = active \cup {r} /\ outcome' = outcome
        /\ \E t \in Transport : transport' = [transport EXCEPT ![r] = t]

\* The places of a quiet step.
LEMMA QuietPlaces ==
  ASSUME PlaceInv, TurnInv, Quiet
  PROVE  PlaceInv' /\ TurnInv'
<1>1. PlaceInv'
  BY DEF PlaceInv, Quiet, PlaceOf, NewLast
<1>2. Overtakes(deferred_tasks, pending, queued_tasks, aborted, caller)'
  BY DEF TurnInv, Quiet, Overtakes
<1>3. SlotsTaken(deferred_tasks, active, pc)'
  BY DEF TurnInv, Quiet, SlotsTaken
<1> QED
  BY <1>1, <1>2, <1>3 DEF TurnInv

\* The places when a running request ends or gets its socket.
LEMMA RunsPlaces ==
  ASSUME TypeOK, PlaceInv, TurnInv, NEW r \in Request, Runs(r)
  PROVE  PlaceInv' /\ TurnInv'
<1>a. /\ outcome \in [Request -> {"none", "result", "aborted"}]
      /\ transport \in [Request -> Transport \cup {"none"}]
  BY DEF TypeOK
<1>b. PlaceOf(deferred_tasks, pending, queued_tasks, active, outcome, transport, caller)
  BY DEF PlaceInv
<1>1. PlaceOf(deferred_tasks, pending, queued_tasks, active, outcome, transport, caller)'
  <2> SUFFICES ASSUME NEW x \in Request
               PROVE  /\ Waits(x, deferred_tasks, pending, queued_tasks) =>
                           x \notin active' /\ outcome'[x] = "none" /\ transport'[x] = "none"
                      /\ x \in active' => outcome'[x] = "none"
                      /\ caller[x] = "new" =>
                           /\ ~Waits(x, deferred_tasks, pending, queued_tasks)
                           /\ x \notin active'
                           /\ outcome'[x] = "none" /\ transport'[x] = "none"
                      /\ caller[x] # "new" =>
                           \/ Waits(x, deferred_tasks, pending, queued_tasks)
                           \/ x \in active' \/ outcome'[x] # "none"
    BY DEF PlaceOf, Runs
  <2>1. /\ Waits(x, deferred_tasks, pending, queued_tasks) =>
             x \notin active /\ outcome[x] = "none" /\ transport[x] = "none"
        /\ x \in active => outcome[x] = "none"
        /\ caller[x] = "new" =>
             /\ ~Waits(x, deferred_tasks, pending, queued_tasks)
             /\ x \notin active /\ outcome[x] = "none" /\ transport[x] = "none"
        /\ caller[x] # "new" =>
             \/ Waits(x, deferred_tasks, pending, queued_tasks)
             \/ x \in active \/ outcome[x] # "none"
    BY <1>b DEF PlaceOf
  <2>2. CASE x # r
    <3>1. /\ outcome'[x] = outcome[x] /\ transport'[x] = transport[x]
          /\ x \in active' <=> x \in active
      BY <1>a, <2>2 DEF Runs
    <3> QED
      BY <2>1, <3>1
  <2>3. CASE x = r
    <3>1. x \in active /\ (x \in active' \/ outcome'[x] # "none")
          /\ (x \in active' => outcome'[x] = outcome[x])
      BY <1>a, <2>3 DEF Runs
    <3> QED
      BY <2>1, <3>1
  <2> QED
    BY <2>2, <2>3
<1>2. PlaceInv'
  BY <1>1 DEF PlaceInv, Runs
<1>3. TurnInv'
  BY DEF TurnInv, Runs, SlotsTaken
<1> QED
  BY <1>2, <1>3

\* The places when r is started from a list whose other entries come later.
LEMMA StartsPlaces ==
  ASSUME TypeOK, PlaceInv, TurnInv, NEW r \in Request, Starts(r),
         pc \in {"deferred", "queued"},
         \A x \in Request :
           Waits(x, deferred_tasks, pending, queued_tasks) <=>
             x = r \/ Waits(x, deferred_tasks', pending', queued_tasks'),
         ~Waits(r, deferred_tasks', pending', queued_tasks'),
         \A x \in Request :
           In(x, pending') \/ In(x, queued_tasks') => r < x
  PROVE  /\ PlaceOf(deferred_tasks, pending, queued_tasks, active, outcome, transport, caller)'
         /\ NewLast(caller)'
         /\ TurnInv'
<1>a. /\ outcome \in [Request -> {"none", "result", "aborted"}]
      /\ transport \in [Request -> Transport \cup {"none"}]
      /\ active \subseteq Request
  BY DEF TypeOK
<1>b. PlaceOf(deferred_tasks, pending, queued_tasks, active, outcome, transport, caller)
  BY DEF PlaceInv
<1> DEFINE W(x) == Waits(x, deferred_tasks, pending, queued_tasks)
           V(x) == Waits(x, deferred_tasks', pending', queued_tasks')
<1>c. /\ \A x \in Request : W(x) <=> x = r \/ V(x)
      /\ ~V(r)
  OBVIOUS
<1>d. \A x \in Request :
        /\ W(x) => x \notin active /\ outcome[x] = "none" /\ transport[x] = "none"
        /\ x \in active => outcome[x] = "none"
        /\ caller[x] = "new" => /\ ~W(x) /\ x \notin active
                                /\ outcome[x] = "none" /\ transport[x] = "none"
        /\ caller[x] # "new" => W(x) \/ x \in active \/ outcome[x] # "none"
  BY <1>b DEF PlaceOf
<1>e. \A x \in Request : V(x) => In(x, deferred_tasks) \/ r < x
  BY DEF Waits, Starts
<1> HIDE DEF W, V
<1>1. \A x \in Request :
        /\ V(x) => x \notin active' /\ outcome'[x] = "none" /\ transport'[x] = "none"
        /\ x \in active' => outcome'[x] = "none"
        /\ caller[x] = "new" => /\ ~V(x) /\ x \notin active'
                                /\ outcome'[x] = "none" /\ transport'[x] = "none"
        /\ caller[x] # "new" => V(x) \/ x \in active' \/ outcome'[x] # "none"
  <2> SUFFICES ASSUME NEW x \in Request
               PROVE
        /\ V(x) => x \notin active' /\ outcome'[x] = "none" /\ transport'[x] = "none"
        /\ x \in active' => outcome'[x] = "none"
        /\ caller[x] = "new" => /\ ~V(x) /\ x \notin active'
                                /\ outcome'[x] = "none" /\ transport'[x] = "none"
        /\ caller[x] # "new" => V(x) \/ x \in active' \/ outcome'[x] # "none"
    OBVIOUS
  <2>1. CASE x # r
    <3>1. /\ outcome'[x] = outcome[x] /\ transport'[x] = transport[x]
          /\ x \in active' <=> x \in active
      BY <1>a, <2>1 DEF Starts
    <3> QED
      BY <1>c, <1>d, <2>1, <3>1
  <2>2. CASE x = r
    <3>1. r \notin active /\ outcome[r] = "none" /\ caller[r] # "new"
      BY <1>c, <1>d
    <3>2. \/ r \notin active' /\ outcome'[r] # "none"
          \/ r \in active' /\ outcome'[r] = "none"
      BY <1>a, <3>1 DEF Starts
    <3> QED
      BY <1>c, <2>2, <3>1, <3>2
  <2> QED
    BY <2>1, <2>2
<1>2. PlaceOf(deferred_tasks, pending, queued_tasks, active, outcome, transport, caller)'
  BY <1>1 DEF V, PlaceOf, Starts
<1>3. NewLast(caller)'
  BY DEF PlaceInv, Starts, NewLast
<1>4. r \notin aborted => deferred_tasks = <<>>
  <2> SUFFICES ASSUME r \notin aborted, deferred_tasks # <<>> PROVE FALSE
    OBVIOUS
  <2>1. Cardinality(active) >= Max /\ Cardinality(active) < Max
    BY DEF TurnInv, SlotsTaken, Starts, MayStart
  <2>2. Cardinality(active) \in Nat /\ Max \in Nat
    <3>1. IsFiniteSet(Request)
      BY RequestAssumption, FS_Interval DEF Request
    <3>2. IsFiniteSet(active)
      BY <1>a, <3>1, FS_Subset
    <3> QED
      BY <3>2, FS_CardinalityType, MaxAssumption
  <2> QED
    BY <2>1, <2>2
<1>5. \A x, w \in Request : V(w) /\ ~V(x) /\ caller[x] # "new" /\ x \notin aborted => x < w
  <2> SUFFICES ASSUME NEW x \in Request, NEW w \in Request,
                      V(w), ~V(x), caller[x] # "new", x \notin aborted
               PROVE  x < w
    OBVIOUS
  <2>1. CASE x # r
    <3>1. W(w) /\ ~W(x)
      BY <1>c, <2>1
    <3> QED
      BY <3>1 DEF W, TurnInv, Overtakes
  <2>2. CASE x = r
    <3>1. ~In(w, deferred_tasks)
      BY <1>4, <2>2, NoneIn
    <3> QED
      BY <1>e, <2>2, <3>1
  <2> QED
    BY <2>1, <2>2
<1>6. Overtakes(deferred_tasks, pending, queued_tasks, aborted, caller)'
  BY <1>5 DEF V, Overtakes, Starts
<1>7. SlotsTaken(deferred_tasks, active, pc)'
  <2>1. active \subseteq active' /\ active' \subseteq Request
    BY <1>a, <1>c, <1>d DEF Starts
  <2>2. IsFiniteSet(Request)
    BY RequestAssumption, FS_Interval DEF Request
  <2>3. IsFiniteSet(active')
    BY <2>1, <2>2, FS_Subset
  <2>4. Cardinality(active) <= Cardinality(active') /\ IsFiniteSet(active)
    BY <2>1, <2>3, FS_Subset
  <2>5. Cardinality(active) \in Nat /\ Cardinality(active') \in Nat /\ Max \in Nat
    BY <2>3, <2>4, FS_CardinalityType, MaxAssumption
  <2> QED
    BY <2>4, <2>5 DEF TurnInv, SlotsTaken, Starts
<1> QED
  BY <1>2, <1>3, <1>6, <1>7 DEF TurnInv

\* The places when tasks move between the lists and none is started: those are
\* put back that found no slot.
LEMMA MovesPlaces ==
  ASSUME TypeOK, PlaceInv, TurnInv,
         UNCHANGED <<active, outcome, transport, caller, aborted>>,
         \A x \in Request :
           Waits(x, deferred_tasks, pending, queued_tasks) <=>
             Waits(x, deferred_tasks', pending', queued_tasks')
  PROVE  /\ PlaceOf(deferred_tasks, pending, queued_tasks, active, outcome, transport, caller)'
         /\ NewLast(caller)'
         /\ Overtakes(deferred_tasks, pending, queued_tasks, aborted, caller)'
<1>1. PlaceOf(deferred_tasks, pending, queued_tasks, active, outcome, transport, caller)'
  BY DEF PlaceInv, PlaceOf
<1>2. NewLast(caller)'
  BY DEF PlaceInv, NewLast
<1>3. Overtakes(deferred_tasks, pending, queued_tasks, aborted, caller)'
  BY DEF TurnInv, Overtakes
<1> QED
  BY <1>1, <1>2, <1>3

\* One that may not start has found every slot taken.
LEMMA NoSlot ==
  ASSUME TypeOK, NEW r \in Request, ~MayStart(r)
  PROVE  Cardinality(active) >= Max
<1>1. IsFiniteSet(Request) /\ active \subseteq Request
  BY RequestAssumption, FS_Interval DEF Request, TypeOK
<1>2. IsFiniteSet(active)
  BY <1>1, FS_Subset
<1>3. Cardinality(active) \in Nat /\ Max \in Nat
  BY <1>2, FS_CardinalityType, MaxAssumption
<1> QED
  BY <1>3 DEF MayStart

\* schedule: the new request comes after all that wait.
LEMMA SchedulePlaces ==
  ASSUME TypeOK, PlaceInv, TurnInv, NEW r \in Request, schedule(r)
  PROVE  PlaceInv' /\ TurnInv'
<1>a. /\ queued_tasks \in Seq(Request) /\ caller \in [Request -> {"new", "idle", "shutdown", "wakeup"}]
      /\ \A x \in Request : x \in Nat
  BY Lists, RequestAssumption DEF TypeOK, Request
<1>b. /\ caller[r] = "new" /\ \A q \in 1..(r - 1) : caller[q] # "new"
      /\ caller' = [caller EXCEPT ![r] = "wakeup"]
      /\ queued_tasks' = Append(queued_tasks, r)
      /\ UNCHANGED <<deferred_tasks, pending, active, transport, outcome, aborted, pc>>
  BY DEF schedule, clients
<1> DEFINE W(x) == Waits(x, deferred_tasks, pending, queued_tasks)
           V(x) == Waits(x, deferred_tasks', pending', queued_tasks')
<1>c. \A x \in Request : In(x, queued_tasks') <=> In(x, queued_tasks) \/ x = r
  BY <1>a, <1>b, AddedIn
<1>d. \A x \in Request : V(x) <=> W(x) \/ x = r
  BY <1>b, <1>c DEF Waits
<1>e. \A x \in Request : W(x) => caller[x] # "new"
  BY DEF PlaceInv, PlaceOf
<1>f. \A x \in Request : caller[x] # "new" => x < r
  <2> SUFFICES ASSUME NEW x \in Request, caller[x] # "new" PROVE x < r
    OBVIOUS
  <2>1. ~(r < x)
    BY <1>b DEF PlaceInv, NewLast
  <2>2. x # r
    BY <1>b
  <2> QED
    BY <1>a, <2>1, <2>2
<1>1. Ordered(deferred_tasks, pending, queued_tasks)'
  <2>1. /\ Ascending(deferred_tasks) /\ Ascending(pending) /\ Ascending(queued_tasks)
        /\ Before(deferred_tasks, pending) /\ Before(deferred_tasks, queued_tasks)
        /\ Before(pending, queued_tasks)
    BY DEF PlaceInv, Ordered
  <2>2. \A x \in Request :
          In(x, deferred_tasks) \/ In(x, pending) \/ In(x, queued_tasks) => x < r
    BY <1>e, <1>f DEF Waits
  <2>3. Ascending(queued_tasks')
    BY <1>a, <1>b, <2>1, <2>2, AddedOrder
  <2>4. Before(deferred_tasks, queued_tasks') /\ Before(pending, queued_tasks')
    BY <1>c, <2>1, <2>2 DEF Before
  <2> QED
    BY <1>b, <2>1, <2>3, <2>4 DEF Ordered
<1>2. \A x \in Request : caller'[x] = IF x = r THEN "wakeup" ELSE caller[x]
  BY <1>a, <1>b
<1> HIDE DEF W, V
<1>3. PlaceOf(deferred_tasks, pending, queued_tasks, active, outcome, transport, caller)'
  <2>1. \A x \in Request :
          /\ W(x) => x \notin active /\ outcome[x] = "none" /\ transport[x] = "none"
          /\ x \in active => outcome[x] = "none"
          /\ caller[x] = "new" => /\ ~W(x) /\ x \notin active
                                  /\ outcome[x] = "none" /\ transport[x] = "none"
          /\ caller[x] # "new" => W(x) \/ x \in active \/ outcome[x] # "none"
    BY DEF PlaceInv, PlaceOf, W
  <2>2. \A x \in Request :
          /\ V(x) => x \notin active /\ outcome[x] = "none" /\ transport[x] = "none"
          /\ x \in active => outcome[x] = "none"
          /\ caller'[x] = "new" => /\ ~V(x) /\ x \notin active
                                   /\ outcome[x] = "none" /\ transport[x] = "none"
          /\ caller'[x] # "new" => V(x) \/ x \in active \/ outcome[x] # "none"
    BY <1>b, <1>d, <1>2, <2>1
  <2> QED
    BY <1>b, <2>2 DEF PlaceOf, V
<1>4. NewLast(caller)'
  <2>1. \A x, y \in Request : x < y /\ caller'[x] = "new" => caller'[y] = "new"
    <3> SUFFICES ASSUME NEW x \in Request, NEW y \in Request, x < y, caller'[x] = "new"
                 PROVE  caller'[y] = "new"
      OBVIOUS
    <3>1. x # r /\ caller[x] = "new"
      BY <1>2
    <3>2. caller[y] = "new"
      BY <3>1 DEF PlaceInv, NewLast
    <3>3. ~(x < r)
      BY <1>f, <1>b, <3>1, <1>a DEF Request
    <3> QED
      BY <1>a, <1>2, <3>1, <3>2, <3>3
  <2> QED
    BY <2>1 DEF NewLast
<1>5. Overtakes(deferred_tasks, pending, queued_tasks, aborted, caller)'
  <2>1. \A x, w \in Request : W(w) /\ ~W(x) /\ caller[x] # "new" /\ x \notin aborted => x < w
    BY DEF TurnInv, Overtakes, W
  <2>2. \A x, w \in Request : V(w) /\ ~V(x) /\ caller'[x] # "new" /\ x \notin aborted => x < w
    BY <1>d, <1>f, <1>2, <2>1
  <2> QED
    BY <1>b, <2>2 DEF Overtakes, V
<1>6. SlotsTaken(deferred_tasks, active, pc)'
  BY <1>b DEF TurnInv, SlotsTaken
<1> QED
  BY <1>1, <1>3, <1>4, <1>5, <1>6 DEF PlaceInv, TurnInv

\* Gate: the lists are as they were, the deferred one swapped out.
LEMMA GatePlaces ==
  ASSUME TypeOK, PlaceInv, TurnInv, Gate
  PROVE  PlaceInv' /\ TurnInv'
<1>1. CASE UNCHANGED <<deferred_tasks, pending>> /\ pc' = "tick"
  <2>1. Quiet
    BY <1>1 DEF Gate, Quiet, clients, callers
  <2> QED
    BY <2>1, QuietPlaces
<1>2. CASE pc' = "deferred" /\ pending' = deferred_tasks /\ deferred_tasks' = <<>>
  <2>1. pending = <<>>
    BY DEF Gate, TypeOK
  <2>2. UNCHANGED <<queued_tasks, active, outcome, transport, caller, aborted>>
    BY DEF Gate, clients, callers
  <2>3. \A x : ~In(x, pending) /\ ~In(x, deferred_tasks')
    BY <1>2, <2>1, NoneIn
  <2>4. \A x \in Request :
          Waits(x, deferred_tasks, pending, queued_tasks) <=>
            Waits(x, deferred_tasks', pending', queued_tasks')
    BY <1>2, <2>2, <2>3 DEF Waits
  <2>5. Ordered(deferred_tasks, pending, queued_tasks)'
    <3>1. /\ Ascending(deferred_tasks) /\ Ascending(queued_tasks)
          /\ Before(deferred_tasks, queued_tasks)
      BY DEF PlaceInv, Ordered
    <3>2. Ascending(pending) /\ Ascending(<<>>)
      BY <2>1 DEF PlaceInv, Ordered
    <3>3. Before(deferred_tasks', pending') /\ Before(deferred_tasks', queued_tasks')
      BY <2>3 DEF Before
    <3> QED
      BY <1>2, <2>2, <3>1, <3>2, <3>3 DEF Ordered
  <2>6. SlotsTaken(deferred_tasks, active, pc)'
    BY <1>2 DEF SlotsTaken
  <2> QED
    BY <2>2, <2>4, <2>5, <2>6, MovesPlaces DEF PlaceInv, TurnInv
<1> QED
  BY <1>1, <1>2 DEF Gate

\* What starting a task does to the places of requests.
LEMMA StartEffect ==
  ASSUME NEW r, NEW waiting, startQueuedTask(r, waiting), MayStart(r),
         UNCHANGED <<deferred_tasks, caller, aborted, pc>>
  PROVE  Starts(r)
  BY DEF startQueuedTask, Finish, Starts

\* drainEvents' loop over the deferred tasks: each is started or put back.
LEMMA DeferredPlaces ==
  ASSUME TypeOK, PlaceInv, TurnInv, DrainDeferred
  PROVE  PlaceInv' /\ TurnInv'
<1>a. /\ deferred_tasks \in Seq(Request) /\ pending \in Seq(Request)
      /\ pc = "deferred"
      /\ UNCHANGED <<queued_tasks, aborted, caller>>
  BY Lists DEF DrainDeferred, callers
<1>b. /\ Ascending(deferred_tasks) /\ Ascending(pending) /\ Ascending(queued_tasks)
      /\ Before(deferred_tasks, pending) /\ Before(deferred_tasks, queued_tasks)
      /\ Before(pending, queued_tasks)
  BY DEF PlaceInv, Ordered
<1>1. CASE pending = <<>>
  <2>1. Quiet
    BY <1>1, <1>a DEF DrainDeferred, Quiet, clients, callers
  <2> QED
    BY <2>1, QuietPlaces
<1>2. CASE pending # <<>>
  <2> DEFINE r == Head(pending)
  <2>1. r \in Request /\ pending' = Tail(pending) /\ pc' = pc
    BY <1>2, <1>a, Taken DEF DrainDeferred
  <2>2. \A x \in Request : In(x, pending) <=> x = r \/ In(x, pending')
    BY <1>2, <1>a, <2>1, TakenIn
  <2>3. /\ Ascending(pending')
        /\ \A x \in Request : In(x, pending') => r < x
    BY <1>2, <1>a, <1>b, <2>1, TakenOrder
  <2>4. MayStart(r) => startQueuedTask(r, TasksWaiting) /\ UNCHANGED deferred_tasks
    BY <1>2 DEF DrainDeferred
  <2>5. ~MayStart(r) => /\ deferred_tasks' = Append(deferred_tasks, r)
                        /\ UNCHANGED <<active, outcome, transport>>
    BY <1>2 DEF DrainDeferred, clients
  <2> HIDE DEF r
  <2>6. /\ \A x \in Request : In(x, queued_tasks) => r < x
        /\ \A x \in Request : In(x, deferred_tasks) => x < r
        /\ ~(r < r)
    BY <1>b, <2>1, <2>2, RequestAssumption DEF Before, Request
  <2>7. Before(pending', queued_tasks')
    BY <1>a, <1>b, <2>2 DEF Before
  <2>8. CASE MayStart(r)
    <3>1. Starts(r) /\ deferred_tasks' = deferred_tasks
      BY <1>a, <2>1, <2>4, <2>8, StartEffect
    <3>2. \A x \in Request :
            Waits(x, deferred_tasks, pending, queued_tasks) <=>
              x = r \/ Waits(x, deferred_tasks', pending', queued_tasks')
      BY <1>a, <2>2, <3>1 DEF Waits
    <3>3. ~Waits(r, deferred_tasks', pending', queued_tasks')
      BY <1>a, <2>1, <2>3, <2>6, <3>1 DEF Waits
    <3>4. \A x \in Request : In(x, pending') \/ In(x, queued_tasks') => r < x
      BY <1>a, <2>3, <2>6
    <3>5. Before(deferred_tasks', pending')
      BY <1>b, <2>2, <3>1 DEF Before
    <3>6. Ordered(deferred_tasks, pending, queued_tasks)'
      BY <1>a, <1>b, <2>3, <2>7, <3>1, <3>5 DEF Ordered
    <3>7. /\ PlaceOf(deferred_tasks, pending, queued_tasks, active, outcome, transport, caller)'
          /\ NewLast(caller)' /\ TurnInv'
      BY <1>a, <2>1, <3>1, <3>2, <3>3, <3>4, StartsPlaces
    <3> QED
      BY <3>6, <3>7 DEF PlaceInv
  <2>9. CASE ~MayStart(r)
    <3>1. \A x \in Request : In(x, deferred_tasks') <=> In(x, deferred_tasks) \/ x = r
      <4>1. \A x : In(x, Append(deferred_tasks, r)) <=> In(x, deferred_tasks) \/ x = r
        BY <1>a, <2>1, AddedIn
      <4> QED
        BY <2>5, <2>9, <4>1
    <3>2. Ascending(deferred_tasks')
      BY <1>a, <1>b, <2>1, <2>5, <2>6, <2>9, AddedOrder
    <3>3. Before(deferred_tasks', pending') /\ Before(deferred_tasks', queued_tasks')
      BY <1>a, <1>b, <2>2, <2>3, <2>6, <3>1 DEF Before
    <3>4. Ordered(deferred_tasks, pending, queued_tasks)'
      BY <1>a, <1>b, <2>3, <2>7, <3>2, <3>3 DEF Ordered
    <3>5. \A x \in Request :
            Waits(x, deferred_tasks, pending, queued_tasks) <=>
              Waits(x, deferred_tasks', pending', queued_tasks')
      BY <1>a, <2>2, <3>1 DEF Waits
    <3>6. SlotsTaken(deferred_tasks, active, pc)'
      BY <2>1, <2>5, <2>9, NoSlot DEF SlotsTaken
    <3> QED
      BY <1>a, <2>5, <2>9, <3>4, <3>5, <3>6, MovesPlaces DEF PlaceInv, TurnInv
  <2> QED
    BY <2>8, <2>9
<1> QED
  BY <1>1, <1>2

\* drainEvents' loop over the queue: each is started or deferred.
LEMMA QueuedPlaces ==
  ASSUME TypeOK, PlaceInv, TurnInv, DrainQueued
  PROVE  PlaceInv' /\ TurnInv'
<1>a. /\ deferred_tasks \in Seq(Request) /\ queued_tasks \in Seq(Request)
      /\ pc = "queued"
      /\ UNCHANGED <<pending, aborted, caller>>
  BY Lists DEF DrainQueued, callers
<1>b. /\ Ascending(deferred_tasks) /\ Ascending(pending) /\ Ascending(queued_tasks)
      /\ Before(deferred_tasks, pending) /\ Before(deferred_tasks, queued_tasks)
      /\ Before(pending, queued_tasks)
  BY DEF PlaceInv, Ordered
<1>c. \A x : ~In(x, pending)
  BY <1>a, NoneIn DEF TypeOK
<1>1. CASE queued_tasks = <<>>
  <2>1. Quiet
    BY <1>1, <1>a DEF DrainQueued, Quiet, clients, callers
  <2> QED
    BY <2>1, QuietPlaces
<1>2. CASE queued_tasks # <<>>
  <2> DEFINE r == Head(queued_tasks)
  <2>1. r \in Request /\ queued_tasks' = Tail(queued_tasks) /\ pc' = pc
    BY <1>2, <1>a, Taken DEF DrainQueued
  <2>2. \A x \in Request : In(x, queued_tasks) <=> x = r \/ In(x, queued_tasks')
    BY <1>2, <1>a, <2>1, TakenIn
  <2>3. /\ Ascending(queued_tasks')
        /\ \A x \in Request : In(x, queued_tasks') => r < x
    BY <1>2, <1>a, <1>b, <2>1, TakenOrder
  <2>4. MayStart(r) => /\ startQueuedTask(r, Tail(queued_tasks) # <<>> \/ deferred_tasks # <<>>)
                       /\ UNCHANGED deferred_tasks
    BY <1>2 DEF DrainQueued
  <2>5. ~MayStart(r) => /\ deferred_tasks' = Append(deferred_tasks, r)
                        /\ UNCHANGED <<active, outcome, transport>>
    BY <1>2 DEF DrainQueued, clients
  <2> HIDE DEF r
  <2>6. /\ \A x \in Request : In(x, deferred_tasks) => x < r
        /\ ~(r < r)
    BY <1>b, <2>1, <2>2, RequestAssumption DEF Before, Request
  <2>7. Before(pending', queued_tasks') /\ Before(deferred_tasks', pending')
    BY <1>a, <1>c DEF Before
  <2>8. CASE MayStart(r)
    <3>1. Starts(r) /\ deferred_tasks' = deferred_tasks
      BY <1>a, <2>1, <2>4, <2>8, StartEffect
    <3>2. \A x \in Request :
            Waits(x, deferred_tasks, pending, queued_tasks) <=>
              x = r \/ Waits(x, deferred_tasks', pending', queued_tasks')
      BY <1>a, <2>2, <3>1 DEF Waits
    <3>3. ~Waits(r, deferred_tasks', pending', queued_tasks')
      BY <1>a, <1>c, <2>1, <2>3, <2>6, <3>1 DEF Waits
    <3>4. \A x \in Request : In(x, pending') \/ In(x, queued_tasks') => r < x
      BY <1>a, <1>c, <2>3
    <3>5. Before(deferred_tasks', queued_tasks')
      BY <1>b, <2>2, <3>1 DEF Before
    <3>6. Ordered(deferred_tasks, pending, queued_tasks)'
      BY <1>a, <1>b, <2>3, <2>7, <3>1, <3>5 DEF Ordered
    <3>7. /\ PlaceOf(deferred_tasks, pending, queued_tasks, active, outcome, transport, caller)'
          /\ NewLast(caller)' /\ TurnInv'
      BY <1>a, <2>1, <3>1, <3>2, <3>3, <3>4, StartsPlaces
    <3> QED
      BY <3>6, <3>7 DEF PlaceInv
  <2>9. CASE ~MayStart(r)
    <3>1. \A x \in Request : In(x, deferred_tasks') <=> In(x, deferred_tasks) \/ x = r
      <4>1. \A x : In(x, Append(deferred_tasks, r)) <=> In(x, deferred_tasks) \/ x = r
        BY <1>a, <2>1, AddedIn
      <4> QED
        BY <2>5, <2>9, <4>1
    <3>2. Ascending(deferred_tasks')
      BY <1>a, <1>b, <2>1, <2>5, <2>6, <2>9, AddedOrder
    <3>3. Before(deferred_tasks', queued_tasks')
      BY <1>b, <2>2, <2>3, <3>1 DEF Before
    <3>4. Ordered(deferred_tasks, pending, queued_tasks)'
      BY <1>a, <1>b, <2>3, <2>7, <3>2, <3>3 DEF Ordered
    <3>5. \A x \in Request :
            Waits(x, deferred_tasks, pending, queued_tasks) <=>
              Waits(x, deferred_tasks', pending', queued_tasks')
      BY <1>a, <2>2, <3>1 DEF Waits
    <3>6. SlotsTaken(deferred_tasks, active, pc)'
      BY <2>1, <2>5, <2>9, NoSlot DEF SlotsTaken
    <3> QED
      BY <1>a, <2>5, <2>9, <3>4, <3>5, <3>6, MovesPlaces DEF PlaceInv, TurnInv
  <2> QED
    BY <2>8, <2>9
<1> QED
  BY <1>1, <1>2

\* Every step keeps requests in their places and in their turn.
LEMMA PlacesStep == TypeOK /\ PlaceInv /\ TurnInv /\ [Next]_vars => PlaceInv' /\ TurnInv'
<1> SUFFICES ASSUME TypeOK, PlaceInv, TurnInv, [Next]_vars PROVE PlaceInv' /\ TurnInv'
  OBVIOUS
<1>a. caller \in [Request -> {"new", "idle", "shutdown", "wakeup"}]
  BY DEF TypeOK
<1>1. UNCHANGED vars => Quiet
  BY DEF vars, Quiet
<1>2. ASSUME NEW r \in Request, Abort(r) \/ scheduleShutdown(r)
                                \/ scheduleRequestWrite(r) \/ Wakeup(r)
      PROVE  Quiet
  <2>1. PICK step \in {"idle", "shutdown", "wakeup"} :
          caller[r] # "new" /\ caller' = [caller EXCEPT ![r] = step]
    BY <1>2 DEF Abort, scheduleShutdown, scheduleRequestWrite, Wakeup
  <2>2. \A x \in Request : caller'[x] = "new" <=> caller[x] = "new"
    BY <1>a, <2>1
  <2>3. /\ UNCHANGED <<deferred_tasks, pending, queued_tasks, active, outcome, transport, pc>>
        /\ aborted \subseteq aborted'
    BY <1>2 DEF Abort, scheduleShutdown, scheduleRequestWrite, Wakeup, lists, clients
  <2> QED
    BY <2>2, <2>3 DEF Quiet
<1>3. drainQueuedWrites \/ TickByWakeup => Quiet
  BY DEF drainQueuedWrites, TickByWakeup, Quiet, lists, clients, callers
<1>4. CASE drainQueuedShutdowns
  <2>1. /\ UNCHANGED <<deferred_tasks, pending, queued_tasks, caller, aborted>>
        /\ pc' \notin {"deferred", "queued"}
    BY <1>4 DEF drainQueuedShutdowns, lists, callers
  <2>2. \/ UNCHANGED <<active, outcome, transport>>
        \/ \E r \in ShutdownTargets(Head(queued_shutdowns)) :
             Finish(r, "aborted", TasksWaiting)
    BY <1>4 DEF drainQueuedShutdowns, clients
  <2>3. CASE UNCHANGED <<active, outcome, transport>>
    <3>1. Quiet
      BY <2>1, <2>3 DEF Quiet
    <3> QED
      BY <3>1, QuietPlaces
  <2>4. CASE \E r \in ShutdownTargets(Head(queued_shutdowns)) :
               Finish(r, "aborted", TasksWaiting)
    <3>1. PICK r \in ShutdownTargets(Head(queued_shutdowns)) :
            Finish(r, "aborted", TasksWaiting)
      BY <2>4
    <3>2. r \in active /\ r \in Request
      BY <3>1 DEF ShutdownTargets, Tracked, On, TypeOK
    <3>3. Runs(r)
      BY <2>1, <3>1, <3>2 DEF Runs, Finish
    <3> QED
      BY <3>2, <3>3, RunsPlaces
  <2> QED
    BY <2>2, <2>3, <2>4
<1>5. ASSUME NEW r \in Request, NetworkResult(r) \/ resolveH2Waiter(r)
      PROVE  Runs(r)
  <2>1. /\ UNCHANGED <<deferred_tasks, pending, queued_tasks, caller, aborted>>
        /\ pc' \notin {"deferred", "queued"} /\ r \in active
    BY <1>5 DEF NetworkResult, resolveH2Waiter, lists, callers
  <2>2. CASE NetworkResult(r)
    BY <2>1, <2>2 DEF NetworkResult, Finish, Runs
  <2>3. CASE resolveH2Waiter(r)
    BY <2>1, <2>3 DEF resolveH2Waiter, Finish, Runs
  <2> QED
    BY <1>5, <2>2, <2>3
<1> QED
  BY <1>1, <1>2, <1>3, <1>4, <1>5, QuietPlaces, RunsPlaces, SchedulePlaces,
     GatePlaces, DeferredPlaces, QueuedPlaces DEF Next, CallerStep, drainEvents

-----------------------------------------------------------------------------
(* One list of all that wait.                                              *)

\* Two lists, one after the other.
LEMMA Joined ==
  ASSUME NEW a \in Seq(Request), NEW b \in Seq(Request)
  PROVE  /\ a \o b \in Seq(Request)
         /\ \A x : In(x, a \o b) <=> In(x, a) \/ In(x, b)
         /\ Ascending(a) /\ Ascending(b) /\ Before(a, b) => Ascending(a \o b)
<1> DEFINE w == a \o b
<1>1. /\ w \in Seq(Request) /\ Len(w) = Len(a) + Len(b)
      /\ \A i \in 1..Len(a) : w[i] = a[i]
      /\ \A i \in (Len(a) + 1)..(Len(a) + Len(b)) : w[i] = b[i - Len(a)]
  BY ConcatProperties, LenProperties
<1>2. /\ Len(a) \in Nat /\ Len(b) \in Nat
      /\ \A i \in 1..Len(a) : a[i] \in Request
      /\ \A i \in 1..Len(b) : b[i] \in Request
  BY LenProperties, ElementOfSeq
<1> HIDE DEF w
<1>3. \A i \in 1..Len(w) :
        \/ i \in 1..Len(a) /\ w[i] = a[i]
        \/ i - Len(a) \in 1..Len(b) /\ w[i] = b[i - Len(a)] /\ i > Len(a)
  BY <1>1, <1>2
<1>4. \A i \in 1..Len(a) : i \in 1..Len(w) /\ w[i] = a[i]
  BY <1>1, <1>2
<1>5. \A i \in 1..Len(b) : i + Len(a) \in 1..Len(w) /\ w[i + Len(a)] = b[i]
  <2> SUFFICES ASSUME NEW i \in 1..Len(b)
               PROVE  i + Len(a) \in 1..Len(w) /\ w[i + Len(a)] = b[i]
    OBVIOUS
  <2>1. i + Len(a) \in (Len(a) + 1)..(Len(a) + Len(b)) /\ (i + Len(a)) - Len(a) = i
    BY <1>2
  <2>2. w[i + Len(a)] = b[(i + Len(a)) - Len(a)]
    BY <1>1, <2>1
  <2> QED
    BY <1>1, <1>2, <2>1, <2>2
<1>6. \A x : In(x, w) <=> In(x, a) \/ In(x, b)
  <2> TAKE x
  <2>1. In(x, w) => In(x, a) \/ In(x, b)
    BY <1>3 DEF In
  <2>2. In(x, a) => In(x, w)
    BY <1>4 DEF In
  <2>3. In(x, b) => In(x, w)
    BY <1>5 DEF In
  <2> QED
    BY <2>1, <2>2, <2>3
<1>7. ASSUME Ascending(a), Ascending(b), Before(a, b)
      PROVE  Ascending(w)
  <2>1. \A i \in 1..Len(a), j \in 1..Len(b) : a[i] < b[j]
    BY <1>2, <1>7 DEF Before, In
  <2> SUFFICES ASSUME NEW i \in 1..Len(w), NEW j \in 1..Len(w), i < j
               PROVE  w[i] < w[j]
    BY DEF Ascending
  <2>2. CASE i \in 1..Len(a) /\ j \in 1..Len(a)
    BY <1>4, <1>7, <2>2 DEF Ascending
  <2>3. CASE i \in 1..Len(a) /\ j - Len(a) \in 1..Len(b) /\ w[j] = b[j - Len(a)]
    BY <1>4, <2>1, <2>3
  <2>4. CASE /\ i - Len(a) \in 1..Len(b) /\ w[i] = b[i - Len(a)]
             /\ j - Len(a) \in 1..Len(b) /\ w[j] = b[j - Len(a)]
    <3>1. i - Len(a) < j - Len(a)
      BY <1>2, <1>1
    <3> QED
      BY <1>7, <2>4, <3>1 DEF Ascending
  <2> QED
    BY <1>1, <1>2, <1>3, <2>2, <2>3, <2>4
<1> QED
  BY <1>1, <1>6, <1>7 DEF w

\* Waiting is the three lists in order.
LEMMA WaitingIs ==
  ASSUME TypeOK, PlaceInv
  PROVE  /\ DOMAIN Waiting = 1..Len(Waiting) /\ Ascending(Waiting)
         /\ \A x : In(x, Waiting) <=> Waits(x, deferred_tasks, pending, queued_tasks)
         /\ \A i \in DOMAIN Waiting : Waiting[i] \in Request
<1> DEFINE a == deferred_tasks \o pending
<1>a. /\ Ascending(deferred_tasks) /\ Ascending(pending) /\ Ascending(queued_tasks)
      /\ Before(deferred_tasks, pending) /\ Before(deferred_tasks, queued_tasks)
      /\ Before(pending, queued_tasks)
  BY DEF PlaceInv, Ordered
<1>b. /\ deferred_tasks \in Seq(Request) /\ pending \in Seq(Request)
      /\ queued_tasks \in Seq(Request)
  BY Lists
<1>1. /\ a \in Seq(Request) /\ Ascending(a)
      /\ \A x : In(x, a) <=> In(x, deferred_tasks) \/ In(x, pending)
  BY <1>a, <1>b, Joined
<1> HIDE DEF a
<1>2. Before(a, queued_tasks)
  BY <1>a, <1>1 DEF Before
<1>3. /\ a \o queued_tasks \in Seq(Request) /\ Ascending(a \o queued_tasks)
      /\ \A x : In(x, a \o queued_tasks) <=> In(x, a) \/ In(x, queued_tasks)
  BY <1>a, <1>b, <1>1, <1>2, Joined
<1>4. Waiting = a \o queued_tasks
  BY DEF Waiting, a
<1>5. Waiting \in Seq(Request) /\ Ascending(Waiting)
  BY <1>3, <1>4
<1>6. \A x : In(x, Waiting) <=> Waits(x, deferred_tasks, pending, queued_tasks)
  BY <1>1, <1>3, <1>4 DEF Waits
<1>7. DOMAIN Waiting = 1..Len(Waiting) /\ \A i \in 1..Len(Waiting) : Waiting[i] \in Request
  BY <1>5, LenProperties, ElementOfSeq
<1> QED
  BY <1>5, <1>6, <1>7

\* The invariants say where each task is.
LEMMA PlacesFollow == TypeOK /\ PlaceInv /\ TurnInv => EachTaskInOnePlace
<1> SUFFICES ASSUME TypeOK, PlaceInv, TurnInv PROVE EachTaskInOnePlace
  OBVIOUS
<1>1. /\ DOMAIN Waiting = 1..Len(Waiting) /\ Ascending(Waiting)
      /\ \A x : In(x, Waiting) <=> Waits(x, deferred_tasks, pending, queued_tasks)
      /\ \A i \in DOMAIN Waiting : Waiting[i] \in Request
  BY WaitingIs
<1>2. \A i, j \in DOMAIN Waiting : i < j => Waiting[i] < Waiting[j]
  BY <1>1 DEF Ascending
<1>3. ASSUME NEW r \in Request, caller[r] # "new"
      PROVE  LET waits == \E i \in DOMAIN Waiting : Waiting[i] = r
                 runs  == r \in active
             IN /\ waits => ~runs /\ ~Finished(r)
                /\ ~waits => (runs <=> ~Finished(r))
                /\ ~waits /\ r \notin aborted =>
                     \A i \in DOMAIN Waiting : r < Waiting[i]
  <2> DEFINE waits == \E i \in DOMAIN Waiting : Waiting[i] = r
  <2>1. waits <=> Waits(r, deferred_tasks, pending, queued_tasks)
    BY <1>1 DEF In
  <2>2. /\ Waits(r, deferred_tasks, pending, queued_tasks) => r \notin active /\ ~Finished(r)
        /\ r \in active => ~Finished(r)
        /\ Waits(r, deferred_tasks, pending, queued_tasks) \/ r \in active \/ Finished(r)
    BY <1>3 DEF PlaceInv, PlaceOf, Finished
  <2>3. ASSUME ~waits, r \notin aborted, NEW i \in DOMAIN Waiting
        PROVE  r < Waiting[i]
    <3>1. /\ Waiting[i] \in Request
          /\ Waits(Waiting[i], deferred_tasks, pending, queued_tasks)
      BY <1>1 DEF In
    <3> QED
      BY <1>3, <2>1, <2>3, <3>1 DEF TurnInv, Overtakes
  <2> QED
    BY <2>1, <2>2, <2>3
<1> QED
  BY <1>2, <1>3 DEF EachTaskInOnePlace

\* At first no task has been scheduled.
LEMMA PlacesInit == Init => PlaceInv /\ TurnInv
<1> SUFFICES ASSUME Init PROVE PlaceInv /\ TurnInv
  OBVIOUS
<1>1. /\ deferred_tasks = <<>> /\ pending = <<>> /\ queued_tasks = <<>>
      /\ active = {} /\ pc = "writes"
      /\ \A r \in Request : caller[r] = "new" /\ outcome[r] = "none" /\ transport[r] = "none"
  BY DEF Init
<1>2. \A x : /\ ~In(x, deferred_tasks) /\ ~In(x, pending) /\ ~In(x, queued_tasks)
             /\ ~Waits(x, deferred_tasks, pending, queued_tasks)
  BY <1>1, NoneIn DEF Waits
<1>3. Ascending(<<>>)
  BY EmptySeq DEF Ascending
<1>4. Ordered(deferred_tasks, pending, queued_tasks)
  BY <1>1, <1>2, <1>3 DEF Ordered, Before
<1>5. /\ PlaceOf(deferred_tasks, pending, queued_tasks, active, outcome, transport, caller)
      /\ NewLast(caller)
  BY <1>1, <1>2 DEF PlaceOf, NewLast
<1>6. TurnInv
  BY <1>1, <1>2 DEF TurnInv, Overtakes, SlotsTaken
<1> QED
  BY <1>4, <1>5, <1>6 DEF PlaceInv

\* drainEvents loses no task, starts none twice and lets none that was not
\* aborted overtake another, for any number of requests and slots.
THEOREM TasksInOnePlace == Spec => []EachTaskInOnePlace
  BY PlacesInit, TypeCorrect, PlacesStep, PlacesFollow, PTL DEF Spec

=============================================================================
