------------------------ MODULE CommandChannelProofs ------------------------
(***************************************************************************)
(* Proofs about CommandChannel, for any set of senders and any batch size. *)
(***************************************************************************)
EXTENDS CommandChannel, SequenceTheorems, TLAPS

-----------------------------------------------------------------------------
(* The part of an array that is still to be read.                          *)

\* There is something to read exactly when the read index is inside.
LEMMA Unread ==
  ASSUME NEW q \in Seq(Command), NEW r \in 0..Len(q)
  PROVE  /\ SubSeq(q, r + 1, Len(q)) \in Seq(Command)
         /\ Len(SubSeq(q, r + 1, Len(q))) = Len(q) - r
         /\ SubSeq(q, r + 1, Len(q)) # <<>> <=> r < Len(q)
         /\ \A i \in 1..(Len(q) - r) : SubSeq(q, r + 1, Len(q))[i] = q[r + i]
<1> DEFINE u == SubSeq(q, r + 1, Len(q))
<1>1. Len(q) \in Nat /\ r \in Nat /\ r <= Len(q)
  BY LenProperties
<1>2. \A i \in (r + 1)..Len(q) : q[i] \in Command
  BY <1>1, ElementOfSeq
<1>3. /\ u \in Seq(Command)
      /\ Len(u) = IF r + 1 <= Len(q) THEN Len(q) - (r + 1) + 1 ELSE 0
      /\ \A i \in 1..(Len(q) - (r + 1) + 1) : u[i] = q[(r + 1) + i - 1]
  BY <1>1, <1>2, SubSeqProperties
<1> HIDE DEF u
<1>4. Len(u) = Len(q) - r
  BY <1>1, <1>3
<1>5. u # <<>> <=> Len(u) # 0
  BY <1>3, EmptySeq
<1>6. \A i \in 1..(Len(q) - r) : u[i] = q[r + i]
  BY <1>1, <1>3
<1>7. u # <<>> <=> r < Len(q)
  BY <1>1, <1>4, <1>5
<1> QED
  BY <1>3, <1>4, <1>6, <1>7 DEF u

\* Appending to the array appends to what is still to be read.
LEMMA UnreadAppend ==
  ASSUME NEW q \in Seq(Command), NEW r \in 0..Len(q), NEW c \in Command
  PROVE  SubSeq(Append(q, c), r + 1, Len(Append(q, c))) =
           Append(SubSeq(q, r + 1, Len(q)), c)
<1> DEFINE w == Append(q, c)
           u == SubSeq(q, r + 1, Len(q))
           v == SubSeq(w, r + 1, Len(w))
<1>1. Len(q) \in Nat /\ r \in Nat /\ r <= Len(q)
  BY LenProperties
<1>2. /\ w \in Seq(Command) /\ Len(w) = Len(q) + 1
      /\ \A i \in 1..Len(q) : w[i] = q[i]
      /\ w[Len(q) + 1] = c
  BY AppendProperties
<1>3. /\ u \in Seq(Command) /\ Len(u) = Len(q) - r
      /\ \A i \in 1..(Len(q) - r) : u[i] = q[r + i]
  BY Unread
<1> HIDE DEF w
<1>4. r \in 0..Len(w)
  BY <1>1, <1>2
<1>5. /\ v \in Seq(Command) /\ Len(v) = Len(w) - r
      /\ \A i \in 1..(Len(w) - r) : v[i] = w[r + i]
  BY <1>2, <1>4, Unread
<1> HIDE DEF u, v
<1>6. /\ Append(u, c) \in Seq(Command) /\ Len(Append(u, c)) = Len(u) + 1
      /\ \A i \in 1..Len(u) : Append(u, c)[i] = u[i]
      /\ Append(u, c)[Len(u) + 1] = c
  BY <1>3, AppendProperties
<1>7. Len(v) = Len(Append(u, c))
  BY <1>1, <1>2, <1>3, <1>5, <1>6
<1>8. \A i \in 1..Len(v) : v[i] = Append(u, c)[i]
  <2> SUFFICES ASSUME NEW i \in 1..Len(v) PROVE v[i] = Append(u, c)[i]
    OBVIOUS
  <2>1. v[i] = w[r + i]
    BY <1>5
  <2>2. CASE i <= Len(q) - r
    <3>1. w[r + i] = q[r + i]
      BY <1>1, <1>2, <1>5, <2>2
    <3>2. Append(u, c)[i] = q[r + i]
      BY <1>1, <1>3, <1>5, <1>6, <2>2
    <3> QED
      BY <2>1, <3>1, <3>2
  <2>3. CASE ~(i <= Len(q) - r)
    <3>1. i = Len(u) + 1 /\ r + i = Len(q) + 1
      <4>1. Len(u) = Len(q) - r
        BY <1>3
      <4>2. Len(v) = (Len(q) + 1) - r
        BY <1>2, <1>5
      <4>3. i \in 1..((Len(q) + 1) - r)
        BY <4>2
      <4> QED
        BY <1>1, <4>1, <4>3, <2>3
    <3> QED
      BY <1>2, <1>6, <2>1, <3>1
  <2> QED
    BY <2>2, <2>3
<1>9. v = Append(u, c)
  BY <1>5, <1>6, <1>7, <1>8, SeqEqual
<1> QED
  BY <1>9 DEF u, v, w

\* Advancing the read index takes the head off what is still to be read.
LEMMA UnreadAdvance ==
  ASSUME NEW q \in Seq(Command), NEW r \in 0..Len(q), r < Len(q)
  PROVE  /\ SubSeq(q, (r + 1) + 1, Len(q)) = Tail(SubSeq(q, r + 1, Len(q)))
         /\ Head(SubSeq(q, r + 1, Len(q))) = q[r + 1]
<1>1. r + 1 \in 1..Len(q) /\ Len(q) \in (r + 1)..Len(q)
  BY LenProperties
<1> QED
  BY <1>1, HeadTailOfSubSeq

-----------------------------------------------------------------------------
(* The inductive invariant: well-typed, no lost wakeup, and a waker is     *)
(* registered from the first tick on.                                      *)

\* Once the VM thread polls or sleeps it has registered the waker.
WakerRegistered == pc # "tick" => waker

Inv == TypeOK /\ WakerRegistered /\ NoLostWakeup

\* Read index facts the steps use.
LEMMA ReadIndex ==
  ASSUME TypeOK
  PROVE  /\ Len(queue) \in Nat
         /\ read_index \in 0..Len(queue)
         /\ Pending # <<>> <=> read_index < Len(queue)
<1>1. queue \in Seq(Command) /\ read_index \in Nat
  BY DEF TypeOK
<1>2. Len(queue) \in Nat
  BY <1>1, LenProperties
<1>3. read_index \in 0..Len(queue)
  <2>1. CASE read_index < Len(queue)
    BY <1>1, <1>2, <2>1
  <2>2. CASE queue = <<>> /\ read_index = 0
    BY <1>2, <2>2
  <2> QED
    BY <2>1, <2>2 DEF TypeOK
<1> QED
  BY <1>1, <1>2, <1>3, Unread DEF Pending

\* Appending keeps the array well typed.
LEMMA SendTypes ==
  ASSUME TypeOK, NEW s \in Sender, Send(s)
  PROVE  /\ [from |-> s, n |-> sent[s] + 1] \in Command
         /\ queue' \in Seq(Command)
         /\ read_index' = read_index
         /\ read_index' < Len(queue')
         /\ sent' \in [Sender -> 0..MaxSends]
<1> DEFINE c == [from |-> s, n |-> sent[s] + 1]
<1>1. sent \in [Sender -> 0..MaxSends] /\ sent[s] < MaxSends
  BY DEF TypeOK, Send
<1>2. c \in Command
  BY <1>1, BoundAssumption DEF Command
<1>3. queue \in Seq(Command) /\ queue' = Append(queue, c) /\ read_index' = read_index
  BY DEF TypeOK, Send
<1> HIDE DEF c
<1>4. queue' \in Seq(Command) /\ Len(queue') = Len(queue) + 1
  BY <1>2, <1>3, AppendProperties
<1>5. sent' \in [Sender -> 0..MaxSends]
  BY <1>1, BoundAssumption DEF Send
<1> QED
  BY <1>2, <1>3, <1>4, <1>5, ReadIndex DEF c

\* receive keeps the array well typed.
LEMMA TakenTypes ==
  ASSUME TypeOK, Taken
  PROVE  /\ queue' \in Seq(Command)
         /\ read_index' \in Nat
         /\ read_index' < Len(queue') \/ (queue' = <<>> /\ read_index' = 0)
         /\ received' \in Seq(Command)
<1>1. /\ queue \in Seq(Command) /\ received \in Seq(Command)
      /\ read_index < Len(queue) /\ read_index \in Nat /\ Len(queue) \in Nat
      /\ received' = Append(received, queue[read_index + 1])
  BY ReadIndex DEF TypeOK, Taken
<1>2. queue[read_index + 1] \in Command
  BY <1>1, ElementOfSeq
<1>3. received' \in Seq(Command)
  BY <1>1, <1>2, AppendProperties
<1>4. CASE read_index + 1 = Len(queue)
  BY <1>3, <1>4 DEF Taken
<1>5. CASE read_index + 1 # Len(queue)
  BY <1>1, <1>3, <1>5 DEF Taken
<1> QED
  BY <1>4, <1>5

\* Types and the wakeup discipline hold initially and in every step.
THEOREM WakeupInvariance == Spec => []Inv
<1>1. Init => Inv
  <2> SUFFICES ASSUME Init PROVE Inv
    OBVIOUS
  <2>1. TypeOK
    <3>1. <<>> \in Seq(Command)
      BY EmptySeq
    <3>2. sent \in [Sender -> 0..MaxSends] /\ budget \in 0..Batch
      BY BoundAssumption DEF Init
    <3>3. waker \in BOOLEAN /\ signal \in BOOLEAN /\ truncated \in BOOLEAN
      BY Zenon DEF Init
    <3> QED
      BY <3>1, <3>2, <3>3 DEF Init, TypeOK
  <2> QED
    BY <2>1 DEF Init, Inv, WakerRegistered, NoLostWakeup
<1>2. Inv /\ [Next]_vars => Inv'
  <2> SUFFICES ASSUME Inv, [Next]_vars PROVE Inv'
    OBVIOUS
  <2> USE DEF Inv
  <2>1. ASSUME NEW s \in Sender, Send(s) PROVE Inv'
    <3>1. TypeOK'
      BY <2>1, SendTypes DEF TypeOK, Send
    <3>2. WakerRegistered'
      BY <2>1 DEF WakerRegistered, Send
    <3>3. NoLostWakeup'
      BY <2>1 DEF WakerRegistered, NoLostWakeup, Send
    <3> QED
      BY <3>1, <3>2, <3>3
  <2>2. ASSUME NEW s \in Sender, Wake(s) PROVE Inv'
    <3>1. TypeOK'
      BY <2>2 DEF TypeOK, Wake
    <3> QED
      BY <2>2, <3>1 DEF WakerRegistered, NoLostWakeup, Wake
  <2>3. CASE BeginTick
    <3>1. TypeOK'
      BY <2>3, BoundAssumption DEF TypeOK, BeginTick
    <3> QED
      BY <2>3, <3>1 DEF WakerRegistered, NoLostWakeup, BeginTick
  <2>4. CASE PollOne
    <3>1. TypeOK'
      <4>1. budget' \in 0..Batch
        BY <2>4, BoundAssumption DEF TypeOK, PollOne
      <4>2. signal' \in BOOLEAN
        BY <2>4, Zenon DEF TypeOK, PollOne
      <4>3. /\ queue' \in Seq(Command)
            /\ read_index' \in Nat
            /\ read_index' < Len(queue') \/ (queue' = <<>> /\ read_index' = 0)
            /\ received' \in Seq(Command)
        BY <2>4, TakenTypes DEF PollOne
      <4> QED
        BY <2>4, <4>1, <4>2, <4>3 DEF TypeOK, PollOne
    <3> QED
      BY <2>4, <3>1 DEF WakerRegistered, NoLostWakeup, PollOne
  <2>5. CASE PollEnds
    <3>1. TypeOK'
      BY <2>5 DEF TypeOK, PollEnds, AfterPoll
    <3>2. NoLostWakeup'
      <4>1. Pending' = Pending
        BY <2>5 DEF PollEnds, Pending
      <4>2. truncated' <=> Pending # <<>>
        BY <2>5, ReadIndex DEF PollEnds
      <4> QED
        BY <4>1, <4>2 DEF NoLostWakeup
    <3> QED
      BY <2>5, <3>1, <3>2 DEF WakerRegistered, PollEnds, AfterPoll
  <2>6. CASE Awake
    <3>1. TypeOK'
      <4>1. budget' \in 0..Batch
        BY <2>6, BoundAssumption DEF Awake
      <4>2. signal' \in BOOLEAN
        BY <2>6, Zenon DEF Awake
      <4>3. pc' \in {"tick", "poll", "repoll", "sleep"}
        BY <2>6 DEF Awake
      <4> QED
        BY <2>6, <4>1, <4>2, <4>3 DEF TypeOK, Awake
    <3> QED
      BY <2>6, <3>1 DEF WakerRegistered, NoLostWakeup, Awake
  <2>7. CASE UNCHANGED vars
    BY <2>7 DEF TypeOK, WakerRegistered, NoLostWakeup, Pending, vars
  <2> QED
    BY <2>1, <2>2, <2>3, <2>4, <2>5, <2>6, <2>7
    DEF Next, VmStep, SendFails, AwakeBySignal, AwakeByTimer
<1> QED
  BY <1>1, <1>2, PTL DEF Spec

\* The VM thread never sleeps over a command whose wakeup was lost.
THEOREM WakeupsAreNotLost == Spec => []NoLostWakeup
<1>1. Inv => NoLostWakeup
  BY DEF Inv
<1> QED
  BY <1>1, WakeupInvariance, PTL

\* The array with its read index implements the transport's queue.
THEOREM ChannelIsFifo == Spec => FifoSpec
<1>1. Init => F!Init
  <2> SUFFICES ASSUME Init PROVE F!Init
    OBVIOUS
  <2>1. queue = <<>> /\ read_index = 0 /\ received = <<>>
    BY DEF Init
  <2>2. <<>> \in Seq(Command) /\ Len(<<>>) = 0
    BY EmptySeq
  <2>3. SubSeq(<<>>, 0 + 1, 0) = <<>>
    BY SubSeqEmpty
  <2> QED
    BY <2>1, <2>2, <2>3 DEF F!Init, Pending
<1>2. Inv /\ [Next]_vars => [F!Next]_<<Pending, received>>
  <2> SUFFICES ASSUME Inv, [Next]_vars PROVE [F!Next]_<<Pending, received>>
    OBVIOUS
  <2>1. TypeOK /\ queue \in Seq(Command) /\ received \in Seq(Command)
    BY DEF Inv, TypeOK
  <2>2. read_index \in 0..Len(queue) /\ Len(queue) \in Nat
    BY <2>1, ReadIndex
  <2>3. ASSUME NEW s \in Sender, Send(s) PROVE F!Next
    <3> DEFINE c == [from |-> s, n |-> sent[s] + 1]
    <3>1. c \in Command
      BY <2>1, <2>3, SendTypes
    <3>2. queue' = Append(queue, c) /\ read_index' = read_index /\ received' = received
      BY <2>3 DEF Send
    <3> HIDE DEF c
    <3>3. Pending' = Append(Pending, c)
      BY <2>1, <2>2, <3>1, <3>2, UnreadAppend DEF Pending
    <3> QED
      BY <3>1, <3>2, <3>3 DEF F!Next, F!Send
  <2>4. CASE PollOne
    <3>1. /\ read_index < Len(queue)
          /\ received' = Append(received, queue[read_index + 1])
      BY <2>4 DEF PollOne, Taken
    <3>2. Pending # <<>> /\ Head(Pending) = queue[read_index + 1]
      BY <2>1, <2>2, <3>1, ReadIndex, UnreadAdvance DEF Pending
    <3>3. Pending' = Tail(Pending)
      <4>1. SubSeq(queue, (read_index + 1) + 1, Len(queue)) = Tail(Pending)
        BY <2>1, <2>2, <3>1, UnreadAdvance DEF Pending
      <4>2. CASE read_index + 1 = Len(queue)
        <5>1. queue' = <<>> /\ read_index' = 0
          BY <2>4, <4>2 DEF PollOne, Taken
        <5>2. Len(<<>>) = 0
          BY EmptySeq
        <5>3. SubSeq(<<>>, 0 + 1, 0) = <<>>
          BY SubSeqEmpty
        <5>4. SubSeq(queue, (read_index + 1) + 1, Len(queue)) = <<>>
          BY <2>2, <4>2, SubSeqEmpty
        <5> QED
          BY <4>1, <5>1, <5>2, <5>3, <5>4 DEF Pending
      <4>3. CASE read_index + 1 # Len(queue)
        BY <2>4, <4>1, <4>3 DEF PollOne, Taken, Pending
      <4> QED
        BY <4>2, <4>3
    <3> QED
      BY <3>1, <3>2, <3>3 DEF F!Next, F!Receive
  <2>5. ASSUME UNCHANGED <<queue, read_index, received>>
        PROVE  UNCHANGED <<Pending, received>>
    BY <2>5 DEF Pending
  <2> QED
    BY <2>3, <2>4, <2>5
    DEF Next, VmStep, SendFails, Wake, BeginTick, PollEnds, Awake,
        AwakeBySignal, AwakeByTimer, vars
<1> QED
  BY <1>1, <1>2, WakeupInvariance, PTL DEF Spec, FifoSpec, F!Spec

=============================================================================
