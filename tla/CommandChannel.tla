--------------------------- MODULE CommandChannel ---------------------------
(***************************************************************************)
(* CommandChannel of rt/direct.zig as the to_engine channel of the JSC     *)
(* engine: threads of the host send, the VM thread receives from its event *)
(* loop (jsc/event_loop.zig) and sleeps in the loop's poll in between.     *)
(*                                                                         *)
(* The channel is an array with a read index.  send and receive run under  *)
(* the channel's mutex, except for the last thing send does: it reads the  *)
(* waker under the mutex and calls it after the unlock, so another thread  *)
(* may run in between.  The event loop registers the waker at the start of *)
(* every tick, drains at most Batch commands, runs JavaScript, sleeps, and *)
(* (in autoTickActive and tickPossiblyForever) drains at most Batch more.  *)
(***************************************************************************)
EXTENDS Naturals, Sequences

CONSTANTS
  Sender,     \* threads that send: the host thread, the HTTP thread
  MaxSends,   \* bound: commands one sender sends
  Batch       \* commands one pollCurrent takes at most (256)

ASSUME BoundAssumption == MaxSends \in Nat /\ Batch \in Nat \ {0}

\* Commands are told apart by their sender and number.
Command == [from : Sender, n : 1..MaxSends]

VARIABLES
  queue,       \* CommandChannel.queue
  read_index,  \* CommandChannel.read_index
  waker,       \* a waker is registered
  calling,     \* senders past the unlock, with a waker to call
  sent,        \* commands each sender has sent
  received,    \* commands dispatched by the VM thread, in order (history)
  signal,      \* the event loop's wakeup has been written and not read
  pc,          \* where the VM thread is
  budget,      \* commands the current pollCurrent may still take
  truncated    \* the last pollCurrent left commands behind (history)

vars == <<queue, read_index, waker, calling, sent, received, signal, pc,
          budget, truncated>>

Init ==
  /\ queue = <<>> /\ read_index = 0 /\ waker = FALSE
  /\ calling = {} /\ sent = [s \in Sender |-> 0]
  /\ received = <<>>
  /\ signal = FALSE
  /\ pc = "tick" /\ budget = 0 /\ truncated = FALSE

Pending == SubSeq(queue, read_index + 1, Len(queue))

-----------------------------------------------------------------------------
(* Senders.                                                                *)

\* send, up to the unlock.
Send(s) ==
  /\ s \notin calling
  /\ sent[s] < MaxSends
  /\ queue' = Append(queue, [from |-> s, n |-> sent[s] + 1])
  /\ sent' = [sent EXCEPT ![s] = @ + 1]
  /\ calling' = IF waker THEN calling \cup {s} ELSE calling
  /\ UNCHANGED <<read_index, waker, received, signal, pc, budget, truncated>>

\* send returns false: the array could not grow.
SendFails(s) ==
  /\ s \notin calling
  /\ UNCHANGED vars

\* send, after the unlock: wakeForRuntimeHost.
Wake(s) ==
  /\ s \in calling
  /\ calling' = calling \ {s}
  /\ signal' = TRUE
  /\ UNCHANGED <<queue, read_index, waker, sent, received, pc, budget, truncated>>

-----------------------------------------------------------------------------
(* The VM thread.                                                          *)

\* Mutant of BeginTick: the waker is not registered.
BeginTick_NoWaker ==
  /\ pc = "tick"
  /\ pc' = "poll" /\ budget' = Batch
  /\ UNCHANGED <<queue, read_index, waker, calling, sent, received, signal,
                 truncated>>

\* tick: setCurrentWaker, then pollCurrent begins.
BeginTick ==
  /\ pc = "tick"
  /\ waker' = TRUE
  /\ pc' = "poll" /\ budget' = Batch
  /\ UNCHANGED <<queue, read_index, calling, sent, received, signal, truncated>>

\* Mutant of Taken: the array is reset too early.
Taken_ResetsEarly ==
  /\ read_index < Len(queue)
  /\ received' = Append(received, queue[read_index + 1])
  /\ queue' = <<>> /\ read_index' = 0

\* receive: take the command at the read index and reset a drained array.
Taken ==
  /\ read_index < Len(queue)
  /\ received' = Append(received, queue[read_index + 1])
  /\ IF read_index + 1 = Len(queue)
     THEN queue' = <<>> /\ read_index' = 0
     ELSE queue' = queue /\ read_index' = read_index + 1

\* One round of Bridge.poll.  A handler may queue a task on the event loop,
\* which writes the wakeup (enqueueTaskConcurrent).
PollOne ==
  /\ pc \in {"poll", "repoll"}
  /\ budget > 0
  /\ Taken
  /\ budget' = budget - 1
  /\ signal' \in {signal, TRUE}
  /\ UNCHANGED <<waker, calling, sent, pc, truncated>>

AfterPoll(p) == IF p = "poll" THEN "sleep" ELSE "tick"

\* Bridge.poll returns: nothing to receive, or the limit is reached.
PollEnds ==
  /\ pc \in {"poll", "repoll"}
  /\ budget = 0 \/ read_index >= Len(queue)
  /\ truncated' = (read_index < Len(queue))
  /\ pc' = AfterPoll(pc)
  /\ UNCHANGED <<queue, read_index, waker, calling, sent, received, signal, budget>>

\* The loop's poll returns, having read the wakeup; autoTickActive goes on to
\* pollCurrent, autoTick straight to the next tick.
Awake ==
  /\ pc = "sleep"
  /\ signal' = FALSE
  /\ \E p \in {"repoll", "tick"} : pc' = p
  /\ budget' = Batch
  /\ UNCHANGED <<queue, read_index, waker, calling, sent, received, truncated>>

AwakeBySignal == signal /\ Awake

\* A timer or a socket ends the sleep; the repeating GC timer always will.
AwakeByTimer == ~signal /\ Awake

-----------------------------------------------------------------------------

VmStep == BeginTick \/ PollOne \/ PollEnds \/ AwakeBySignal

Next ==
  \/ \E s \in Sender : Send(s) \/ SendFails(s) \/ Wake(s)
  \/ VmStep
  \/ AwakeByTimer

Spec == Init /\ [][Next]_vars

\* Threads that are running go on running; nothing is assumed of timers.
ThreadSpec ==
  /\ Spec
  /\ WF_vars(VmStep)
  /\ \A s \in Sender : WF_vars(Wake(s))

-----------------------------------------------------------------------------
(* Properties.                                                             *)

\* The state is well typed, and the read index stays inside a queue that is
\* emptied when it is read to its end.
TypeOK ==
  /\ queue \in Seq(Command)
  /\ read_index \in Nat
  /\ read_index < Len(queue) \/ (queue = <<>> /\ read_index = 0)
  /\ waker \in BOOLEAN /\ signal \in BOOLEAN /\ truncated \in BOOLEAN
  /\ calling \subseteq Sender
  /\ sent \in [Sender -> 0..MaxSends]
  /\ received \in Seq(Command)
  /\ pc \in {"tick", "poll", "repoll", "sleep"}
  /\ budget \in 0..Batch

F == INSTANCE Fifo WITH pending <- Pending

\* direct.zig: the array with its read index and its reset implements the
\* first-in-first-out transport of the contract, in spite of several senders.
FifoSpec == F!Spec

\* event_loop.zig: the VM thread goes to sleep over a queued command only with
\* a wakeup written or about to be written by a sender, or when its last poll
\* was cut off by the batch limit.  Registering the waker after polling, or
\* reading it before appending, would lose a wakeup.
NoLostWakeup ==
  pc = "sleep" /\ Pending # <<>> /\ ~truncated => signal \/ calling # {}

\* Every command of a successful send is dispatched in the end: by the waker
\* alone while no poll is cut off by the batch limit, and otherwise with the
\* repeating GC timer (which BUN_GC_TIMER_DISABLE turns off).
EventuallyReceived ==
  WF_vars(AwakeByTimer) \/ []~truncated =>
    \A s \in Sender : \A k \in 1..MaxSends :
      sent[s] >= k ~> \E i \in 1..Len(received) :
                         received[i] = [from |-> s, n |-> k]

=============================================================================
